------------------------------- MODULE MatchDay -------------------------------
(***************************************************************************)
(* What the site says of the matches that are on (src/lib/live-state.ts).  *)
(* Three readers ask: the worker, for the interval to its next poll; the   *)
(* live hub (app/live/page.tsx); and the badge that every open page shows  *)
(* (GET /api/live-status, hooks/useLiveStatus.ts).  Each reads candidates, *)
(* then their public access, while matches begin and end.  The badge's two *)
(* lists come from one snapshot, the others' do not.                       *)
(*                                                                         *)
(* Time is counted in hours; a reader's hour is that of its beginning.     *)
(* Whether a match is public is one truth value (the readiness of its      *)
(* edition; unpublished stages are left out), the status is its row's.     *)
(* Readers do not disturb each other, so one reads at a time; what the     *)
(* worker and the hub are answered leaves no state here.                   *)
(***************************************************************************)
EXTENDS Integers, FiniteSets, FiniteSetsExt

CONSTANTS
    Matches,       \* the numbers of the matches
    Hours,         \* the hours considered, 0..h
    DayLength,     \* the hours of a day
    Schedule,      \* the hour of each match
    Limit,         \* MAX_LIVE_STATE_CANDIDATES
    Components,    \* components of a page that show the badge
    None

MatchDayAssumption ==
    /\ Matches \subseteq Nat /\ IsFiniteSet(Matches)
    /\ IsFiniteSet(Hours) /\ Hours = 0..Cardinality(Hours) - 1
    /\ DayLength \in Nat \ {0} /\ Limit \in Nat \ {0}
    /\ Schedule \in [Matches -> Hours]
    /\ None \notin Nat

VARIABLES
    hour,       \* the present hour
    match,      \* the status and the hour of each match
    public,     \* the matches whose edition is publicly ready
    reading,    \* the reader at work
    steady,     \* history: the matches that were live, or due, since it began, and
                \* whether every list it read had room for the candidates
    badge,      \* the snapshot of useLiveStatus
    watching,   \* its listeners
    pollTimer,  \* its timer is set
    calm        \* no request fails any more and no page is opened or closed

dayVars ==
    <<hour, match, public, reading, steady, badge, watching, pollTimer, calm>>

Statuses == {"SCHEDULED", "LIVE", "COMPLETED"}

\* A row as a reader has it.
Rows == [id : Matches, status : Statuses, at : Hours]

Row(m) == [id |-> m, status |-> match[m].status, at |-> match[m].at]

NoReader == [kind |-> "none", pc |-> "idle", now |-> 0, live |-> {}, others |-> {}]

Init ==
    /\ hour = 0
    /\ match = [m \in Matches |-> [status |-> "SCHEDULED", at |-> Schedule[m]]]
    /\ public = Matches
    /\ reading = NoReader
    /\ steady = [live |-> {}, due |-> {}, fits |-> TRUE]
    /\ badge = [hasLive |-> FALSE, next |-> None]
    /\ watching = {}
    /\ pollTimer = FALSE
    /\ calm = FALSE

-----------------------------------------------------------------------------
(* Matches                                                                 *)

IsLive(m) == m \in public /\ match[m].status = "LIVE"

\* A match is due when it is live or starts within the hour of the reader.
IsDue(m, now) ==
    /\ m \in public
    /\ \/ match[m].status = "LIVE"
       \/ match[m].status = "SCHEDULED" /\ match[m].at \in now..now + 1

\* What still holds of the matches after a change.
StillSteady ==
    steady' = [steady EXCEPT !.live = {m \in steady.live : IsLive(m)'},
                             !.due = {m \in steady.due : IsDue(m, reading.now)'}]

ReadersIdle == UNCHANGED <<reading, badge, watching, pollTimer, calm>>

\* The worker writes what the upstream says of a match.
Follows(status) == CASE status = "SCHEDULED" -> "LIVE" [] OTHER -> "COMPLETED"

Advance(m) ==
    /\ match[m].status # "COMPLETED"
    /\ match' = [match EXCEPT ![m].status = Follows(@)]
    /\ UNCHANGED <<hour, public>>
    /\ ReadersIdle
    /\ StillSteady

Republish(m) ==
    /\ ~calm
    /\ public' = IF m \in public THEN public \ {m} ELSE public \cup {m}
    /\ UNCHANGED <<hour, match>>
    /\ ReadersIdle
    /\ StillSteady

Pass ==
    /\ hour + 1 \in Hours
    /\ hour' = hour + 1
    /\ UNCHANGED <<match, public, steady>>
    /\ ReadersIdle

-----------------------------------------------------------------------------
(* Readers                                                                 *)

WorldUnread == UNCHANGED <<hour, match, public, calm>>

Begin(kind) ==
    /\ reading' = [kind |-> kind, pc |-> "live", now |-> hour, live |-> {}, others |-> {}]
    /\ steady' = [live |-> {m \in Matches : IsLive(m)},
                  due |-> {m \in Matches : IsDue(m, hour)}, fits |-> TRUE]

Earlier(r, q) == r.at < q.at \/ (r.at = q.at /\ r.id < q.id)

\* ORDER BY scheduledAt, id with a limit.
Earliest(rows, n) ==
    {r \in rows : Cardinality({q \in rows : Earlier(q, r)}) < n}

LiveRows == {Row(m) : m \in {n \in Matches : match[n].status = "LIVE"}}
Live == Earliest(LiveRows, Limit)

Day(h) == h \div DayLength

\* The window of getLiveState: an hour each way, and the whole Sydney day.
InWindow(now, at) == at \in now - 1..now + 1 \/ Day(at) = Day(now)

\* Candidates that are not live, in the room the live ones leave.
Window(r) ==
    Earliest({Row(m) : m \in {n \in Matches :
                 /\ match[n].status # "LIVE"
                 /\ n \notin {q.id : q \in r.live}
                 /\ InWindow(r.now, match[n].at)}},
             Limit - Cardinality(r.live))

UpcomingRows(r) ==
    {Row(m) : m \in {n \in Matches :
         match[n].status = "SCHEDULED" /\ match[n].at \in r.now..r.now + 1}}
Upcoming(r) == Earliest(UpcomingRows(r), Limit)

\* In the history: the list read now had room, whether public or not what it found.
Room(rows) ==
    steady' = [steady EXCEPT !.fits = @ /\ Cardinality(rows) <= Limit]

\* A mutation: the badge's second list is not read from the first's snapshot.
ReadListsApart ==
    reading' = [reading EXCEPT !.live = Live,
                               !.pc = IF reading.kind = "page" THEN "access" ELSE "others"]

\* The status reads both lists in one repeatable-read transaction.
ReadLists ==
    reading' =
        CASE reading.kind = "status" ->
               [reading EXCEPT !.live = Live, !.others = Upcoming(reading), !.pc = "access"]
          [] reading.kind = "page" -> [reading EXCEPT !.live = Live, !.pc = "access"]
          [] OTHER -> [reading EXCEPT !.live = Live, !.pc = "others"]

ReadLive ==
    /\ reading.pc = "live"
    /\ ReadLists
    /\ Room(IF reading.kind = "status" THEN LiveRows \cup UpcomingRows(reading) ELSE LiveRows)
    /\ WorldUnread
    /\ UNCHANGED <<badge, watching, pollTimer>>

\* The second list, for those that read it apart; with no room left, nothing.
ReadOthers ==
    /\ reading.pc = "others"
    /\ reading' = [reading EXCEPT !.others = IF reading.kind = "status"
                                             THEN Upcoming(reading) ELSE Window(reading),
                                  !.pc = "access"]
    /\ WorldUnread
    /\ UNCHANGED <<steady, badge, watching, pollTimer>>

Candidates == reading.live \cup reading.others

\* Access comes with the status of the match: that of the candidates already
\* read, or for the worker that of a fresh read.
AccessStatus(r) == IF reading.kind = "worker" THEN match[r.id].status ELSE r.status

\* The candidates that are public and have that status; none when the access
\* could not be looked up.
Public(status, granted) ==
    {r \in Candidates : granted /\ r.id \in public /\ AccessStatus(r) = status}

Soonest(rows) == IF rows = {} THEN None ELSE Min({r.at : r \in rows})

\* scheduleNextPoll: the state of the matches decides the interval.
Interval(granted) ==
    LET imminent == {r \in Public("SCHEDULED", granted) :
                       r.at \in reading.now - 1..reading.now + 1}
        today == \E status \in Statuses :
                    \E r \in Public(status, granted) : Day(r.at) = Day(reading.now)
    IN IF Public("LIVE", granted) # {} THEN "live"
       ELSE IF imminent # {} THEN "pre-match"
       ELSE IF today THEN "match day"
       ELSE "off"

\* One live match is gone to, several are offered; otherwise the page falls
\* back on the next fixture and the latest result, read together.
Hub(granted) ==
    LET live == {r.id : r \in Public("LIVE", granted)}
        now(status) == {Row(m) : m \in {n \in public : match[n].status = status}}
        next == {r \in now("SCHEDULED") : r.at >= reading.now}
    IN IF live # {} THEN [live |-> live, next |-> None, latest |-> None]
       ELSE [live |-> {}, next |-> Soonest(next),
             latest |-> IF now("COMPLETED") = {} THEN None
                        ELSE Max({r.at : r \in now("COMPLETED")})]

Status(granted) ==
    [hasLive |-> Public("LIVE", granted) # {},
     next |-> Soonest({r \in Public("SCHEDULED", granted) :
                         r.at \in reading.now..reading.now + 1})]

Respond(granted) ==
    /\ reading.pc = "access"
    /\ reading' = NoReader
    /\ badge' = IF reading.kind = "status" THEN Status(granted) ELSE badge
    /\ WorldUnread
    /\ UNCHANGED <<steady, watching, pollTimer>>

Answer == Respond(TRUE)

\* A failed access lookup is caught and taken for "nothing is public".
AccessFails == ~calm /\ Respond(FALSE)

\* A failed list: the badge keeps its last answer, the worker falls back on the
\* long interval, the hub is an error.
ListFails ==
    /\ ~calm
    /\ reading.pc \in {"live", "others"}
    /\ reading' = NoReader
    /\ WorldUnread
    /\ UNCHANGED <<steady, badge, watching, pollTimer>>

AskFor(kind) ==
    /\ ~calm
    /\ reading.pc = "idle"
    /\ Begin(kind)
    /\ UNCHANGED <<hour, match, public, badge, watching, pollTimer, calm>>

-----------------------------------------------------------------------------
(* The badge of a page                                                     *)

\* The first listener fetches and sets the timer.
Watch(c) ==
    /\ ~calm
    /\ c \notin watching
    /\ watching' = watching \cup {c}
    /\ pollTimer' = (pollTimer \/ watching = {})
    /\ IF watching = {} /\ reading.pc = "idle" THEN Begin("status") ELSE UNCHANGED <<reading, steady>>
    /\ UNCHANGED <<hour, match, public, badge, calm>>

\* A mutation: a component that goes takes the timer of the others with it.
LastOne(c) == TRUE

\* The timer is cleared with the last listener.
NobodyElse(c) == watching = {c}

Unwatch(c) ==
    /\ ~calm
    /\ c \in watching
    /\ watching' = watching \ {c}
    /\ pollTimer' = (pollTimer /\ ~NobodyElse(c))
    /\ UNCHANGED <<hour, match, public, reading, steady, badge, calm>>

\* Every 30 seconds; a fetch that is still under way is not repeated.
Poll ==
    /\ pollTimer
    /\ reading.pc = "idle"
    /\ Begin("status")
    /\ UNCHANGED <<hour, match, public, badge, watching, pollTimer, calm>>

CalmDown ==
    /\ ~calm
    /\ calm' = TRUE
    /\ UNCHANGED <<hour, match, public, reading, steady, badge, watching, pollTimer>>

Read == ReadLive \/ ReadOthers \/ Answer

World == Pass \/ \E m \in Matches : Advance(m) \/ Republish(m)

Page ==
    \/ AskFor("worker") \/ AskFor("page") \/ Poll
    \/ \E c \in Components : Watch(c) \/ Unwatch(c)

Next == World \/ Page \/ Read \/ AccessFails \/ ListFails \/ CalmDown

\* The timer of the badge fires, and requests end.
Fairness == WF_dayVars(Poll) /\ WF_dayVars(Read)

Spec == Init /\ [][Next]_dayVars /\ Fairness

-----------------------------------------------------------------------------
(* Properties                                                              *)

\* The state is of the declared shape (the rows and answers of live-state.ts).
TypeOK ==
    /\ hour \in Hours
    /\ match \in [Matches -> [status : Statuses, at : Hours]]
    /\ reading.live \subseteq Rows /\ reading.others \subseteq Rows
    /\ badge.next \in Hours \cup {None}
    /\ watching \subseteq Components

\* A match that is public and live while a reader reads is not overlooked by
\* any of them, and one that starts within the hour or begins meanwhile is not
\* overlooked by the badge (the snapshot of getLiveStatus), if the access can
\* be read and the lists had room.
OverlooksNothing ==
    Answer /\ steady.fits =>
        /\ reading.kind = "worker" /\ steady.live # {} => Interval(TRUE) = "live"
        /\ reading.kind = "page" => steady.live \subseteq Hub(TRUE).live
        /\ reading.kind = "status" /\ steady.live # {} => badge'.hasLive
        /\ reading.kind = "status" /\ steady.due # {} =>
             badge'.hasLive \/ badge'.next # None

MatchesAreNotOverlooked == [][OverlooksNothing]_dayVars

\* Once no request fails, an open page's badge comes to tell whether a public
\* match is live, whoever opened and closed what before (useLiveStatus).
BadgeCatchesUp ==
    <>[](calm /\ watching # {}) =>
        <>[](badge.hasLive <=> \E m \in Matches : IsLive(m))

=============================================================================
