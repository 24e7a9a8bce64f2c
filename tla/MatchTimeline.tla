---------------------------- MODULE MatchTimeline ----------------------------
(***************************************************************************)
(* The play by play of a match: the list that the reader of a page filters *)
(* and extends (src/components/match/MatchTimeline.tsx), and the pages     *)
(* that the route api/matches/[matchId]/events serves to it                *)
(* (src/lib/match-timeline.ts).                                            *)
(*                                                                         *)
(* Goals and other events are two tables, which a page merges.  A row has  *)
(* the time it is sorted by; a filter is a kind of event and a team (the   *)
(* quarter restricts the queries in the same way).  A cursor is the row it *)
(* was made of.  Rows are recorded in the order in which they are listed,  *)
(* and a page is a set of rows in that order.                              *)
(***************************************************************************)
EXTENDS Naturals, Sequences, FiniteSets

CONSTANTS
    Rows,           \* the goals and the events of the match, as they come
    Filters,        \* what a reader may choose
    Sources,        \* the tables that the capabilities of the edition allow
    PageSize,       \* MATCH_TIMELINE_PAGE_SIZE
    Slots,          \* requests for older events that may be on the way at once
    None

VARIABLES
    recorded,       \* how many rows there are
    filter,         \* the filter chosen
    shown,          \* entries, as the pages they came in
    next,           \* nextCursor
    loading,
    initial,        \* the request of the effect, the last one only: others are aborted
    older,          \* the requests of the button
    mixed           \* history: an answer from before the filter was taken

vars == <<recorded, filter, shown, next, loading, initial, older, mixed>>

-----------------------------------------------------------------------------

\* compareNewest(a, b) < 0
Newer(a, b) ==
    \/ a.at > b.at
    \/ a.at = b.at /\ a.source = "score" /\ b.source = "event"
    \/ a.at = b.at /\ a.source = b.source /\ a.id > b.id

TimelineAssumption ==
    /\ PageSize \in Nat \ {0}
    /\ Sources \subseteq {"score", "event"}
    /\ Len(Rows) \in Nat /\ DOMAIN Rows = 1..Len(Rows)
    /\ \A i \in DOMAIN Rows :
         Rows[i].at \in Nat /\ Rows[i].id \in Nat /\ Rows[i].source \in {"score", "event"}
    /\ \A i, j \in DOMAIN Rows : i < j => Newer(Rows[j], Rows[i])

-----------------------------------------------------------------------------

Recorded == {Rows[i] : i \in 1..recorded}

\* A query of one table for the rows that a filter wants.
Wanted(f, r) ==
    /\ f.team \in {None, r.team}
    /\ f.kind \in {None, r.kind}

\* A mutation: the query excludes the second of the cursor.
PastCursor(after) == {r \in Recorded : after = None \/ r.at < after.at}

\* The rows that the queries may return: those at the second of the cursor too,
\* among which are some that the reader has already.
FromCursor(after) == {r \in Recorded : after = None \/ r.at <= after.at}

\* The first n of some rows, and their last.
Newest(n, rows) == {r \in rows : Cardinality({q \in rows : Newer(q, r)}) < n}
Oldest(rows) == CHOOSE r \in rows : \A q \in rows : ~Newer(r, q)

Query(source, f, after) ==
    IF source \in Sources
    THEN Newest(PageSize + 1,
                {r \in FromCursor(after) : r.source = source /\ Wanted(f, r)})
    ELSE {}

\* Both tables, and what is past the cursor.
Combined(f, after) ==
    {r \in Query("score", f, after) \cup Query("event", f, after) :
        after = None \/ Newer(after, r)}

\* loadMatchTimeline
Page(f, after) ==
    LET combined == Combined(f, after)
        entries == Newest(PageSize, combined)
    IN  [ok |-> TRUE, entries |-> entries,
         next |-> IF Cardinality(combined) > PageSize THEN Oldest(entries) ELSE None]

\* What the route answers: a page, an empty one if the match or its coverage is
\* closed, or an error.
Answers(f, after) ==
    {Page(f, after)} \cup {[ok |-> ok, entries |-> {}, next |-> None] : ok \in BOOLEAN}

-----------------------------------------------------------------------------
(* The list                                                                *)

Asked(f, after) == [filter |-> f, after |-> after, answer |-> None, stale |-> FALSE]

Init ==
    /\ recorded \in 0..Len(Rows)
    /\ filter \in Filters
    /\ shown = <<>>
    /\ next = None
    /\ loading = TRUE
    /\ initial = Asked(filter, None)
    /\ older = [s \in Slots |-> None]
    /\ mixed = FALSE

Record ==
    /\ recorded < Len(Rows)
    /\ recorded' = recorded + 1
    /\ UNCHANGED <<filter, shown, next, loading, initial, older, mixed>>

\* The effect aborts its own last request, and no other.
SetFilter(f) ==
    /\ f # filter
    /\ filter' = f
    /\ shown' = <<>>
    /\ next' = None
    /\ loading' = TRUE
    /\ initial' = Asked(f, None)
    /\ older' = [s \in Slots |->
          IF older[s] = None THEN None ELSE [older[s] EXCEPT !.stale = TRUE]]
    /\ mixed' = FALSE
    /\ UNCHANGED <<recorded>>

\* loadOlderEvents
LoadOlder(s) ==
    /\ next # None /\ ~loading
    /\ older[s] = None
    /\ loading' = TRUE
    /\ older' = [older EXCEPT ![s] = Asked(filter, next)]
    /\ UNCHANGED <<recorded, filter, shown, next, initial, mixed>>

ServeInitial ==
    /\ initial # None
    /\ initial.answer = None
    /\ \E answer \in Answers(initial.filter, None) :
          initial' = [initial EXCEPT !.answer = answer]
    /\ UNCHANGED <<recorded, filter, shown, next, loading, older, mixed>>

ServeOlder(s) ==
    /\ older[s] # None
    /\ older[s].answer = None
    /\ \E answer \in Answers(older[s].filter, older[s].after) :
          older' = [older EXCEPT ![s].answer = answer]
    /\ UNCHANGED <<recorded, filter, shown, next, loading, initial, mixed>>

TakeInitial ==
    /\ initial # None
    /\ initial.answer # None
    /\ IF initial.answer.ok
       THEN shown' = <<initial.answer.entries>> /\ next' = initial.answer.next
       ELSE UNCHANGED <<shown, next>>
    /\ loading' = FALSE
    /\ initial' = None
    /\ UNCHANGED <<recorded, filter, older, mixed>>

\* The entries of an older page that are not in the list yet.
Listed == UNION {shown[i] : i \in DOMAIN shown}
Unknown(entries) == entries \ Listed

TakeOlder(s) ==
    /\ older[s] # None
    /\ older[s].answer # None
    /\ IF older[s].answer.ok
       THEN /\ shown' = Append(shown, Unknown(older[s].answer.entries))
            /\ next' = older[s].answer.next
       ELSE UNCHANGED <<shown, next>>
    /\ loading' = FALSE
    /\ older' = [older EXCEPT ![s] = None]
    /\ mixed' = (mixed \/ older[s].stale)
    /\ UNCHANGED <<recorded, filter, initial>>

Next ==
    \/ Record
    \/ \E f \in Filters : SetFilter(f)
    \/ ServeInitial
    \/ TakeInitial
    \/ \E s \in Slots : LoadOlder(s) \/ ServeOlder(s) \/ TakeOlder(s)

Spec == Init /\ [][Next]_vars

-----------------------------------------------------------------------------
(* Properties                                                              *)

\* The rows of a table at the second of a that its next query returns once more
\* after the cursor a, out of the PageSize + 1 that it takes.
Repeated(source, a) ==
    {r \in Recorded :
        r.source = source /\ r.at = a.at /\ Wanted(filter, r) /\ ~Newer(a, r)}

\* Such rows leave no room for the one that tells whether there are more.
Crowded(a) == \E source \in Sources : Cardinality(Repeated(source, a)) > 1

\* Between the first and the last row of the list nothing that the filter wants is
\* missing, doubled or out of order, whatever is recorded while the reader goes from
\* page to page: as long as no answer from before the last change of the filter was
\* taken, and unless two rows of one table share a second at which a page ended
\* (match-timeline.ts).
PlayByPlayHasNoGaps ==
    ~mixed =>
        /\ \A r \in Listed : Wanted(filter, r)
        /\ \A i, j \in DOMAIN shown : i < j =>
             \A a \in shown[i], b \in shown[j] : Newer(a, b)
        /\ \A r \in Recorded : Wanted(filter, r) /\ r.source \in Sources =>
             \/ r \in Listed
             \/ \A a \in Listed : Newer(r, a)
             \/ \A a \in Listed : Newer(a, r)
             \/ \E a \in Listed : Newer(a, r) /\ Crowded(a)

=============================================================================
