---------------------------- MODULE ReaderControls ----------------------------
(***************************************************************************)
(* The controls of the site that answer a reader one request at a time:    *)
(* the search box, the page of Ask CentrePass, and the buttons that save   *)
(* something.  Each is a client of its own, with its own variables, its    *)
(* own initial states and its own steps; they have in common that the      *)
(* reader goes on while an answer is on its way.                           *)
(***************************************************************************)
EXTENDS Integers, FiniteSets

CONSTANTS
    None,
    Queries,        \* search: texts of at least two characters
    TooLong,        \* those of more than eighty
    Findable,       \* the players, teams and matches a text may name
    Fixtures,       \* the matches among them
    Matching,       \* those of each text
    MaxTurns,       \* a bound: how often what is public changes
    Questions,      \* Ask: normalised texts of at least two characters
    Teams,          \* saved: what may be followed
    Favorites,      \* the matches of the list of favourites
    Reminders,      \* those of the list of reminders
    Calls           \* a bound: the requests under way at a time

-----------------------------------------------------------------------------
(***************************************************************************)
(* The search box of the site (GlobalSearch) and the search it asks for    *)
(* (api/search): a text is asked for a moment after it has been typed,     *)
(* typing again calls the answer off, and the server reads first the       *)
(* public editions and what is named there, then the access to the         *)
(* matches among it.                                                       *)
(*                                                                         *)
(* A text is its trimmed query, or None when that has less than two        *)
(* characters.  A list of results is the set of what it names.             *)
(***************************************************************************)

SearchAssumption ==
    /\ None \notin Queries
    /\ TooLong \subseteq Queries
    /\ Fixtures \subseteq Findable
    /\ IsFiniteSet(Findable)
    /\ Matching \in [Queries -> SUBSET Findable]
    /\ MaxTurns \in Nat

VARIABLES
    query,          \* the text of the box
    found,          \* the results, whose they are, and those that show a score
    loading,
    alert,          \* the text whose search failed
    activeIndex,
    tasks,          \* the searches that have not been called off
    access,         \* what the public may see of each
    turns,
    witnessed       \* history: what it could see since the text was typed

searchVars ==
    <<query, found, loading, alert, activeIndex, tasks, access, turns, witnessed>>

-----------------------------------------------------------------------------

\* Nothing, its name, or (of a match) its score as well.
Accesses(n) == IF n \in Fixtures THEN {"hidden", "named", "scored"} ELSE {"hidden", "named"}

Listed == {n \in Findable : access[n] # "hidden"}
Scored == {n \in Findable : access[n] = "scored"}

\* EMPTY_RESULTS.
Empty == [of |-> None, names |-> {}, scores |-> {}]

\* A search waits a quarter of a second before it is sent.
Typed(q) == [of |-> q, at |-> "timer", rows |-> {}, scores |-> {}]

\* The panel is open for a text of two characters.
showPanel == query # None

SearchInit ==
    /\ query = None /\ found = Empty /\ loading = FALSE /\ alert = None
    /\ activeIndex = -1 /\ tasks = {}
    /\ access \in [Findable -> {"hidden", "named", "scored"}]
    /\ \A n \in Findable : access[n] \in Accesses(n)
    /\ turns = 0
    /\ witnessed = [listed |-> Listed, scored |-> Scored]

-----------------------------------------------------------------------------
(* The box                                                                 *)

\* A mutation: an effect without its cleanup.
KeepTasks(earlier) == earlier

\* The effect of another text: the search of the earlier one is aborted.
Abandon(earlier) == {}

\* What is on its way when the text is q.
Begun(q) == Abandon(tasks) \cup IF q = None THEN {} ELSE {Typed(q)}

\* resetForShortQuery; the text may differ in its spaces only.
Type(q) ==
    /\ query' = q
    /\ loading' = TRUE
    /\ tasks' = Begun(q)
    /\ witnessed' = [listed |-> Listed, scored |-> Scored]
    /\ UNCHANGED <<found, alert, activeIndex, access, turns>>

TypeShort ==
    /\ query' = None /\ found' = Empty /\ alert' = None /\ activeIndex' = -1
    /\ loading' = FALSE
    /\ tasks' = Begun(None)
    /\ UNCHANGED <<access, turns, witnessed>>

\* handleKeyDown, with the arrows, and onMouseEnter: an option becomes the active one.
Point(i) ==
    /\ found.names # {}
    /\ activeIndex' = i
    /\ UNCHANGED <<query, found, loading, alert, tasks, access, turns, witnessed>>

Arrow ==
    LET length == Cardinality(found.names) IN
    \/ Point((activeIndex + 1) % length)
    \/ Point(IF activeIndex <= 0 THEN length - 1 ELSE activeIndex - 1)

Hover == showPanel /\ \E i \in 0..(Cardinality(found.names) - 1) : Point(i)

\* navigateTo, from Enter or from a link, and Escape: the box is emptied, but for its
\* alert, its active option and what it says of loading.
Leave ==
    /\ found.names # {}
    /\ query' = None /\ found' = Empty
    /\ tasks' = Begun(None)
    /\ UNCHANGED <<loading, alert, activeIndex, access, turns, witnessed>>

-----------------------------------------------------------------------------
(* The search                                                              *)

Moves(t, moved) == tasks' = (tasks \ {t}) \cup {moved}

Send(t) ==
    /\ t.at = "timer"
    /\ loading' = TRUE /\ alert' = None
    /\ Moves(t, [t EXCEPT !.at = "sent"])
    /\ UNCHANGED <<query, found, activeIndex, access, turns, witnessed>>

\* getPublicCompetitions, and five of each kind that are named so in their editions.
ReadRows(t) ==
    /\ t.at = "sent" /\ t.of \notin TooLong
    /\ Moves(t, [t EXCEPT !.at = "rows", !.rows = Matching[t.of] \cap Listed])
    /\ UNCHANGED <<query, found, loading, alert, activeIndex, access, turns, witnessed>>

\* resolvePublicMatchAccessBatch: a match goes when its edition has been withdrawn
\* meanwhile, and its score is told when its access has it.
Exposable(read) == read \cap Fixtures \cap Scored

ReadAccess(t) ==
    /\ t.at = "rows"
    /\ Moves(t, [t EXCEPT !.at = "answered",
                          !.rows = (t.rows \ Fixtures) \cup (t.rows \cap Listed),
                          !.scores = Exposable(t.rows)])
    /\ UNCHANGED <<query, found, loading, alert, activeIndex, access, turns, witnessed>>

Receive(t) ==
    /\ t.at = "answered"
    /\ found' = [of |-> t.of, names |-> t.rows, scores |-> t.scores]
    /\ activeIndex' = -1 /\ loading' = FALSE /\ tasks' = tasks \ {t}
    /\ UNCHANGED <<query, alert, access, turns, witnessed>>

\* A query that is too long, a read that fails, or an answer that is lost.
Fail(t) ==
    /\ t.at # "timer"
    /\ alert' = t.of /\ loading' = FALSE /\ tasks' = tasks \ {t}
    /\ UNCHANGED <<query, found, activeIndex, access, turns, witnessed>>

\* A publication, a withdrawal, a result.
Turn ==
    /\ turns < MaxTurns
    /\ turns' = turns + 1
    /\ \E n \in Findable : \E a \in Accesses(n) : access' = [access EXCEPT ![n] = a]
    /\ witnessed' = [listed |-> witnessed.listed \cup Listed',
                     scored |-> witnessed.scored \cup Scored']
    /\ UNCHANGED <<query, found, loading, alert, activeIndex, tasks>>

SearchNext ==
    \/ \E q \in Queries : Type(q)
    \/ TypeShort \/ Arrow \/ Hover \/ Leave
    \/ \E t \in tasks : Send(t) \/ ReadRows(t) \/ ReadAccess(t) \/ Receive(t) \/ Fail(t)
    \/ Turn

SearchSpec == SearchInit /\ [][SearchNext]_searchVars

-----------------------------------------------------------------------------

SearchTypeOK ==
    /\ query \in Queries \cup {None} /\ alert \in Queries \cup {None}
    /\ found \in
          [of : Queries \cup {None}, names : SUBSET Findable, scores : SUBSET Findable]
    /\ loading \in BOOLEAN /\ activeIndex \in Int
    /\ tasks \subseteq [of : Queries, at : {"timer", "sent", "rows", "answered"},
                       rows : SUBSET Findable, scores : SUBSET Findable]
    /\ access \in [Findable -> {"hidden", "named", "scored"}] /\ turns \in 0..MaxTurns
    /\ witnessed \in [listed : SUBSET Findable, scored : SUBSET Findable]

\* A panel that says it is searching is waiting for the search of its text, and one
\* that does not has searched for it: it says that this failed, or shows what it found,
\* nothing of which was hidden all the while.  Enter finds the option it goes to.
\* The text changes, is left and is typed again while answers are on their way
\* (GlobalSearch.tsx, api/search/route.ts).
SearchIsSettled ==
    /\ showPanel /\ loading => \E t \in tasks : t.of = query
    /\ showPanel /\ ~loading =>
          /\ alert \in {None, query}
          /\ alert = None =>
                /\ found.of = query
                /\ found.names \subseteq witnessed.listed
                /\ found.scores \subseteq witnessed.scored
    /\ found.names # {} => activeIndex < Cardinality(found.names)

-----------------------------------------------------------------------------
(***************************************************************************)
(* The page of Ask CentrePass (ExploreClient): a question is asked from    *)
(* the box, an example, a clarification or a retry; asking aborts the      *)
(* request before it; an answer is set in a transition, which React        *)
(* renders after the page has stopped saying that it waits.                *)
(*                                                                         *)
(* A question is its normalised text, or None when that has less than two  *)
(* characters.                                                             *)
(***************************************************************************)

Answers == [of : Questions, status : {"READY", "NEEDS_CLARIFICATION", "UNSUPPORTED"}]
Errors == {"short", "failed"}

AskAssumption == None \notin Questions \cup Answers \cup Errors

VARIABLES
    question,       \* the text of the box
    address,        \* the question in the address of the page
    requesting,
    requestError,
    response,       \* the answer that is rendered
    coming,         \* the one whose transition is pending
    flights         \* the requests that have not been aborted

askVars == <<question, address, requesting, requestError, response, coming, flights>>

-----------------------------------------------------------------------------

\* The page is opened without a question or with one, which its first effect asks.
AskInit ==
    /\ question \in Questions \cup {None} /\ address = question
    /\ response = None /\ coming = None
    /\ IF question = None
       THEN requesting = FALSE /\ flights = {} /\ requestError \in {None, "short"}
       ELSE requesting = TRUE /\ flights = {question} /\ requestError = None

-----------------------------------------------------------------------------

\* abortRef: what is left of the requests when another is made.
Abort(earlier) == {}

\* runQuestion, until it waits.  A short text is turned back before anything else.
Run(q) ==
    IF q = None
    THEN requestError' = "short"
         /\ UNCHANGED <<question, address, requesting, response, coming, flights>>
    ELSE /\ flights' = Abort(flights) \cup {q}
         /\ question' = q /\ address' = q
         /\ requesting' = TRUE /\ requestError' = None
         /\ UNCHANGED <<response, coming>>

Edit(q) ==
    /\ question' = q
    /\ UNCHANGED <<address, requesting, requestError, response, coming, flights>>

\* The button waits for an answer; the keyboard does not.
Submit == Run(question)

ChooseExample(q) == ~requesting /\ Run(q)

Retry == ~requesting /\ requestError = "failed" /\ Run(question)

\* An option of a clarification makes a longer question of the text in the box.
Clarify(q) ==
    ~requesting /\ response # None /\ response.status = "NEEDS_CLARIFICATION" /\ Run(q)

\* Any status that the API answers with is an answer.
Answered(q) ==
    /\ q \in flights
    /\ \E a \in Answers : a.of = q /\ coming' = a
    /\ requesting' = FALSE /\ flights' = flights \ {q}
    /\ UNCHANGED <<question, address, requestError, response>>

\* A mutation: a failure that leaves the answer before it to come.
StillPending(a) == a

\* What the transition still has to set after a failure has set nothing: an update
\* made later is applied last, so that nothing comes.
Pending(a) == None

Failed(q) ==
    /\ q \in flights
    /\ response' = None /\ coming' = Pending(coming)
    /\ requestError' = "failed" /\ requesting' = FALSE
    /\ flights' = flights \ {q}
    /\ UNCHANGED <<question, address>>

\* The transition is rendered.
Commit ==
    /\ coming # None
    /\ response' = coming /\ coming' = None
    /\ UNCHANGED <<question, address, requesting, requestError, flights>>

AskNext ==
    \/ \E q \in Questions \cup {None} : Edit(q)
    \/ Submit \/ Retry \/ Commit
    \/ \E q \in Questions :
          ChooseExample(q) \/ Clarify(q) \/ Answered(q) \/ Failed(q)

AskSpec == AskInit /\ [][AskNext]_askVars

-----------------------------------------------------------------------------

AskTypeOK ==
    /\ question \in Questions \cup {None} /\ address \in Questions \cup {None}
    /\ requesting \in BOOLEAN /\ requestError \in Errors \cup {None}
    /\ response \in Answers \cup {None} /\ coming \in Answers \cup {None}
    /\ flights \subseteq Questions

\* The answer on the page is that of its address, which is what "Copy link" shares,
\* unless a newer one is about to take its place; the page waits for that question
\* alone, and one that says that a question failed shows no answer
\* (ExploreClient.tsx; questions are edited, run again and fail meanwhile).
AnswerIsOfTheAddress ==
    /\ requesting <=> flights # {}
    /\ flights \subseteq {address}
    /\ ~requesting => coming = None \/ coming.of = address
    /\ ~requesting /\ coming = None => response = None \/ response.of = address
    /\ requestError = "failed" => ~requesting /\ response = None /\ coming = None

-----------------------------------------------------------------------------
(***************************************************************************)
(* What a reader has saved, on the settings page and on the page of a      *)
(* match (SettingsPage, MatchActions): a page shows a change at once, asks *)
(* the server for it (api/user/...), and takes it back when that fails.    *)
(* What can be saved is public, and stays so.                              *)
(***************************************************************************)

Savable == Teams \cup Favorites \cup Reminders

\* A request: what was shown before it, and where it is.
CallStates ==
    [item : Savable, verb : {"POST", "DELETE"}, was : SUBSET Savable,
     at : {"sent", "ok", "refused", "left"}]

SavedAssumption ==
    /\ Teams \cap (Favorites \cup Reminders) = {}
    /\ Favorites \cap Reminders = {}
    /\ None \notin Savable \cup CallStates

VARIABLES
    place,          \* the page that is open
    rows,           \* what the server has saved
    shown,          \* what the page shows as saved
    load,           \* what the page's first requests wait for
    copy,           \* what they have read
    known,          \* the items of which they have told the page
    pending,        \* the button that waits
    calls,          \* the requests under way
    strained        \* history: items whose requests met another or were lost

savedVars == <<place, rows, shown, load, copy, known, pending, calls, strained>>

-----------------------------------------------------------------------------

\* The settings have every item; a match has a button for a favourite and, while it is
\* scheduled, one for a reminder.
Settings == [page |-> "settings", items |-> Savable]
MatchPages ==
    {[page |-> "match", items |-> {f} \cup r] :
        f \in Favorites, r \in {{}} \cup {{m} : m \in Reminders}}
Places == {Settings} \cup MatchPages

OnSettings == place.page = "settings"
IsListed(i) == OnSettings /\ i \notin Teams

\* The items that the page keeps in one state with i: a list of the settings.
Peers(i) == IF ~IsListed(i) THEN {i} ELSE IF i \in Favorites THEN Favorites ELSE Reminders

\* A mutation: the teams as they were, too.
ClosureOfTeams(i) == IF OnSettings /\ i \in Teams THEN Teams ELSE Peers(i)

\* What is set again when a request for i fails: a team alone (the updates are functions
\* of the current teams), a button alone, but a list as a whole.
Closure(i) == Peers(i)

\* A request of a page that has been left is nobody's.
Left(c) == calls[c].at = "left"
Busy(i) == \E c \in Calls : calls[c] # None /\ calls[c].item = i /\ ~Left(c)

Applied(call) ==
    IF call.verb = "POST" THEN rows \cup {call.item} ELSE rows \ {call.item}

SavedInit ==
    /\ place \in Places /\ rows \in SUBSET Savable
    /\ shown = {} /\ load = "asked" /\ copy = {} /\ known = {} /\ pending = None
    /\ calls = [c \in Calls |-> None] /\ strained = {}

-----------------------------------------------------------------------------
(* The page                                                                *)

\* Another page is opened: what its requests find is not what those before it leave.
Open(p) ==
    /\ place' = p
    /\ shown' = {} /\ load' = "asked" /\ copy' = {} /\ known' = {} /\ pending' = None
    /\ calls' = [c \in Calls |->
          IF calls[c] # None /\ calls[c].at \in {"sent", "left"}
          THEN [calls[c] EXCEPT !.at = "left"] ELSE None]
    /\ strained' = {i \in Savable : \E c \in Calls : calls'[c] # None /\ calls'[c].item = i}
    /\ UNCHANGED rows

\* The requests of a page do not wait for each other, but what one has read does not
\* depend on what another has.
Read ==
    /\ load = "asked"
    /\ load' = "read" /\ copy' = rows \cap place.items
    /\ UNCHANGED <<place, rows, shown, known, pending, calls, strained>>

\* The settings need every answer; a match takes those that are given.
Arrive(got) ==
    /\ load = "read"
    /\ got \subseteq place.items /\ (OnSettings => got = place.items)
    /\ load' = "done" /\ known' = got /\ copy' = {}
    /\ shown' = (shown \ got) \cup (copy \cap got)
    /\ UNCHANGED <<place, rows, pending, calls, strained>>

LoadFails ==
    /\ load # "done"
    /\ load' = "done" /\ copy' = {}
    /\ UNCHANGED <<place, rows, shown, known, pending, calls, strained>>

\* Which items a request for i strains: it meets another for i, or in its list, or the
\* page has not been told what is saved.
Strained(i) ==
    LET met == {j \in Peers(i) : Busy(j)} IN
    IF met # {} \/ load # "done" THEN met \cup {i} ELSE {}

Start(i) ==
    LET verb == IF i \in shown THEN "DELETE" ELSE "POST" IN
    /\ \E c \in Calls :
          /\ calls[c] = None
          /\ calls' = [calls EXCEPT ![c] =
                [item |-> i, verb |-> verb, was |-> shown \cap Closure(i), at |-> "sent"]]
    /\ shown' = IF verb = "POST" THEN shown \cup {i} ELSE shown \ {i}
    /\ strained' = strained \cup Strained(i)
    /\ UNCHANGED <<place, rows, load, copy, known>>

\* toggleTeam, and toggle of a match: the button waits, until any other is pressed or
\* answered.
Toggle(i) ==
    /\ ~IsListed(i) /\ pending # i
    /\ OnSettings => i \in known
    /\ Start(i)
    /\ pending' = i

\* removeMatchResource.
Remove(i) ==
    /\ IsListed(i) /\ i \in known \cap shown
    /\ Start(i)
    /\ UNCHANGED pending

\* What the page shows when a request has failed: of what it keeps with the item, what
\* it showed before.
Restored(call) == (shown \ Closure(call.item)) \cup call.was

\* The page ends a call.
End(c) ==
    /\ calls' = [calls EXCEPT ![c] = None]
    /\ pending' = IF IsListed(calls[c].item) THEN pending ELSE None
    /\ UNCHANGED <<place, load, copy, known>>

Succeed(c) ==
    /\ calls[c] # None /\ calls[c].at = "ok"
    /\ End(c)
    /\ UNCHANGED <<rows, shown, strained>>

Undo(c) ==
    /\ calls[c] # None /\ calls[c].at = "refused"
    /\ shown' = Restored(calls[c])
    /\ End(c)
    /\ UNCHANGED <<rows, strained>>

\* A request is lost, before the server has seen it or after, or its answer is, or the
\* server fails when it has saved.
Lose(c) ==
    /\ calls[c] # None /\ calls[c].at \in {"sent", "ok"}
    /\ rows' \in {rows, Applied(calls[c])}
    /\ shown' = Restored(calls[c])
    /\ strained' = strained \cup {calls[c].item}
    /\ End(c)

-----------------------------------------------------------------------------
(* The server                                                              *)

\* It saves and forgets what is so already, and may refuse a request (its limits, the
\* session, a row that is gone).
Serve(c) ==
    /\ calls[c] # None /\ calls[c].at = "sent"
    /\ \/ rows' = Applied(calls[c]) /\ calls' = [calls EXCEPT ![c].at = "ok"]
       \/ rows' = rows /\ calls' = [calls EXCEPT ![c].at = "refused"]
    /\ UNCHANGED <<place, shown, load, copy, known, pending, strained>>

ServeLeft(c) ==
    /\ calls[c] # None /\ Left(c)
    /\ rows' \in {rows, Applied(calls[c])}
    /\ calls' = [calls EXCEPT ![c] = None]
    /\ UNCHANGED <<place, shown, load, copy, known, pending, strained>>

SavedNext ==
    \/ \E p \in Places : Open(p)
    \/ Read \/ LoadFails \/ \E got \in SUBSET place.items : Arrive(got)
    \/ \E i \in place.items : Toggle(i) \/ Remove(i)
    \/ \E c \in Calls : Serve(c) \/ ServeLeft(c) \/ Succeed(c) \/ Undo(c) \/ Lose(c)

SavedSpec == SavedInit /\ [][SavedNext]_savedVars

-----------------------------------------------------------------------------

SavedTypeOK ==
    /\ place \in Places /\ rows \subseteq Savable /\ shown \subseteq Savable
    /\ load \in {"asked", "read", "done"} /\ copy \subseteq Savable
    /\ known \subseteq Savable
    /\ pending \in Savable \cup {None} /\ strained \subseteq Savable
    /\ calls \in [Calls -> CallStates \cup {None}]

\* Of an item whose requests have met no other and were not lost, the page shows what
\* is saved as soon as they have ended, however they ended and whatever is asked of
\* other items meanwhile (settings/page.tsx, MatchActions.tsx).
ShownIsSaved ==
    \A i \in known \ strained : ~Busy(i) => (i \in shown <=> i \in rows)

=============================================================================
