----------------------------- MODULE ResultsFeed -----------------------------
(***************************************************************************)
(* The archive of completed results, read page by page                     *)
(* (src/lib/home-feed.ts, GET /api/matches and components/home/            *)
(* HomeResults.tsx).  A page is made of three reads: which matches are     *)
(* listed, cached for up to 15 minutes, then their rows, then their public *)
(* access.  Results go on changing between the reads and between the       *)
(* pages.                                                                  *)
(*                                                                         *)
(* Matches are numbered in the order of the archive, the latest highest    *)
(* (scheduledAt, then id), and keep their place; a cursor is the number of *)
(* a match, and a list or a page is a set, whose order is that of the      *)
(* archive.  A result is what the three reads tell apart: "open" is not    *)
(* completed (or has no final quality, no teams or an unpublished stage),  *)
(* "withheld" is listed but denied its score by the coverage, "final" may  *)
(* be shown.  Of a result's score we keep which of two it is, and of its   *)
(* sourceUpdatedAt, its revision here, how often it moved.  An observation *)
(* moves it (processing.ts, worker.ts), a completion known from the        *)
(* fixture alone and a change of coverage or stage do not, and an import   *)
(* may bring another score under the date of the row it replaces           *)
(* (results-import.ts:824-833 refuses older dates only).                   *)
(***************************************************************************)
EXTENDS Naturals, FiniteSets, Sequences

CONSTANTS
    Matches,      \* 1..n, in the order of the archive
    PageSize,     \* HOME_RESULTS_PAGE_SIZE
    ScanLimit,    \* COMPLETED_RESULTS_SCAN_LIMIT
    MaxChanges    \* bound on the matches written to, and on their revisions

ResultsFeedAssumption ==
    /\ Cardinality(Matches) \in Nat /\ Matches = 1..Cardinality(Matches)
    /\ PageSize \in Nat \ {0}
    /\ ScanLimit \in Nat
    /\ ScanLimit > PageSize
    /\ MaxChanges \in Nat

VARIABLES
    result,    \* what the database has of each match
    cached,    \* the cached list of each cursor, if any
    walk,      \* the client: its request and the cursor of the next page
    pages,     \* the pages served so far, each with its cards
    touched,   \* history: the matches written since the beginning
    rewritten, \* history: the matches with a new score since their card was served
    restated   \* history: those whose score an import replaced under its date
               \*          since the rows of the page were read

vars == <<result, cached, walk, pages, touched, rewritten, restated>>

States == {"open", "final", "withheld"}

\* An earlier score and a later one.
Scores == {0, 1}

Results == [state : States, score : Scores, revision : 0..MaxChanges]

\* The first page is asked for without a cursor; no cursor is left at the end.
Start == Cardinality(Matches) + 1
End == 0
Cursors == Matches \cup {Start, End}

\* No list of matches.
NotCached == {End}

Idle(cursor) == [pc |-> "idle", cursor |-> cursor, listed |-> {}, rows |-> <<>>]

InitWith(initial) ==
    /\ result = initial
    /\ cached = [c \in Cursors |-> NotCached]
    /\ walk = Idle(Start)
    /\ pages = <<>>
    /\ touched = {} /\ rewritten = {} /\ restated = {}

InitialResults == [Matches -> [state : States, score : {0}, revision : {0}]]

Init == \E initial \in InitialResults : InitWith(initial)

-----------------------------------------------------------------------------
(* What changes meanwhile                                                  *)

Revision(m) == result[m].revision

\* One more match may be written to.
Touch(m) ==
    /\ Cardinality(touched \cup {m}) <= MaxChanges
    /\ touched' = touched \cup {m}

\* A mutation: the observation does not date the row.
ObserveUndated(m, state, score) ==
    /\ Touch(m)
    /\ result' = [result EXCEPT ![m].state = state, ![m].score = score]
    /\ rewritten' = rewritten \cup {m}
    /\ UNCHANGED <<cached, walk, pages, restated>>

\* The match is observed anew: it ends, is corrected or reopened.
Observe(m, state, score) ==
    /\ Touch(m)
    /\ Revision(m) < MaxChanges
    /\ result' = [result EXCEPT ![m] =
                    [state |-> state, score |-> score, revision |-> @.revision + 1]]
    /\ rewritten' = rewritten \cup {m}
    /\ UNCHANGED <<cached, walk, pages, restated>>

\* It is completed by its fixture, before the final detail is read
\* (reconcileCompletedMatches), or its coverage or stage changes.
Relabel(m, state) ==
    /\ Touch(m)
    /\ result[m].state # state
    /\ result' = [result EXCEPT ![m].state = state]
    /\ UNCHANGED <<cached, walk, pages, rewritten, restated>>

\* An import replaces the score under the date it has.
Restate(m, state, score) ==
    /\ Touch(m)
    /\ result[m].score # score
    /\ result' = [result EXCEPT ![m].state = state, ![m].score = score]
    /\ rewritten' = rewritten \cup {m}
    /\ restated' = restated \cup {m}
    /\ UNCHANGED <<cached, walk, pages>>

\* An entry is served until it is replaced, at least for the 900 s it is valid.
Expire(c) ==
    /\ cached[c] # NotCached
    /\ cached' = [cached EXCEPT ![c] = NotCached]
    /\ UNCHANGED <<result, walk, pages, touched, rewritten, restated>>

-----------------------------------------------------------------------------
(* A page                                                                  *)

BeforeCursor(c) == {m \in Matches : m < c}

\* The first n of a list, and its last.
Latest(n, S) == {m \in S : Cardinality({k \in S : k > m}) < n}
Earliest(S) == CHOOSE m \in S : \A k \in S : m <= k

\* One more than may be scanned, to know whether there are any left.
Candidates(c) ==
    Latest(ScanLimit + 1, {m \in BeforeCursor(c) : result[m].state # "open"})

\* The edition is resolved first; while it is not public the answer is 404 and the
\* client asks again, which changes nothing here.
Ask ==
    /\ walk.pc = "idle"
    /\ walk.cursor # End
    /\ walk' = [walk EXCEPT !.pc = "list"]
    /\ UNCHANGED <<result, cached, pages, touched, rewritten, restated>>

List ==
    /\ walk.pc = "list"
    /\ LET hit == cached[walk.cursor]
           listed == IF hit = NotCached THEN Candidates(walk.cursor) ELSE hit
       IN /\ walk' = [walk EXCEPT !.pc = "rows", !.listed = listed]
          /\ cached' = [cached EXCEPT ![walk.cursor] = listed]
    /\ UNCHANGED <<result, pages, touched, rewritten, restated>>

Scanned == Latest(ScanLimit, walk.listed)
ReachedEnd == Cardinality(walk.listed) <= ScanLimit

Hydrate ==
    /\ walk.pc = "rows"
    /\ walk' = [walk EXCEPT !.pc = "access",
                            !.rows = [m \in Scanned |-> result[m]]]
    /\ restated' = {}
    /\ UNCHANGED <<result, cached, pages, touched, rewritten>>

\* A mutation: the row may be of another revision than the access.
AnyRevision(m) == TRUE

SameRevision(m) == walk.rows[m].revision = Revision(m)

Eligible(m) == SameRevision(m) /\ result[m].state = "final"

EligibleMatches == {m \in Scanned : Eligible(m)}

Page == Latest(PageSize, EligibleMatches)

\* A mutation: a page that is not full ends the walk.
FullPagesOnly ==
    IF Cardinality(EligibleMatches) > PageSize THEN Earliest(Page) ELSE End

NextCursor ==
    IF Cardinality(EligibleMatches) > PageSize THEN Earliest(Page)
    ELSE IF ~ReachedEnd THEN Earliest(Scanned)
    ELSE End

\* What the row said.
CardOf(m) == [match |-> m, score |-> walk.rows[m].score]

\* The access is read and the page is answered.
Answer ==
    /\ walk.pc = "access"
    /\ pages' = Append(pages, {CardOf(m) : m \in Page})
    /\ walk' = Idle(NextCursor)
    /\ rewritten' = (rewritten \ Page) \cup restated
    /\ UNCHANGED <<result, cached, touched, restated>>

\* A read fails: 503, and the button asks for the same page again.
Fail ==
    /\ walk.pc # "idle"
    /\ walk' = Idle(walk.cursor)
    /\ UNCHANGED <<result, cached, pages, touched, rewritten, restated>>

Surroundings ==
    \/ \E m \in Matches, state \in States :
         \/ Relabel(m, state)
         \/ \E score \in Scores : Observe(m, state, score) \/ Restate(m, state, score)
    \/ \E c \in Cursors : Expire(c)

Next == Ask \/ List \/ Hydrate \/ Answer \/ Fail \/ Surroundings

Spec == Init /\ [][Next]_vars

-----------------------------------------------------------------------------
(* Properties                                                              *)

\* The state is of the declared shape (the cursors and the cached lists).
TypeOK ==
    /\ result \in [Matches -> Results]
    /\ cached \in [Cursors -> (SUBSET Matches) \cup {NotCached}]
    /\ walk.cursor \in Cursors /\ walk.listed \subseteq Matches
    /\ \A i \in DOMAIN pages : \A card \in pages[i] : card.match \in Matches
    /\ touched \subseteq Matches /\ rewritten \subseteq touched /\ restated \subseteq touched

Shown == {card.match : card \in UNION {pages[i] : i \in DOMAIN pages}}

\* Whatever the ages of the lists and however many matches a scan drops, no
\* match is served on two pages, and once the pages are through, every result
\* that was public and unchanged all along was served (loadCompletedMatchesPage).
ArchiveIsWalkedOnce ==
    /\ \A i, j \in DOMAIN pages : \A a \in pages[i], b \in pages[j] :
         a.match = b.match => i = j /\ a = b
    /\ \A m \in Matches \ touched :
         result[m].state = "final" /\ walk.cursor <= m => m \in Shown

\* Every card the client holds shows the score its match has, unless the match
\* was observed since the card was served, although the score is of one read and
\* the decision to show it of another (sameRevision in home-feed.ts:384-394).  A
\* score that an import replaced under the same date between the two reads is not
\* noticed, and is left out.
CardsAreCurrent ==
    \A i \in DOMAIN pages : \A card \in pages[i] :
        card.match \notin rewritten => card.score = result[card.match].score

=============================================================================
