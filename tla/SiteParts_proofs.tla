--------------------------- MODULE SiteParts_proofs ---------------------------
(***************************************************************************)
(* Theorems about the parts of SiteParts, one section or more for each:    *)
(* the archive of results and the list of events, which are read in pages  *)
(* while they change; the simulation, whose requests overlap, and the play *)
(* of a simulated match; what the site says of the matches that are on;    *)
(* the identities of an import; the navigation monitor and the timing      *)
(* summary.  Each theorem states a property of the composition, for all    *)
(* values of the constants, from an invariant of its part that the part's  *)
(* own steps keep; those of the others do not touch its variables.         *)
(***************************************************************************)
EXTENDS SiteParts, Integers, FiniteSets, Sequences, FiniteSetTheorems,
        WellFoundedInduction, TLAPS

-----------------------------------------------------------------------------
(* The composition                                                         *)

\* A step after which a part is at work is one of that part.
LEMMA PartAtWork ==
  ASSUME [SiteNext]_siteVars
  PROVE  /\ part' = part
         /\ part = "feed" => [Feed!Next]_(Feed!vars)
         /\ part = "timeline" => [Reader!Next]_(Reader!vars)
         /\ part = "control" => [Control!Next]_(Control!simVars)
         /\ part = "play" => [Play!Next]_(Play!playVars)
         /\ part = "day" => [Day!Next]_(Day!dayVars)
         /\ part = "live" => [Live!Next]_(Live!vars)
         /\ part = "monitor" => [Monitor!Next]_(Monitor!monitorVars)
         /\ part = "timing" => [Timing!Next]_(Timing!timingVars)
         /\ part = "import" => [Ident!Next]_(Ident!vars)
<1>1. CASE SiteNext
  BY <1>1 DEF SiteNext
<1>2. CASE UNCHANGED siteVars
  <2>1. /\ part' = part
        /\ UNCHANGED feedVars /\ UNCHANGED readerVars /\ UNCHANGED controlVars
        /\ UNCHANGED playVars /\ UNCHANGED dayVars /\ UNCHANGED liveVars
        /\ UNCHANGED monitorVars /\ UNCHANGED timingVars /\ UNCHANGED identVars
    BY <1>2 DEF siteVars, siteCells
  <2>2. UNCHANGED Feed!vars /\ UNCHANGED Reader!vars /\ UNCHANGED Control!simVars
    BY <2>1 DEF feedVars, readerVars, controlVars, Feed!vars, Reader!vars, Control!simVars
  <2>3. UNCHANGED Play!playVars /\ UNCHANGED Day!dayVars /\ UNCHANGED Live!vars
    BY <2>1 DEF playVars, dayVars, liveVars, Play!playVars, Day!dayVars, Live!vars
  <2>4. UNCHANGED Monitor!monitorVars /\ UNCHANGED Timing!timingVars /\ UNCHANGED Ident!vars
    BY <2>1 DEF monitorVars, timingVars, identVars, Monitor!monitorVars, Timing!timingVars,
       Ident!vars, Ident!content
  <2> QED BY <2>1, <2>2, <2>3, <2>4
<1> QED BY <1>1, <1>2

-----------------------------------------------------------------------------
(* Numbers and finite sets                                                 *)

LEMMA LeastNumber ==
  ASSUME NEW S \in SUBSET Nat, S # {}
  PROVE  \E m \in S : \A k \in S : m <= k
<1>1. IsWellFoundedOn(OpToRel(<, Nat), Nat)
  BY NatLessThanWellFounded, Zenon
<1>2. PICK m \in S : \A k \in S : ~ (<<k, m>> \in OpToRel(<, Nat))
  BY <1>1, WFMin, Zenon
<1>3. ASSUME NEW k \in S PROVE m <= k
  <2>1. k \in Nat /\ m \in Nat
    OBVIOUS
  <2>2. ~(k < m)
    BY <1>2, <2>1 DEF OpToRel
  <2> QED BY <2>1, <2>2
<1> QED BY <1>3

\* A bounded set has a greatest number.
LEMMA GreatestNumber ==
  ASSUME NEW S \in SUBSET Nat, S # {}, NEW n \in Nat, \A m \in S : m <= n
  PROVE  \E m \in S : \A k \in S : k <= m
<1> DEFINE D == {d \in Nat : n - d \in S}
<1>1. PICK k \in S : TRUE
  OBVIOUS
<1>2. n - k \in Nat /\ n - (n - k) = k
  BY <1>1
<1>3. D \in SUBSET Nat /\ D # {}
  BY <1>2
<1>4. PICK d \in D : \A e \in D : d <= e
  BY <1>3, LeastNumber
<1>5. ASSUME NEW j \in S PROVE j <= n - d
  <2>1. n - j \in Nat /\ n - (n - j) = j
    OBVIOUS
  <2>2. d <= n - j /\ d \in Nat
    BY <1>4, <2>1
  <2> QED BY <2>2
<1> QED BY <1>4, <1>5

\* A part of a finite set is finite and no larger.
LEMMA PartOf ==
  ASSUME NEW S, IsFiniteSet(S), NEW T \in SUBSET S
  PROVE  /\ IsFiniteSet(T) /\ Cardinality(T) \in Nat /\ Cardinality(S) \in Nat
         /\ Cardinality(T) <= Cardinality(S)
BY FS_Subset, FS_CardinalityType

\* One more than a part of a set is no larger than the set.
LEMMA OneMore ==
  ASSUME NEW S, IsFiniteSet(S), NEW T \in SUBSET S, NEW x \in S \ T
  PROVE  Cardinality(T) + 1 <= Cardinality(S)
<1>1. IsFiniteSet(T) /\ Cardinality(T) \in Nat
  BY PartOf
<1>2. Cardinality(T \cup {x}) = Cardinality(T) + 1
  BY <1>1, FS_AddElement
<1>3. T \cup {x} \in SUBSET S
  OBVIOUS
<1> QED BY <1>2, <1>3, PartOf

-----------------------------------------------------------------------------
(* The archive of results: the first of a list                             *)

LEMMA Archive ==
  ASSUME Feed!ResultsFeedAssumption
  PROVE  /\ Cardinality(Matches) \in Nat /\ IsFiniteSet(Matches)
         /\ Matches = 1..Cardinality(Matches)
         /\ PageSize \in Nat \ {0} /\ ScanLimit \in Nat \ {0}
BY FS_Interval DEF Feed!ResultsFeedAssumption

LEMMA SameCount ==
  \A S : Feed!Cardinality(S) = Cardinality(S) /\ Reader!Cardinality(S) = Cardinality(S)
BY Zenon DEF Feed!Cardinality, Reader!Cardinality, Cardinality

LEMMA LatestCounts ==
  ASSUME NEW S, NEW n
  PROVE  Feed!Latest(n, S) = {m \in S : Cardinality({k \in S : k > m}) < n}
BY SameCount DEF Feed!Latest

LEMMA LatestIsPart ==
  ASSUME NEW S, NEW n
  PROVE  Feed!Latest(n, S) \subseteq S
BY DEF Feed!Latest

\* How many of a list come after one of it.
LEMMA AfterIt ==
  ASSUME Feed!ResultsFeedAssumption, NEW S \in SUBSET Matches, NEW m \in S
  PROVE  /\ {k \in S : k > m} \in SUBSET S /\ IsFiniteSet({k \in S : k > m})
         /\ Cardinality({k \in S : k > m}) \in Nat
         /\ Cardinality({k \in S : k > m}) + 1 <= Cardinality(S)
         /\ IsFiniteSet(S) /\ Cardinality(S) \in Nat
<1>1. IsFiniteSet(S) /\ Cardinality(S) \in Nat
  BY Archive, PartOf
<1>2. {k \in S : k > m} \in SUBSET S /\ m \in S \ {k \in S : k > m}
  BY Archive
<1>3. IsFiniteSet({k \in S : k > m}) /\ Cardinality({k \in S : k > m}) \in Nat
  BY <1>1, <1>2, PartOf
<1>4. Cardinality({k \in S : k > m}) + 1 <= Cardinality(S)
  BY <1>1, <1>2, OneMore
<1> QED BY <1>1, <1>2, <1>3, <1>4

\* What is left out is before all that is kept, and then the list is longer.
LEMMA LeftOut ==
  ASSUME Feed!ResultsFeedAssumption, NEW S \in SUBSET Matches, NEW n \in Nat,
         NEW m \in S \ Feed!Latest(n, S)
  PROVE  /\ \A k \in Feed!Latest(n, S) : k > m
         /\ Cardinality(S) > n
<1>1. Cardinality({j \in S : j > m}) >= n
  <2>1. m \in S /\ ~(Cardinality({j \in S : j > m}) < n)
    BY LatestCounts
  <2>2. Cardinality({j \in S : j > m}) \in Nat
    BY <2>1, AfterIt
  <2> QED BY <2>1, <2>2
<1>2. ASSUME NEW k \in Feed!Latest(n, S), ~(k > m) PROVE FALSE
  <2>1. k \in S /\ Cardinality({j \in S : j > k}) < n
    BY <1>2, LatestCounts
  <2>2. {j \in S : j > m} \in SUBSET {j \in S : j > k}
    BY <1>2, <2>1, Archive
  <2>3. IsFiniteSet({j \in S : j > k}) /\ Cardinality({j \in S : j > k}) \in Nat
    BY <2>1, AfterIt
  <2>4. Cardinality({j \in S : j > m}) <= Cardinality({j \in S : j > k})
    BY <2>2, <2>3, PartOf
  <2>5. Cardinality({j \in S : j > m}) \in Nat
    BY AfterIt
  <2> QED BY <1>1, <2>1, <2>3, <2>4, <2>5
<1>3. /\ Cardinality({j \in S : j > m}) + 1 <= Cardinality(S)
      /\ Cardinality({j \in S : j > m}) \in Nat /\ Cardinality(S) \in Nat
  BY AfterIt
<1>4. Cardinality(S) > n
  BY <1>1, <1>3
<1> QED BY <1>2, <1>4

\* What is after one that is kept is kept.
LEMMA KeptUpwards ==
  ASSUME Feed!ResultsFeedAssumption, NEW S \in SUBSET Matches, NEW n \in Nat,
         NEW k \in Feed!Latest(n, S), NEW m \in S, m >= k
  PROVE  m \in Feed!Latest(n, S)
<1>1. k \in Nat /\ m \in Nat
  BY LatestIsPart, Archive
<1> QED BY <1>1, LeftOut

\* Of a list that is not empty something is kept.
LEMMA SomeKept ==
  ASSUME Feed!ResultsFeedAssumption, NEW S \in SUBSET Matches, NEW n \in Nat \ {0}, S # {}
  PROVE  Feed!Latest(n, S) # {}
<1>1. S \in SUBSET Nat /\ \A k \in S : k <= Cardinality(Matches)
  BY Archive
<1>2. PICK m \in S : \A k \in S : k <= m
  BY <1>1, Archive, GreatestNumber
<1>3. {k \in S : k > m} = {}
  <2>1. m \in Nat /\ \A k \in S : k \in Nat /\ k <= m
    BY <1>1, <1>2
  <2>2. \A k \in S : ~(k > m)
    BY <2>1
  <2> QED BY <2>2
<1>4. Cardinality({k \in S : k > m}) = 0
  BY <1>3, FS_EmptySet
<1> QED BY <1>4, LatestCounts

\* A list that is cut has as many as may be.
LEMMA AsManyAsMayBe ==
  ASSUME Feed!ResultsFeedAssumption, NEW S \in SUBSET Matches, NEW n \in Nat,
         S \ Feed!Latest(n, S) # {}
  PROVE  Cardinality(Feed!Latest(n, S)) >= n
<1>1. /\ S \ Feed!Latest(n, S) \in SUBSET Nat
      /\ \A k \in S \ Feed!Latest(n, S) : k <= Cardinality(Matches)
  BY Archive
<1>2. PICK m \in S \ Feed!Latest(n, S) : \A k \in S \ Feed!Latest(n, S) : k <= m
  BY <1>1, Archive, GreatestNumber
<1>3. {k \in S : k > m} \in SUBSET Feed!Latest(n, S)
  BY <1>1, <1>2
<1>4. IsFiniteSet(Feed!Latest(n, S)) /\ Cardinality(Feed!Latest(n, S)) \in Nat
  BY Archive, LatestIsPart, PartOf
<1>5. Cardinality({k \in S : k > m}) <= Cardinality(Feed!Latest(n, S))
  BY <1>3, <1>4, PartOf
<1>6. Cardinality({k \in S : k > m}) >= n /\ Cardinality({k \in S : k > m}) \in Nat
  <2>1. m \in S /\ ~(Cardinality({k \in S : k > m}) < n)
    BY LatestCounts
  <2>2. Cardinality({k \in S : k > m}) \in Nat
    BY <2>1, AfterIt
  <2> QED BY <2>1, <2>2
<1> QED BY <1>4, <1>5, <1>6

\* The earliest of a list is one of it.
LEMMA EarliestIsLeast ==
  ASSUME Feed!ResultsFeedAssumption, NEW S \in SUBSET Matches, S # {}
  PROVE  Feed!Earliest(S) \in S /\ \A k \in S : Feed!Earliest(S) <= k
<1>1. \E m \in S : \A k \in S : m <= k
  BY Archive, LeastNumber
<1> QED BY <1>1 DEF Feed!Earliest

-----------------------------------------------------------------------------
(* The archive of results: what is not overlooked                          *)

Stops == {"idle", "list", "rows", "access"}
Hydrated == (UNION {[T -> Feed!Results] : T \in SUBSET Matches}) \cup {<<>>}
Cards == [match : Matches, score : Feed!Scores]

FeedTyped ==
    /\ result \in [Matches -> Feed!Results]
    /\ cached \in [Feed!Cursors -> (SUBSET Matches) \cup {Feed!NotCached}]
    /\ walk \in [pc : Stops, cursor : Feed!Cursors, listed : SUBSET Matches, rows : Hydrated]
    /\ pages \in Seq(SUBSET Cards)
    /\ touched \in SUBSET Matches /\ rewritten \in SUBSET Matches /\ restated \in SUBSET Matches

\* The results that were public and unchanged all along.
Steady == {m \in Matches \ touched : result[m].state = "final"}

\* A list of those before c leaves out some only after as many as may be scanned.
Covers(S, c, lasting) ==
    /\ S \subseteq Feed!BeforeCursor(c)
    /\ \A m \in (lasting \cap Feed!BeforeCursor(c)) \ S :
         Cardinality(S) > ScanLimit /\ \A k \in S : k > m

ListsCover ==
    /\ \A c \in Feed!Cursors :
         cached[c] # Feed!NotCached => Covers(cached[c], c, Steady)
    /\ walk.pc \in {"rows", "access"} => Covers(walk.listed, walk.cursor, Steady)

\* What was read of a match is what it is, if it was not written.
RowsStand ==
    walk.pc = "access" =>
       /\ walk.rows \in [Feed!Scanned -> Feed!Results]
       /\ \A m \in Feed!Scanned \ touched : walk.rows[m] = result[m]

\* The pages are before the cursor, and what is before it and steady is on them.
WalkedSoFar ==
    /\ walk.pc # "idle" => walk.cursor # Feed!End
    /\ \A i \in DOMAIN pages : \A card \in pages[i] : walk.cursor <= card.match
    /\ \A i, j \in DOMAIN pages : \A a \in pages[i], b \in pages[j] :
         a.match = b.match => i = j /\ a = b
    /\ \A m \in Steady : walk.cursor <= m =>
         \E i \in DOMAIN pages : \E card \in pages[i] : card.match = m

FeedInv == FeedTyped /\ ListsCover /\ RowsStand /\ WalkedSoFar

\* Fewer results are steady, and a list covers them still.
LEMMA CoversFewer ==
  ASSUME NEW S, NEW c, NEW lasting, NEW fewer, fewer \subseteq lasting, Covers(S, c, lasting)
  PROVE  Covers(S, c, fewer)
BY DEF Covers

LEMMA CursorsAreNumbers ==
  ASSUME Feed!ResultsFeedAssumption
  PROVE  /\ Feed!Cursors = 0..(Cardinality(Matches) + 1)
         /\ \A c \in Feed!Cursors : c \in Nat
         /\ Feed!Start \in Feed!Cursors /\ Feed!End \in Feed!Cursors
         /\ Feed!Start = Cardinality(Matches) + 1 /\ Feed!End = 0
         /\ \A m \in Matches : m \in Nat /\ m < Feed!Start /\ m > 0
<1>1. Feed!Start = Cardinality(Matches) + 1 /\ Feed!End = 0
  BY SameCount DEF Feed!Start, Feed!End
<1>2. Feed!Cursors = 0..(Cardinality(Matches) + 1)
  BY <1>1, Archive DEF Feed!Cursors
<1> QED BY <1>1, <1>2, Archive DEF Feed!Cursors

LEMMA FeedInitial ==
  ASSUME Feed!ResultsFeedAssumption, Feed!Init
  PROVE  FeedInv
<1> USE DEF Feed!Init, Feed!InitWith, Feed!Idle
<1>1. FeedTyped
  <2>1. result \in [Matches -> Feed!Results]
    <3>1. MaxChanges \in Nat
      BY DEF Feed!ResultsFeedAssumption
    <3> QED BY <3>1 DEF Feed!InitialResults, Feed!Results, Feed!Scores
  <2>2. walk \in [pc : Stops, cursor : Feed!Cursors, listed : SUBSET Matches, rows : Hydrated]
    BY CursorsAreNumbers DEF Stops, Hydrated
  <2>3. cached \in [Feed!Cursors -> (SUBSET Matches) \cup {Feed!NotCached}]
    OBVIOUS
  <2>4. pages \in Seq(SUBSET Cards) /\ touched \in SUBSET Matches
        /\ rewritten \in SUBSET Matches /\ restated \in SUBSET Matches
    OBVIOUS
  <2> QED BY ONLY <2>1, <2>2, <2>3, <2>4 DEF FeedTyped
<1>2. ListsCover /\ RowsStand
  BY DEF ListsCover, RowsStand
<1>3. WalkedSoFar
  <2>1. \A m \in Steady : ~(walk.cursor <= m)
    BY CursorsAreNumbers DEF Steady
  <2> QED BY <2>1 DEF WalkedSoFar
<1> QED BY <1>1, <1>2, <1>3 DEF FeedInv

\* A write replaces the result of its match.
LEMMA ResultWritten ==
  ASSUME Feed!ResultsFeedAssumption, FeedTyped, NEW m \in Matches, NEW state \in Feed!States,
         NEW score \in Feed!Scores,
         Feed!Observe(m, state, score) \/ Feed!Relabel(m, state) \/ Feed!Restate(m, state, score)
  PROVE  \E r \in Feed!Results : result' = [result EXCEPT ![m] = r]
<1>1. /\ result[m] \in Feed!Results /\ MaxChanges \in Nat
      /\ result[m] = [state |-> result[m].state, score |-> result[m].score,
                      revision |-> result[m].revision]
  BY DEF FeedTyped, Feed!Results, Feed!ResultsFeedAssumption
<1>2. CASE Feed!Observe(m, state, score)
  <2>1. result[m].revision + 1 \in 0..MaxChanges
    BY <1>1, <1>2 DEF Feed!Observe, Feed!Revision, Feed!Results
  <2>2. [state |-> state, score |-> score, revision |-> result[m].revision + 1] \in Feed!Results
    BY <2>1 DEF Feed!Results
  <2> QED BY <1>2, <2>2 DEF Feed!Observe
<1>3. CASE Feed!Relabel(m, state)
  <2>1. [result[m] EXCEPT !.state = state] \in Feed!Results
    BY <1>1 DEF Feed!Results
  <2>2. result' = [result EXCEPT ![m] = [result[m] EXCEPT !.state = state]]
    BY <1>3 DEF Feed!Relabel
  <2> QED BY <2>1, <2>2
<1>4. CASE Feed!Restate(m, state, score)
  <2>1. [result[m] EXCEPT !.state = state, !.score = score] \in Feed!Results
    BY <1>1 DEF Feed!Results
  <2>2. result' = [result EXCEPT ![m] = [result[m] EXCEPT !.state = state, !.score = score]]
    <3>1. result' = [result EXCEPT ![m].state = state, ![m].score = score]
      BY <1>4 DEF Feed!Restate
    <3> QED BY <3>1 DEF FeedTyped
  <2> QED BY <2>1, <2>2
<1> QED BY <1>2, <1>3, <1>4

\* Outside: results are written and cached lists replaced.
LEMMA SurroundingsKept ==
  ASSUME Feed!ResultsFeedAssumption, FeedInv, Feed!Surroundings
  PROVE  FeedInv'
<1>1. ASSUME NEW m \in Matches, NEW state \in Feed!States, NEW score \in Feed!Scores,
             Feed!Observe(m, state, score) \/ Feed!Relabel(m, state) \/ Feed!Restate(m, state, score)
      PROVE  FeedInv'
  <2> USE DEF FeedInv
  <2>1. PICK r \in Feed!Results : result' = [result EXCEPT ![m] = r]
    BY <1>1, ResultWritten
  <2>2. /\ touched' = touched \cup {m} /\ UNCHANGED <<cached, walk, pages>>
        /\ rewritten' \in SUBSET Matches /\ restated' \in SUBSET Matches
    BY <1>1 DEF Feed!Observe, Feed!Relabel, Feed!Restate, Feed!Touch, FeedTyped
  <2>3. FeedTyped'
    BY <2>1, <2>2 DEF FeedTyped
  <2>4. Steady' \subseteq Steady
    BY <2>1, <2>2 DEF Steady, FeedTyped
  <2>5. ListsCover'
    BY <2>2, <2>4, CoversFewer DEF ListsCover
  <2>6. RowsStand'
    BY <2>1, <2>2 DEF RowsStand, Feed!Scanned, FeedTyped
  <2>7. WalkedSoFar'
    BY <2>2, <2>4 DEF WalkedSoFar
  <2> QED BY <2>3, <2>5, <2>6, <2>7
<1>2. ASSUME NEW c \in Feed!Cursors, Feed!Expire(c) PROVE FeedInv'
  <2> USE <1>2 DEF Feed!Expire, FeedInv
  <2>1. FeedTyped' /\ Steady' = Steady
    <3>1. cached' \in [Feed!Cursors -> (SUBSET Matches) \cup {Feed!NotCached}]
      BY DEF FeedTyped
    <3> QED BY <3>1 DEF FeedTyped, Steady
  <2>2. ListsCover'
    BY <2>1 DEF ListsCover, FeedTyped
  <2>3. RowsStand' /\ WalkedSoFar'
    BY <2>1 DEF RowsStand, WalkedSoFar, Feed!Scanned
  <2> QED BY <2>1, <2>2, <2>3
<1>3. 0 \in Feed!Scores
  BY DEF Feed!Scores
<1> QED BY <1>1, <1>2, <1>3 DEF Feed!Surroundings

\* The list of a request, from the cache or from the database.
LEMMA CandidatesCover ==
  ASSUME Feed!ResultsFeedAssumption, FeedTyped, NEW c \in Feed!Cursors
  PROVE  Covers(Feed!Candidates(c), c, Steady) /\ Feed!Candidates(c) \in SUBSET Matches
<1> DEFINE S == {m \in Feed!BeforeCursor(c) : result[m].state # "open"}
<1>1. S \in SUBSET Matches /\ ScanLimit + 1 \in Nat /\ ScanLimit \in Nat
  BY Archive DEF Feed!BeforeCursor
<1>2. Feed!Candidates(c) = Feed!Latest(ScanLimit + 1, S)
  BY DEF Feed!Candidates
<1>3. Feed!Candidates(c) \subseteq S
  BY <1>2, LatestIsPart
<1>4. ASSUME NEW m \in (Steady \cap Feed!BeforeCursor(c)) \ Feed!Candidates(c)
      PROVE  /\ Cardinality(Feed!Candidates(c)) > ScanLimit
             /\ \A k \in Feed!Candidates(c) : k > m
  <2>1. m \in S \ Feed!Latest(ScanLimit + 1, S)
    BY <1>2, <1>4 DEF Steady
  <2> HIDE DEF S
  <2>2. Cardinality(Feed!Latest(ScanLimit + 1, S)) >= ScanLimit + 1
    BY <1>1, <2>1, AsManyAsMayBe
  <2>3. Cardinality(Feed!Latest(ScanLimit + 1, S)) \in Nat
    BY <1>1, Archive, PartOf, LatestIsPart
  <2>4. \A k \in Feed!Latest(ScanLimit + 1, S) : k > m
    BY <1>1, <2>1, LeftOut
  <2> QED BY <1>1, <1>2, <2>2, <2>3, <2>4
<1>5. Feed!Candidates(c) \subseteq Feed!BeforeCursor(c)
  BY <1>3
<1> QED BY <1>1, <1>3, <1>4, <1>5 DEF Covers

LEMMA ListKept ==
  ASSUME Feed!ResultsFeedAssumption, FeedInv, Feed!List
  PROVE  FeedInv'
<1> USE DEF FeedInv
<1>1. PICK listed :
        /\ listed = IF cached[walk.cursor] = Feed!NotCached THEN Feed!Candidates(walk.cursor)
                    ELSE cached[walk.cursor]
        /\ walk' = [walk EXCEPT !.pc = "rows", !.listed = listed]
        /\ cached' = [cached EXCEPT ![walk.cursor] = listed]
        /\ walk.pc = "list"
        /\ UNCHANGED <<result, pages, touched, rewritten, restated>>
  BY Zenon DEF Feed!List
<1>2. walk.cursor \in Feed!Cursors
  BY DEF FeedTyped
<1>3. Covers(listed, walk.cursor, Steady) /\ listed \in SUBSET Matches
  <2>1. CASE cached[walk.cursor] = Feed!NotCached
    BY <1>1, <1>2, <2>1, CandidatesCover
  <2>2. CASE cached[walk.cursor] # Feed!NotCached
    <3>1. Covers(cached[walk.cursor], walk.cursor, Steady)
      BY <1>2, <2>2 DEF ListsCover
    <3> QED BY <1>1, <1>2, <2>2, <3>1 DEF FeedTyped
  <2> QED BY <2>1, <2>2
<1>4. FeedTyped'
  <2>1. cached' \in [Feed!Cursors -> (SUBSET Matches) \cup {Feed!NotCached}]
    BY <1>1, <1>3 DEF FeedTyped
  <2>2. walk' \in [pc : Stops, cursor : Feed!Cursors, listed : SUBSET Matches, rows : Hydrated]
    BY <1>1, <1>3 DEF FeedTyped, Stops
  <2> QED BY <1>1, <2>1, <2>2 DEF FeedTyped
<1>5. /\ Steady' = Steady /\ walk'.cursor = walk.cursor /\ walk'.listed = listed
      /\ walk'.pc = "rows"
  BY <1>1 DEF Steady, FeedTyped
<1>6. ListsCover'
  <2>1. ASSUME NEW c \in Feed!Cursors, cached'[c] # Feed!NotCached
        PROVE  Covers(cached'[c], c, Steady')
    BY <1>1, <1>3, <1>5, <2>1 DEF ListsCover, FeedTyped
  <2>2. Covers(walk'.listed, walk'.cursor, Steady')
    BY <1>3, <1>5
  <2> QED BY <2>1, <2>2 DEF ListsCover
<1>7. RowsStand'
  BY <1>5 DEF RowsStand
<1>8. WalkedSoFar'
  BY <1>1, <1>5 DEF WalkedSoFar
<1> QED BY <1>4, <1>6, <1>7, <1>8

\* The other steps of a request, which do not change the list.
LEMMA RequestKept ==
  ASSUME Feed!ResultsFeedAssumption, FeedInv, Feed!Ask \/ Feed!Hydrate \/ Feed!Fail
  PROVE  FeedInv'
<1> USE DEF FeedInv
<1>1. /\ UNCHANGED <<result, cached, pages, touched, rewritten>> /\ Steady' = Steady
      /\ restated' \in SUBSET Matches
  BY DEF Feed!Ask, Feed!Hydrate, Feed!Fail, Steady, FeedTyped
<1>2. CASE Feed!Ask
  <2>1. walk' = [walk EXCEPT !.pc = "list"] /\ walk.cursor # Feed!End
    BY <1>2 DEF Feed!Ask
  <2>2. FeedTyped'
    BY <1>1, <2>1 DEF FeedTyped, Stops
  <2>3. walk'.pc = "list" /\ walk'.cursor = walk.cursor
    BY <2>1 DEF FeedTyped
  <2> QED BY <1>1, <2>1, <2>2, <2>3 DEF ListsCover, RowsStand, WalkedSoFar
<1>3. CASE Feed!Hydrate
  <2>1. /\ walk' = [walk EXCEPT !.pc = "access", !.rows = [m \in Feed!Scanned |-> result[m]]]
        /\ walk.pc = "rows"
    BY <1>3 DEF Feed!Hydrate
  <2>2. Feed!Scanned \in SUBSET Matches
    BY LatestIsPart DEF Feed!Scanned, FeedTyped
  <2>3. [m \in Feed!Scanned |-> result[m]] \in Hydrated
    <3>1. [m \in Feed!Scanned |-> result[m]] \in [Feed!Scanned -> Feed!Results]
      BY <2>2 DEF FeedTyped
    <3> QED BY <2>2, <3>1 DEF Hydrated
  <2>4. FeedTyped'
    BY <1>1, <2>1, <2>3, Zenon DEF FeedTyped, Stops
  <2>5. /\ walk'.pc = "access" /\ walk'.cursor = walk.cursor /\ walk'.listed = walk.listed
        /\ walk'.rows = [m \in Feed!Scanned |-> result[m]]
    BY <2>1 DEF FeedTyped
  <2>6. Feed!Scanned' = Feed!Scanned
    BY <2>5 DEF Feed!Scanned
  <2>7. RowsStand'
    BY <1>1, <2>2, <2>5, <2>6 DEF RowsStand, FeedTyped
  <2>8. ListsCover' /\ WalkedSoFar'
    BY <1>1, <2>1, <2>5 DEF ListsCover, WalkedSoFar
  <2> QED BY <2>4, <2>7, <2>8
<1>4. CASE Feed!Fail
  <2>1. walk' = [pc |-> "idle", cursor |-> walk.cursor, listed |-> {}, rows |-> <<>>]
    BY <1>4 DEF Feed!Fail, Feed!Idle
  <2>2. FeedTyped'
    <3>1. walk' \in [pc : Stops, cursor : Feed!Cursors, listed : SUBSET Matches, rows : Hydrated]
      <4>1. <<>> \in Hydrated
        BY DEF Hydrated
      <4> QED BY <2>1, <4>1 DEF FeedTyped, Stops
    <3> QED BY <1>1, <3>1 DEF FeedTyped
  <2> QED BY <1>1, <2>1, <2>2 DEF ListsCover, RowsStand, WalkedSoFar
<1> QED BY <1>2, <1>3, <1>4

\* What is steady and not before a match that was scanned is eligible.
LEMMA SteadyIsEligible ==
  ASSUME Feed!ResultsFeedAssumption, FeedInv, walk.pc = "access",
         NEW m \in Steady, m < walk.cursor,
         Cardinality(walk.listed) > ScanLimit => \E k \in Feed!Scanned : k <= m
  PROVE  m \in Feed!EligibleMatches
<1> USE DEF FeedInv
<1>1. /\ walk.listed \in SUBSET Matches /\ Feed!Scanned \in SUBSET walk.listed
      /\ ScanLimit \in Nat /\ m \in Matches /\ \A k \in Matches : k \in Nat
  BY LatestIsPart, Archive DEF FeedTyped, Feed!Scanned, Steady
<1>2. Covers(walk.listed, walk.cursor, Steady)
  BY DEF ListsCover
<1>3. m \in walk.listed
  <2>1. SUFFICES ASSUME m \notin walk.listed PROVE FALSE
    OBVIOUS
  <2>2. Cardinality(walk.listed) > ScanLimit /\ \A k \in walk.listed : k > m
    BY <1>1, <1>2, <2>1 DEF Covers, Feed!BeforeCursor
  <2> QED BY <1>1, <2>2
<1>4. m \in Feed!Scanned
  <2>1. SUFFICES ASSUME m \notin Feed!Scanned PROVE FALSE
    OBVIOUS
  <2>2. (\A k \in Feed!Scanned : k > m) /\ Cardinality(walk.listed) > ScanLimit
    BY <1>1, <1>3, <2>1, LeftOut DEF Feed!Scanned
  <2> QED BY <1>1, <2>2
<1>5. walk.rows[m] = result[m]
  BY <1>4 DEF RowsStand, Steady
<1>6. Feed!SameRevision(m)
  BY <1>5 DEF Feed!SameRevision, Feed!Revision
<1> QED BY <1>4, <1>6 DEF Feed!EligibleMatches, Feed!Eligible, Steady

\* The page and the next cursor: nothing on the page is before the cursor, and what
\* is steady between the two cursors is on the page.
LEMMA PageReaches ==
  ASSUME Feed!ResultsFeedAssumption, FeedInv, walk.pc = "access"
  PROVE  /\ Feed!NextCursor \in Feed!Cursors /\ Feed!NextCursor <= walk.cursor
         /\ \A m \in Feed!Page : Feed!NextCursor <= m /\ m < walk.cursor
         /\ \A m \in Steady : Feed!NextCursor <= m /\ m < walk.cursor => m \in Feed!Page
<1> DEFINE E == Feed!EligibleMatches
<1>1. /\ walk.listed \in SUBSET Matches /\ Feed!Scanned \in SUBSET walk.listed
      /\ E \in SUBSET Feed!Scanned /\ Feed!Page \in SUBSET E
      /\ \A k \in Matches : k \in Nat
      /\ \A k \in walk.listed : k < walk.cursor
  <2>1. Covers(walk.listed, walk.cursor, Steady)
    BY DEF FeedInv, ListsCover
  <2>2. Feed!Scanned \in SUBSET walk.listed /\ Feed!Page \in SUBSET E
    BY LatestIsPart DEF Feed!Scanned, Feed!Page
  <2> QED BY <2>1, <2>2, Archive DEF Covers, Feed!BeforeCursor, FeedInv, FeedTyped,
          Feed!EligibleMatches
<1>2. E \in SUBSET Matches /\ Feed!Scanned \in SUBSET Matches
  BY <1>1
<1>3. /\ Cardinality(E) \in Nat /\ Cardinality(walk.listed) \in Nat
      /\ PageSize \in Nat \ {0} /\ ScanLimit \in Nat \ {0}
  BY <1>1, <1>2, Archive, PartOf
<1>4. /\ Feed!NextCursor = IF Cardinality(E) > PageSize THEN Feed!Earliest(Feed!Page)
                           ELSE IF ~(Cardinality(walk.listed) <= ScanLimit)
                           THEN Feed!Earliest(Feed!Scanned) ELSE Feed!End
      /\ Feed!Page = Feed!Latest(PageSize, E)
      /\ Feed!Scanned = Feed!Latest(ScanLimit, walk.listed)
  BY SameCount DEF Feed!NextCursor, Feed!Page, Feed!ReachedEnd, Feed!Scanned
<1>5. ASSUME NEW m \in Steady, m < walk.cursor,
             Cardinality(walk.listed) > ScanLimit => \E k \in Feed!Scanned : k <= m
      PROVE  m \in E
  BY <1>5, SteadyIsEligible
<1>6. (\A m \in Steady : m \in Nat) /\ walk.cursor \in Nat
  BY <1>1, CursorsAreNumbers DEF Steady, FeedInv, FeedTyped
<1> HIDE DEF E
<1>7. CASE Cardinality(E) > PageSize
  <2>1. E # {}
    BY <1>3, <1>7, FS_EmptySet
  <2>2. Feed!Page # {}
    BY <1>2, <1>3, <1>4, <2>1, SomeKept
  <2>3. /\ Feed!NextCursor \in Feed!Page
        /\ \A k \in Feed!Page : Feed!NextCursor <= k
    BY <1>1, <1>2, <1>4, <1>7, <2>2, EarliestIsLeast
  <2>4. ASSUME NEW m \in Steady, Feed!NextCursor <= m, m < walk.cursor
        PROVE  m \in Feed!Page
    <3>1. m \in E
      BY <1>1, <1>5, <2>3, <2>4
    <3> QED BY <1>1, <1>2, <1>3, <1>4, <1>6, <2>3, <2>4, <3>1, KeptUpwards
  <2>5. Feed!NextCursor \in Feed!Cursors /\ Feed!NextCursor <= walk.cursor
    BY <1>1, <1>2, <1>6, <2>3 DEF Feed!Cursors
  <2> QED BY <1>1, <2>3, <2>4, <2>5
<1>8. CASE ~(Cardinality(E) > PageSize)
  <2>1. Feed!Page = E
    BY <1>1, <1>2, <1>3, <1>4, <1>8, LeftOut
  <2>2. CASE Cardinality(walk.listed) > ScanLimit
    <3>1. walk.listed # {}
      BY <1>3, <2>2, FS_EmptySet
    <3>2. Feed!Scanned # {}
      BY <1>1, <1>3, <1>4, <3>1, SomeKept
    <3>3. ~(Cardinality(walk.listed) <= ScanLimit)
      BY <1>3, <2>2
    <3>4. /\ Feed!NextCursor \in Feed!Scanned
          /\ \A k \in Feed!Scanned : Feed!NextCursor <= k
      BY <1>2, <1>4, <1>8, <3>2, <3>3, EarliestIsLeast
    <3>5. ASSUME NEW m \in Steady, Feed!NextCursor <= m, m < walk.cursor
          PROVE  m \in Feed!Page
      BY <1>5, <2>1, <3>4, <3>5
    <3>6. Feed!NextCursor \in Feed!Cursors /\ Feed!NextCursor <= walk.cursor
      BY <1>1, <1>2, <1>6, <3>4 DEF Feed!Cursors
    <3> QED BY <1>1, <3>4, <3>5, <3>6
  <2>3. CASE ~(Cardinality(walk.listed) > ScanLimit)
    <3>1. Cardinality(walk.listed) <= ScanLimit
      BY <1>3, <2>3
    <3>2. Feed!NextCursor = 0 /\ Feed!NextCursor \in Feed!Cursors
      BY <1>4, <1>8, <3>1, CursorsAreNumbers
    <3>3. \A m \in Steady : m < walk.cursor => m \in Feed!Page
      BY <1>5, <2>1, <2>3
    <3> QED BY <1>1, <1>2, <1>6, <3>2, <3>3
  <2> QED BY <2>2, <2>3
<1> QED BY <1>7, <1>8

LEMMA AnswerKept ==
  ASSUME Feed!ResultsFeedAssumption, FeedInv, Feed!Answer
  PROVE  FeedInv'
<1> USE DEF FeedInv
<1> DEFINE cards == {Feed!CardOf(m) : m \in Feed!Page}
<1>1. /\ walk.pc = "access"
      /\ pages' = Append(pages, cards)
      /\ walk' = [pc |-> "idle", cursor |-> Feed!NextCursor, listed |-> {}, rows |-> <<>>]
      /\ UNCHANGED <<result, cached, touched, restated>> /\ Steady' = Steady
      /\ rewritten' = (rewritten \ Feed!Page) \cup restated
  BY DEF Feed!Answer, Feed!Idle, Steady
<1>2. /\ Feed!NextCursor \in Feed!Cursors
      /\ \A m \in Feed!Page : Feed!NextCursor <= m /\ m < walk.cursor
      /\ \A m \in Steady : Feed!NextCursor <= m /\ m < walk.cursor => m \in Feed!Page
  BY <1>1, PageReaches
<1>3. Feed!Page \in SUBSET Matches
  BY LatestIsPart DEF Feed!Page, Feed!EligibleMatches, Feed!Scanned, FeedTyped
<1>4. \A m \in Feed!Page : Feed!CardOf(m).match = m /\ Feed!CardOf(m) \in Cards
  <2>1. Feed!Page \in SUBSET Feed!Scanned
    BY LatestIsPart DEF Feed!Page, Feed!EligibleMatches
  <2>2. \A m \in Feed!Page : walk.rows[m].score \in Feed!Scores
    BY <1>1, <2>1 DEF RowsStand, Feed!Results
  <2> QED BY <1>3, <2>2 DEF Feed!CardOf, Cards
<1>5. \A card \in cards : card.match \in Feed!Page /\ card = Feed!CardOf(card.match)
  BY <1>4
<1>6. FeedTyped'
  <2>1. cards \in SUBSET Cards
    BY <1>4
  <2> HIDE DEF cards
  <2>2. pages' \in Seq(SUBSET Cards)
    BY <1>1, <2>1 DEF FeedTyped
  <2>3. walk' \in [pc : Stops, cursor : Feed!Cursors, listed : SUBSET Matches, rows : Hydrated]
    <3>1. <<>> \in Hydrated
      BY DEF Hydrated
    <3> QED BY <1>1, <1>2, <3>1 DEF Stops
  <2> QED BY <1>1, <2>2, <2>3 DEF FeedTyped
<1>7. ListsCover' /\ RowsStand'
  BY <1>1 DEF ListsCover, RowsStand
<1>8. WalkedSoFar'
  <2>1. /\ walk'.pc = "idle" /\ walk'.cursor = Feed!NextCursor
        /\ walk.cursor \in Nat /\ Feed!NextCursor \in Nat
        /\ \A m \in Matches : m \in Nat
    BY <1>1, <1>2, CursorsAreNumbers DEF FeedTyped
  <2>2. Feed!NextCursor <= walk.cursor
    BY <1>1, PageReaches
  <2>3. /\ Len(pages) \in Nat /\ DOMAIN pages = 1..Len(pages)
        /\ DOMAIN pages' = 1..(Len(pages) + 1)
        /\ \A i \in DOMAIN pages : pages'[i] = pages[i] /\ pages[i] \in SUBSET Cards
        /\ pages'[Len(pages) + 1] = cards
    <3>1. cards \in SUBSET Cards
      BY <1>4
    <3> HIDE DEF cards
    <3> QED BY <1>1, <3>1 DEF FeedTyped
  <2>4. \A card \in cards : Feed!NextCursor <= card.match /\ card.match < walk.cursor
    BY <1>2, <1>5
  <2>5. \A m \in Feed!Page : \E card \in cards : card.match = m
    BY <1>4
  <2>6. \A i \in DOMAIN pages : \A card \in pages[i] :
          card.match \in Nat /\ walk.cursor <= card.match /\ Feed!NextCursor <= card.match
    BY <2>1, <2>2, <2>3 DEF WalkedSoFar, Cards
  <2>7. \A a, b \in cards : a.match = b.match => a = b
    BY <1>5
  <2>8. \A a \in cards : a.match \in Nat
    BY <1>3, <1>5, <2>1
  <2> HIDE DEF cards
  <2>9. \A i \in DOMAIN pages' : \A card \in pages'[i] : walk'.cursor <= card.match
    <3> SUFFICES ASSUME NEW i \in DOMAIN pages', NEW card \in pages'[i]
                 PROVE  walk'.cursor <= card.match
      OBVIOUS
    <3>1. CASE i \in DOMAIN pages
      BY <2>1, <2>3, <2>6, <3>1
    <3>2. CASE i = Len(pages) + 1
      BY <2>1, <2>3, <2>4, <3>2
    <3> QED BY <2>3, <3>1, <3>2
  <2>10. ASSUME NEW i \in DOMAIN pages', NEW j \in DOMAIN pages', NEW a \in pages'[i],
                NEW b \in pages'[j], a.match = b.match
         PROVE  i = j /\ a = b
    <3>1. CASE i \in DOMAIN pages /\ j \in DOMAIN pages
      BY <2>3, <2>10, <3>1 DEF WalkedSoFar
    <3>2. CASE i = Len(pages) + 1 /\ j = Len(pages) + 1
      BY <2>3, <2>7, <2>10, <3>2
    <3>3. CASE i \in DOMAIN pages /\ j = Len(pages) + 1
      BY <2>1, <2>3, <2>4, <2>6, <2>8, <2>10, <3>3
    <3>4. CASE i = Len(pages) + 1 /\ j \in DOMAIN pages
      BY <2>1, <2>3, <2>4, <2>6, <2>8, <2>10, <3>4
    <3> QED BY <2>3, <3>1, <3>2, <3>3, <3>4
  <2>11. ASSUME NEW m \in Steady, walk'.cursor <= m
         PROVE  \E i \in DOMAIN pages' : \E card \in pages'[i] : card.match = m
    <3>1. CASE m < walk.cursor
      <4>1. m \in Feed!Page
        BY <1>2, <2>1, <2>11, <3>1
      <4> QED BY <2>3, <2>5, <4>1
    <3>2. CASE ~(m < walk.cursor)
      <4>1. walk.cursor <= m
        BY <2>1, <3>2 DEF Steady
      <4>2. PICK i \in DOMAIN pages : \E card \in pages[i] : card.match = m
        BY <4>1 DEF WalkedSoFar
      <4> QED BY <2>3, <4>2
    <3> QED BY <3>1, <3>2
  <2> QED BY <1>1, <2>1, <2>9, <2>10, <2>11 DEF WalkedSoFar
<1> QED BY <1>6, <1>7, <1>8

LEMMA FeedKept ==
  ASSUME Feed!ResultsFeedAssumption, FeedInv, [Feed!Next]_(Feed!vars)
  PROVE  FeedInv'
<1>1. CASE Feed!Ask \/ Feed!Hydrate \/ Feed!Fail
  BY <1>1, RequestKept
<1>2. CASE Feed!List
  BY <1>2, ListKept
<1>3. CASE Feed!Answer
  BY <1>3, AnswerKept
<1>4. CASE Feed!Surroundings
  BY <1>4, SurroundingsKept
<1>5. CASE UNCHANGED Feed!vars
  BY <1>5 DEF Feed!vars, FeedInv, FeedTyped, ListsCover, RowsStand, WalkedSoFar, Steady,
     Feed!Scanned
<1> QED BY <1>1, <1>2, <1>3, <1>4, <1>5 DEF Feed!Next

LEMMA FeedInvariant == SiteSpec => [](part = "feed" => FeedInv)
<1>1. SiteInit => (part = "feed" => FeedInv)
  BY SitePartsAssumption, FeedInitial DEF SiteInit
<1>2. (part = "feed" => FeedInv) /\ [SiteNext]_siteVars => (part = "feed" => FeedInv)'
  BY SitePartsAssumption, PartAtWork, FeedKept
<1> QED BY <1>1, <1>2, PTL DEF SiteSpec

\* No result is served twice, and what is public and unchanged all along is not
\* overlooked: ArchiveIsWalkedOnce, however many matches there are, whatever the sizes
\* of the pages and scans, and however old the cached lists (loadCompletedMatchesPage).
THEOREM ArchiveWalked == SiteSpec => []ArchiveIsWalkedOnce
<1>1. (part = "feed" => FeedInv) => ArchiveIsWalkedOnce
  <2> SUFFICES ASSUME part = "feed", FeedInv PROVE Feed!ArchiveIsWalkedOnce
    BY DEF ArchiveIsWalkedOnce
  <2>1. ASSUME NEW m \in Matches \ touched, result[m].state = "final", walk.cursor <= m
        PROVE  m \in Feed!Shown
    <3>1. m \in Steady
      BY <2>1 DEF Steady
    <3>2. PICK i \in DOMAIN pages : \E card \in pages[i] : card.match = m
      BY <2>1, <3>1 DEF FeedInv, WalkedSoFar
    <3> QED BY <3>2 DEF Feed!Shown
  <2> QED BY <2>1 DEF Feed!ArchiveIsWalkedOnce, FeedInv, WalkedSoFar
<1> QED BY <1>1, FeedInvariant, PTL

\* Between the rows and the access of a page, a revision that is the same is of the same
\* score, unless an import replaced the score under its date.
RevisionsTell ==
    walk.pc = "access" => \A m \in Feed!Scanned :
       /\ walk.rows[m].revision <= result[m].revision
       /\ walk.rows[m].revision = result[m].revision /\ m \notin restated =>
             walk.rows[m].score = result[m].score

CardsInv == RevisionsTell /\ Feed!CardsAreCurrent

\* A write: an observation moves the revision on, and whatever changes a score says so.
LEMMA WriteKeepsCards ==
  ASSUME Feed!ResultsFeedAssumption, FeedInv, CardsInv, NEW m \in Matches,
         NEW state \in Feed!States, NEW score \in Feed!Scores,
         Feed!Observe(m, state, score) \/ Feed!Relabel(m, state) \/ Feed!Restate(m, state, score)
  PROVE  CardsInv'
<1>1. /\ result \in [Matches -> Feed!Results] /\ Feed!Scanned \in SUBSET Matches
      /\ \A k \in Matches : result[k].revision \in Nat
      /\ \A i \in DOMAIN pages : \A card \in pages[i] : card.match \in Matches
      /\ \A i \in DOMAIN pages : pages[i] \in SUBSET Cards
      /\ walk.pc = "access" => \A k \in Feed!Scanned : walk.rows[k].revision \in Nat
  <2>1. Feed!Scanned \in SUBSET Matches /\ result \in [Matches -> Feed!Results]
    BY LatestIsPart DEF Feed!Scanned, FeedInv, FeedTyped
  <2>2. \A i \in DOMAIN pages : pages[i] \in SUBSET Cards
    BY DEF FeedInv, FeedTyped
  <2>3. \A k \in Matches : result[k].revision \in Nat
    BY <2>1 DEF Feed!Results, Feed!ResultsFeedAssumption
  <2>4. walk.pc = "access" => \A k \in Feed!Scanned : walk.rows[k].revision \in Nat
    BY DEF FeedInv, RowsStand, Feed!Results, Feed!ResultsFeedAssumption
  <2> QED BY <2>1, <2>2, <2>3, <2>4 DEF Cards
<1>2. UNCHANGED <<walk, pages>> /\ Feed!Scanned' = Feed!Scanned
  BY DEF Feed!Observe, Feed!Relabel, Feed!Restate, Feed!Scanned
<1>3. \A k \in Matches \ {m} : result'[k] = result[k]
  BY <1>1 DEF Feed!Observe, Feed!Relabel, Feed!Restate
<1>4. CASE Feed!Observe(m, state, score)
  <2>1. result'[m].revision = result[m].revision + 1
    BY <1>1, <1>4 DEF Feed!Observe
  <2>2. rewritten' = rewritten \cup {m} /\ restated' = restated
    BY <1>4 DEF Feed!Observe
  <2>3. RevisionsTell'
    BY <1>1, <1>2, <1>3, <2>1, <2>2 DEF CardsInv, RevisionsTell
  <2>4. Feed!CardsAreCurrent'
    BY <1>1, <1>2, <1>3, <2>2 DEF CardsInv, Feed!CardsAreCurrent
  <2> QED BY <2>3, <2>4 DEF CardsInv
<1>5. CASE Feed!Relabel(m, state)
  <2>1. result'[m].revision = result[m].revision /\ result'[m].score = result[m].score
    <3>1. result[m] \in Feed!Results /\ result'[m] = [result[m] EXCEPT !.state = state]
      BY <1>1, <1>5 DEF Feed!Relabel
    <3> QED BY <3>1 DEF Feed!Results
  <2>2. rewritten' = rewritten /\ restated' = restated
    BY <1>5 DEF Feed!Relabel
  <2>3. RevisionsTell'
    BY <1>1, <1>2, <1>3, <2>1, <2>2 DEF CardsInv, RevisionsTell
  <2>4. Feed!CardsAreCurrent'
    BY <1>1, <1>2, <1>3, <2>1, <2>2 DEF CardsInv, Feed!CardsAreCurrent
  <2> QED BY <2>3, <2>4 DEF CardsInv
<1>6. CASE Feed!Restate(m, state, score)
  <2>1. result'[m].revision = result[m].revision
    <3>1. result[m] \in Feed!Results
          /\ result'[m] = [result[m] EXCEPT !.state = state, !.score = score]
      BY <1>1, <1>6 DEF Feed!Restate
    <3> QED BY <3>1 DEF Feed!Results
  <2>2. rewritten' = rewritten \cup {m} /\ restated' = restated \cup {m}
    BY <1>6 DEF Feed!Restate
  <2>3. RevisionsTell'
    BY <1>1, <1>2, <1>3, <2>1, <2>2 DEF CardsInv, RevisionsTell
  <2>4. Feed!CardsAreCurrent'
    BY <1>1, <1>2, <1>3, <2>2 DEF CardsInv, Feed!CardsAreCurrent
  <2> QED BY <2>3, <2>4 DEF CardsInv
<1> QED BY <1>4, <1>5, <1>6

\* The page: a card is of a row whose revision its access has, and no match of it is on
\* an earlier page.
LEMMA AnswerKeepsCards ==
  ASSUME Feed!ResultsFeedAssumption, FeedInv, CardsInv, Feed!Answer
  PROVE  CardsInv'
<1> DEFINE cards == {Feed!CardOf(m) : m \in Feed!Page}
<1>1. /\ walk.pc = "access" /\ pages' = Append(pages, cards) /\ walk'.pc = "idle"
      /\ UNCHANGED result /\ rewritten' = (rewritten \ Feed!Page) \cup restated
  BY DEF Feed!Answer, Feed!Idle
<1>2. \A m \in Feed!Page : m < walk.cursor
  BY <1>1, PageReaches
<1>3. pages \in Seq(SUBSET Cards)
  BY DEF FeedInv, FeedTyped
<1>4. \A i \in DOMAIN pages : \A card \in pages[i] : card.match \notin Feed!Page
  <2>1. \A i \in DOMAIN pages : \A card \in pages[i] : card.match \in Nat /\ walk.cursor <= card.match
    <3>1. \A i \in DOMAIN pages : \A card \in pages[i] : card.match \in Matches
      BY <1>3 DEF Cards
    <3> QED BY <3>1, Archive DEF FeedInv, WalkedSoFar
  <2>2. walk.cursor \in Nat
    BY CursorsAreNumbers DEF FeedInv, FeedTyped
  <2> QED BY <1>2, <2>1, <2>2
<1>5. \A card \in cards : card.match \notin restated => card.score = result[card.match].score
  <2> SUFFICES ASSUME NEW m \in Feed!Page, m \notin restated
               PROVE  walk.rows[m].score = result[m].score
    BY DEF Feed!CardOf
  <2>1. m \in Feed!Scanned /\ walk.rows[m].revision = result[m].revision
    BY LatestIsPart DEF Feed!Page, Feed!EligibleMatches, Feed!Eligible, Feed!SameRevision,
       Feed!Revision
  <2> QED BY <1>1, <2>1 DEF CardsInv, RevisionsTell
<1>6. /\ Len(pages) \in Nat /\ DOMAIN pages = 1..Len(pages)
      /\ DOMAIN pages' = 1..(Len(pages) + 1)
      /\ \A i \in DOMAIN pages : pages'[i] = pages[i]
      /\ pages'[Len(pages) + 1] = cards
  <2> HIDE DEF cards
  <2> QED BY <1>1, <1>3
<1> HIDE DEF cards
<1>7. Feed!CardsAreCurrent'
  <2> SUFFICES ASSUME NEW i \in DOMAIN pages', NEW card \in pages'[i], card.match \notin rewritten'
               PROVE  card.score = result[card.match].score
    BY <1>1 DEF Feed!CardsAreCurrent
  <2>1. CASE i \in DOMAIN pages
    <3>1. card \in pages[i] /\ card.match \notin rewritten
      BY <1>1, <1>4, <1>6, <2>1
    <3> QED BY <2>1, <3>1 DEF CardsInv, Feed!CardsAreCurrent
  <2>2. CASE i = Len(pages) + 1
    BY <1>1, <1>5, <1>6, <2>2
  <2> QED BY <1>6, <2>1, <2>2
<1> QED BY <1>1, <1>7 DEF CardsInv, RevisionsTell

LEMMA CardsKept ==
  ASSUME Feed!ResultsFeedAssumption, FeedInv, CardsInv, [Feed!Next]_(Feed!vars)
  PROVE  CardsInv'
<1>1. CASE Feed!Answer
  BY <1>1, AnswerKeepsCards
<1>2. CASE \E m \in Matches, state \in Feed!States :
             \/ Feed!Relabel(m, state)
             \/ \E score \in Feed!Scores :
                  Feed!Observe(m, state, score) \/ Feed!Restate(m, state, score)
  <2>1. 0 \in Feed!Scores
    BY DEF Feed!Scores
  <2> QED BY <1>2, <2>1, WriteKeepsCards
<1>3. CASE Feed!Hydrate
  <2>1. /\ walk' = [walk EXCEPT !.pc = "access", !.rows = [m \in Feed!Scanned |-> result[m]]]
        /\ UNCHANGED <<result, pages, rewritten>>
    BY <1>3 DEF Feed!Hydrate
  <2>2. walk'.rows = [m \in Feed!Scanned |-> result[m]] /\ walk'.listed = walk.listed
    BY <2>1 DEF FeedInv, FeedTyped
  <2>3. Feed!Scanned' = Feed!Scanned /\ Feed!Scanned \in SUBSET Matches
    BY <2>2, LatestIsPart DEF Feed!Scanned, FeedInv, FeedTyped
  <2>4. \A m \in Feed!Scanned : result[m].revision \in Nat
    BY <2>3 DEF FeedInv, FeedTyped, Feed!Results, Feed!ResultsFeedAssumption
  <2> QED BY <2>1, <2>2, <2>3, <2>4 DEF CardsInv, RevisionsTell, Feed!CardsAreCurrent
<1>4. CASE Feed!Ask \/ Feed!List \/ Feed!Fail
  <2>1. UNCHANGED <<result, pages, rewritten>> /\ walk'.pc # "access"
    <3>1. CASE Feed!Ask
      BY <3>1 DEF Feed!Ask, FeedInv, FeedTyped
    <3>2. CASE Feed!List
      <4>1. /\ UNCHANGED <<result, pages, rewritten>>
            /\ \E listed : walk' = [walk EXCEPT !.pc = "rows", !.listed = listed]
        BY <3>2, Zenon DEF Feed!List
      <4> QED BY <4>1 DEF FeedInv, FeedTyped
    <3>3. CASE Feed!Fail
      BY <3>3 DEF Feed!Fail, Feed!Idle
    <3> QED BY <1>4, <3>1, <3>2, <3>3
  <2> QED BY <2>1 DEF CardsInv, RevisionsTell, Feed!CardsAreCurrent
<1>5. CASE \E c \in Feed!Cursors : Feed!Expire(c)
  BY <1>5 DEF Feed!Expire, CardsInv, RevisionsTell, Feed!CardsAreCurrent,
     Feed!Scanned
<1>6. CASE UNCHANGED Feed!vars
  BY <1>6 DEF Feed!vars, CardsInv, RevisionsTell, Feed!CardsAreCurrent, Feed!Scanned
<1> QED BY <1>1, <1>2, <1>3, <1>4, <1>5, <1>6 DEF Feed!Next, Feed!Surroundings

\* Every card a client holds shows the score of its match until the match is observed
\* again: CardsAreCurrent, although the score and the decision to show it were read apart,
\* whatever was written, observed or only relabelled in between (sameRevision of
\* home-feed.ts).  The invariant adds what a revision tells between the two reads.
THEOREM CardsCurrent == SiteSpec => []CardsAreCurrent
<1> DEFINE Inv == part = "feed" => FeedInv /\ CardsInv
<1>1. SiteInit => Inv
  <2> SUFFICES ASSUME SiteInit, part = "feed" PROVE FeedInv /\ CardsInv
    OBVIOUS
  <2>1. Feed!Init
    BY DEF SiteInit
  <2>2. walk.pc = "idle" /\ pages = <<>>
    BY <2>1 DEF Feed!Init, Feed!InitWith, Feed!Idle
  <2>3. CardsInv
    BY <2>2 DEF CardsInv, RevisionsTell, Feed!CardsAreCurrent
  <2> QED BY <2>1, <2>3, SitePartsAssumption, FeedInitial
<1>2. Inv /\ [SiteNext]_siteVars => Inv'
  BY SitePartsAssumption, PartAtWork, FeedKept, CardsKept
<1>3. Inv => CardsAreCurrent
  BY DEF CardsAreCurrent, CardsInv
<1> QED BY <1>1, <1>2, <1>3, PTL DEF SiteSpec

-----------------------------------------------------------------------------
(* The list of events: the order of the rows                               *)

\* The rows of the match, whether recorded yet or not.
All == {Entries[i] : i \in DOMAIN Entries}

LEMMA RowsAreOrdered ==
  ASSUME Reader!TimelineAssumption
  PROVE  /\ \A r \in All : ~Reader!Newer(r, r)
         /\ \A q, r \in All : Reader!Newer(q, r) => ~Reader!Newer(r, q)
         /\ \A p, q, r \in All :
              Reader!Newer(p, q) /\ Reader!Newer(q, r) => Reader!Newer(p, r)
         /\ \A q, r \in All : q = r \/ Reader!Newer(q, r) \/ Reader!Newer(r, q)
<1>1. \A r \in All : r.at \in Nat /\ r.id \in Nat /\ r.source \in {"score", "event"}
  BY DEF All, Reader!TimelineAssumption
<1>2. ASSUME NEW q \in All, NEW r \in All
      PROVE  q = r \/ Reader!Newer(q, r) \/ Reader!Newer(r, q)
  <2>1. PICK i \in DOMAIN Entries, j \in DOMAIN Entries : q = Entries[i] /\ r = Entries[j]
    BY DEF All
  <2>2. i \in Nat /\ j \in Nat
    BY DEF Reader!TimelineAssumption
  <2>3. i < j \/ j < i \/ i = j
    BY <2>2
  <2> QED BY <2>1, <2>3 DEF Reader!TimelineAssumption
<1>3. ASSUME NEW p \in All, NEW q \in All, NEW r \in All,
             Reader!Newer(p, q), Reader!Newer(q, r)
      PROVE  Reader!Newer(p, r)
  <2>1. /\ p.at \in Nat /\ p.id \in Nat /\ p.source \in {"score", "event"}
        /\ q.at \in Nat /\ q.id \in Nat /\ q.source \in {"score", "event"}
        /\ r.at \in Nat /\ r.id \in Nat /\ r.source \in {"score", "event"}
    BY <1>1
  <2> QED BY <1>3, <2>1 DEF Reader!Newer
<1>4. ASSUME NEW q \in All, NEW r \in All, Reader!Newer(q, r)
      PROVE  ~Reader!Newer(r, q)
  <2>1. /\ q.at \in Nat /\ q.id \in Nat /\ q.source \in {"score", "event"}
        /\ r.at \in Nat /\ r.id \in Nat /\ r.source \in {"score", "event"}
    BY <1>1
  <2> QED BY <1>4, <2>1 DEF Reader!Newer
<1> QED BY <1>2, <1>3, <1>4

LEMMA RowsAreFinite ==
  ASSUME Reader!TimelineAssumption
  PROVE  IsFiniteSet(All)
<1>1. IsFiniteSet(1..Len(Entries))
  BY FS_Interval DEF Reader!TimelineAssumption
<1>2. [i \in 1..Len(Entries) |-> Entries[i]] \in Surjection(1..Len(Entries), All)
  BY DEF Surjection, All, Reader!TimelineAssumption
<1> QED BY <1>1, <1>2, FS_Surjection

\* Some rows, if there are any, have a newest and an oldest.
LEMMA NewestAndOldest ==
  ASSUME Reader!TimelineAssumption, NEW T \in SUBSET All, T # {}
  PROVE  /\ \E r \in T : \A q \in T : ~Reader!Newer(q, r)
         /\ \E r \in T : \A q \in T : ~Reader!Newer(r, q)
<1> DEFINE I == {i \in DOMAIN Entries : Entries[i] \in T}
<1>1. /\ I \in SUBSET Nat /\ I # {} /\ Len(Entries) \in Nat
      /\ \A i \in I : i <= Len(Entries)
  BY DEF All, Reader!TimelineAssumption
<1>2. \A i, j \in I : i < j => Reader!Newer(Entries[j], Entries[i])
  BY DEF Reader!TimelineAssumption
<1>3. \A q \in T : \E i \in I : q = Entries[i]
  BY DEF All
<1>4. \A i \in I : Entries[i] \in T
  OBVIOUS
<1> HIDE DEF I
<1>5. PICK first \in I : \A i \in I : first <= i
  BY <1>1, LeastNumber
<1>6. PICK last \in I : \A i \in I : i <= last
  BY <1>1, GreatestNumber
<1>7. ASSUME NEW q \in T PROVE ~Reader!Newer(q, Entries[last]) /\ ~Reader!Newer(Entries[first], q)
  <2>1. PICK i \in I : q = Entries[i]
    BY <1>3
  <2>2. i \in Nat /\ first \in Nat /\ last \in Nat
    BY <1>1
  <2>3. (i = last \/ i < last) /\ (i = first \/ first < i)
    BY <1>5, <1>6, <2>2
  <2>4. Entries[i] \in All /\ Entries[last] \in All /\ Entries[first] \in All
    BY <1>4
  <2> QED BY <1>2, <2>1, <2>3, <2>4, RowsAreOrdered
<1> QED BY <1>4, <1>7

LEMMA NewestCounts ==
  ASSUME NEW S, NEW n
  PROVE  /\ Reader!Newest(n, S)
              = {r \in S : Cardinality({q \in S : Reader!Newer(q, r)}) < n}
         /\ Reader!Newest(n, S) \subseteq S
BY SameCount DEF Reader!Newest

LEMMA NewerThanIt ==
  ASSUME Reader!TimelineAssumption, NEW S \in SUBSET All, NEW r
  PROVE  /\ {q \in S : Reader!Newer(q, r)} \in SUBSET S
         /\ IsFiniteSet(S) /\ Cardinality(S) \in Nat
         /\ IsFiniteSet({q \in S : Reader!Newer(q, r)})
         /\ Cardinality({q \in S : Reader!Newer(q, r)}) \in Nat
<1>1. IsFiniteSet(S) /\ Cardinality(S) \in Nat
  BY RowsAreFinite, PartOf
<1> QED BY <1>1, PartOf

\* A row left out of a page is older than those on it.
LEMMA OlderThanPage ==
  ASSUME Reader!TimelineAssumption, NEW S \in SUBSET All, NEW n \in Nat,
         NEW r \in S \ Reader!Newest(n, S), NEW e \in Reader!Newest(n, S)
  PROVE  Reader!Newer(e, r)
<1> SUFFICES ASSUME ~Reader!Newer(e, r) PROVE FALSE
  OBVIOUS
<1>1. e \in S /\ Cardinality({q \in S : Reader!Newer(q, e)}) < n
  BY NewestCounts
<1>2. r \in S /\ ~(Cardinality({q \in S : Reader!Newer(q, r)}) < n)
  BY NewestCounts
<1>3. e # r
  BY <1>1, <1>2
<1>4. Reader!Newer(r, e)
  BY <1>1, <1>2, <1>3, RowsAreOrdered
<1>5. {q \in S : Reader!Newer(q, r)} \in SUBSET {q \in S : Reader!Newer(q, e)}
  BY <1>1, <1>2, <1>4, RowsAreOrdered
<1>6. Cardinality({q \in S : Reader!Newer(q, r)}) <= Cardinality({q \in S : Reader!Newer(q, e)})
  BY <1>5, NewerThanIt, PartOf
<1>7. /\ Cardinality({q \in S : Reader!Newer(q, r)}) \in Nat
      /\ Cardinality({q \in S : Reader!Newer(q, e)}) \in Nat
  BY NewerThanIt
<1> QED BY <1>1, <1>2, <1>6, <1>7

\* A page that leaves out some is full.
LEMMA PageIsFull ==
  ASSUME Reader!TimelineAssumption, NEW S \in SUBSET All, NEW n \in Nat,
         S \ Reader!Newest(n, S) # {}
  PROVE  Cardinality(Reader!Newest(n, S)) >= n
<1>1. PICK r \in S \ Reader!Newest(n, S) :
        \A q \in S \ Reader!Newest(n, S) : ~Reader!Newer(q, r)
  <2>1. S \ Reader!Newest(n, S) \in SUBSET All
    OBVIOUS
  <2> QED BY <2>1, NewestAndOldest
<1>2. {q \in S : Reader!Newer(q, r)} \in SUBSET Reader!Newest(n, S)
  BY <1>1
<1>3. Reader!Newest(n, S) \in SUBSET All
  BY NewestCounts
<1>4. IsFiniteSet(Reader!Newest(n, S)) /\ Cardinality(Reader!Newest(n, S)) \in Nat
  BY <1>3, NewerThanIt
<1>5. Cardinality({q \in S : Reader!Newer(q, r)}) <= Cardinality(Reader!Newest(n, S))
  BY <1>2, <1>4, PartOf
<1>6. r \in S /\ ~(Cardinality({q \in S : Reader!Newer(q, r)}) < n)
  BY NewestCounts
<1>7. Cardinality({q \in S : Reader!Newer(q, r)}) \in Nat
  BY NewerThanIt
<1> QED BY <1>4, <1>5, <1>6, <1>7

LEMMA PageIsNotEmpty ==
  ASSUME Reader!TimelineAssumption, NEW S \in SUBSET All, S # {}, NEW n \in Nat \ {0}
  PROVE  Reader!Newest(n, S) # {}
<1>1. PICK r \in S : \A q \in S : ~Reader!Newer(q, r)
  BY NewestAndOldest
<1>2. {q \in S : Reader!Newer(q, r)} = {}
  BY <1>1
<1>3. Cardinality({q \in S : Reader!Newer(q, r)}) = 0
  BY <1>2, FS_EmptySet
<1> QED BY <1>3, NewestCounts

LEMMA OldestIsLast ==
  ASSUME Reader!TimelineAssumption, NEW S \in SUBSET All, S # {}
  PROVE  /\ Reader!Oldest(S) \in S
         /\ \A q \in S : q = Reader!Oldest(S) \/ Reader!Newer(q, Reader!Oldest(S))
<1>1. \E r \in S : \A q \in S : ~Reader!Newer(r, q)
  BY NewestAndOldest
<1>2. Reader!Oldest(S) \in S /\ \A q \in S : ~Reader!Newer(Reader!Oldest(S), q)
  BY <1>1 DEF Reader!Oldest
<1> QED BY <1>2, RowsAreOrdered

-----------------------------------------------------------------------------
(* The list of events: a page                                              *)

PageAnswers == [ok : BOOLEAN, entries : SUBSET All, next : All \cup {None}]

\* The rows that belong into the list, and those with too many of their second.
Chosen == {r \in Reader!Recorded : Reader!Wanted(filter, r) /\ r.source \in Sources}
Crowd == {a \in All : Reader!Crowded(a)}

\* A page of the list from the row c on: in order, without a gap, and complete up to
\* its last row, which is the next cursor.  What was recorded since is newer.
PageStands(page, c, chosen, crowd) ==
    /\ page.entries \subseteq chosen
    /\ \A e \in page.entries : c # None => Reader!Newer(c, e)
    /\ page.next # None =>
         /\ page.next \in page.entries
         /\ \A e \in page.entries : e = page.next \/ Reader!Newer(e, page.next)
    /\ \A r \in chosen \ page.entries : c = None \/ Reader!Newer(c, r) =>
         \/ \A e \in page.entries : Reader!Newer(e, r)
         \/ c = None /\ \A e \in page.entries : Reader!Newer(r, e)
         \/ c # None /\ c \in crowd

LEMMA RecordedRows ==
  ASSUME Reader!TimelineAssumption, recorded \in 0..Len(Entries)
  PROVE  Reader!Recorded \in SUBSET All
BY DEF Reader!TimelineAssumption, Reader!Recorded, All

\* What a query leaves out past the cursor is older than PageSize rows that it returns,
\* unless too many rows of the second are returned again.
LEMMA QueryReaches ==
  ASSUME Reader!TimelineAssumption, recorded \in 0..Len(Entries), NEW source \in Sources,
         NEW c \in All \cup {None}, NEW r \in Chosen, r.source = source,
         c = None \/ Reader!Newer(c, r), r \notin Reader!Query(source, filter, c),
         c = None \/ c \notin Crowd
  PROVE  /\ \A q \in Reader!Query(source, filter, c) : Reader!Newer(q, r)
         /\ Cardinality({q \in Reader!Query(source, filter, c) : c = None \/ Reader!Newer(c, q)})
              >= EventsPerPage
<1> DEFINE Q == {q \in Reader!FromCursor(c) : q.source = source /\ Reader!Wanted(filter, q)}
           A == Reader!Newest(EventsPerPage + 1, Q)
           X == {q \in A : c = None \/ Reader!Newer(c, q)}
<1>1. /\ Reader!Query(source, filter, c) = A
      /\ EventsPerPage \in Nat \ {0} /\ EventsPerPage + 1 \in Nat
  BY DEF Reader!Query, Reader!TimelineAssumption
<1>2. Q \in SUBSET All /\ A \in SUBSET Q /\ A \in SUBSET All
  BY RecordedRows, NewestCounts, Zenon DEF Reader!FromCursor
<1>3. r \in Q
  <2>1. c = None \/ r.at <= c.at
    <3>1. CASE c # None
      <4>1. c \in All /\ r \in All /\ Reader!Newer(c, r)
        BY <3>1, RecordedRows DEF Chosen
      <4>2. c.at \in Nat /\ r.at \in Nat
        BY <4>1 DEF All, Reader!TimelineAssumption
      <4> QED BY <4>1, <4>2 DEF Reader!Newer
    <3> QED BY <3>1
  <2> QED BY <2>1 DEF Chosen, Reader!FromCursor
<1>4. r \in Q \ A
  BY <1>1, <1>3
<1>5. \A e \in A \ X : c # None /\ e \in Reader!Repeated(source, c)
  <2> SUFFICES ASSUME NEW e \in A \ X PROVE c # None /\ e \in Reader!Repeated(source, c)
    OBVIOUS
  <2>1. c # None /\ c \in All /\ ~Reader!Newer(c, e)
    OBVIOUS
  <2>2. e \in Reader!Recorded /\ e.at <= c.at /\ e.source = source /\ Reader!Wanted(filter, e)
    BY <1>2, <2>1, Zenon DEF Reader!FromCursor
  <2>3. e.at = c.at
    <3>1. e.at \in Nat /\ c.at \in Nat
      BY <1>2, <2>1 DEF All, Reader!TimelineAssumption
    <3> QED BY <2>1, <2>2, <3>1 DEF Reader!Newer
  <2> QED BY <2>1, <2>2, <2>3 DEF Reader!Repeated
<1>6. c # None => /\ Reader!Repeated(source, c) \in SUBSET All
                  /\ ~(Cardinality(Reader!Repeated(source, c)) > 1)
  BY RecordedRows, SameCount DEF Crowd, Reader!Crowded, Reader!Repeated
<1> HIDE DEF Q
<1>7. \A q \in A : Reader!Newer(q, r)
  BY <1>1, <1>2, <1>4, OlderThanPage
<1>8. Cardinality(A) >= EventsPerPage + 1
  BY <1>1, <1>2, <1>4, PageIsFull
<1> HIDE DEF A
<1>9. /\ IsFiniteSet(A) /\ Cardinality(A) \in Nat
      /\ X \in SUBSET A /\ IsFiniteSet(X) /\ Cardinality(X) \in Nat
  BY <1>2, RowsAreFinite, PartOf
<1>10. Cardinality(A) <= Cardinality(X) + 1
  <2>1. CASE A \ X = {}
    BY <1>9, <2>1, PartOf
  <2>2. CASE A \ X # {}
    <3>1. PICK e \in A \ X : TRUE
      BY <2>2
    <3>2. ASSUME NEW d \in A \ X, d # e PROVE FALSE
      <4>1. /\ d \in Reader!Repeated(source, c) /\ e \in Reader!Repeated(source, c)
            /\ Reader!Repeated(source, c) \in SUBSET All
            /\ ~(Cardinality(Reader!Repeated(source, c)) > 1)
        BY <1>5, <1>6, <3>1, <3>2
      <4>2. /\ IsFiniteSet(Reader!Repeated(source, c))
            /\ Cardinality(Reader!Repeated(source, c)) \in Nat
        BY <4>1, RowsAreFinite, PartOf
      <4>3. {d} \in SUBSET Reader!Repeated(source, c) /\ e \in Reader!Repeated(source, c) \ {d}
        BY <3>2, <4>1
      <4>4. Cardinality({d}) + 1 <= Cardinality(Reader!Repeated(source, c))
        BY <4>2, <4>3, OneMore
      <4>5. Cardinality({d}) = 1
        BY FS_Singleton
      <4> QED BY <4>1, <4>2, <4>4, <4>5
    <3>3. A = X \cup {e}
      BY <1>9, <3>1, <3>2
    <3> HIDE DEF X
    <3>4. Cardinality(X \cup {e}) <= Cardinality(X) + 1
      <4>1. IsFiniteSet(X) /\ Cardinality(X) \in Nat
        BY <1>9
      <4>2. Cardinality(X \cup {e}) = IF e \in X THEN Cardinality(X) ELSE Cardinality(X) + 1
        BY ONLY <4>1, FS_AddElement
      <4> QED BY ONLY <4>1, <4>2
    <3> QED BY <3>3, <3>4
  <2> QED BY <2>1, <2>2
<1>11. Cardinality(X) >= EventsPerPage
  <2> HIDE DEF X
  <2> QED BY <1>1, <1>8, <1>9, <1>10
<1> QED BY <1>1, <1>7, <1>11

\* The page that is served at a moment stands (loadMatchTimeline).
LEMMA PageIsSound ==
  ASSUME Reader!TimelineAssumption, recorded \in 0..Len(Entries), NEW c \in All \cup {None}
  PROVE  /\ Reader!Page(filter, c) \in PageAnswers
         /\ PageStands(Reader!Page(filter, c), c, Chosen, Crowd)
<1> DEFINE combined == Reader!Combined(filter, c)
           served == Reader!Newest(EventsPerPage, combined)
           page == Reader!Page(filter, c)
<1>1. /\ page.entries = served /\ page.ok = TRUE
      /\ page.next = IF Cardinality(combined) > EventsPerPage THEN Reader!Oldest(served) ELSE None
      /\ page = [ok |-> TRUE, entries |-> served, next |-> page.next]
  BY SameCount DEF Reader!Page
<1>2. combined \in SUBSET Chosen /\ \A e \in combined : c = None \/ Reader!Newer(c, e)
  <2>1. ASSUME NEW source \in {"score", "event"}, NEW e \in Reader!Query(source, filter, c)
        PROVE  e \in Chosen
    <3>1. source \in Sources
      BY <2>1 DEF Reader!Query
    <3>2. e \in Reader!FromCursor(c) /\ e.source = source /\ Reader!Wanted(filter, e)
      BY <3>1, NewestCounts DEF Reader!Query
    <3> QED BY <3>1, <3>2 DEF Reader!FromCursor, Chosen
  <2> QED BY <2>1 DEF Reader!Combined
<1>3. /\ Chosen \in SUBSET All /\ combined \in SUBSET All /\ served \in SUBSET combined
      /\ EventsPerPage \in Nat \ {0} /\ EventsPerPage \in Nat
  BY <1>2, RecordedRows, NewestCounts DEF Chosen, Reader!TimelineAssumption
<1>4. Cardinality(combined) > EventsPerPage =>
        /\ Reader!Oldest(served) \in served
        /\ \A e \in served : e = Reader!Oldest(served) \/ Reader!Newer(e, Reader!Oldest(served))
  <2> SUFFICES ASSUME Cardinality(combined) > EventsPerPage
               PROVE  /\ Reader!Oldest(served) \in served
                      /\ \A e \in served :
                           e = Reader!Oldest(served) \/ Reader!Newer(e, Reader!Oldest(served))
    OBVIOUS
  <2> HIDE DEF combined
  <2>1. combined # {}
    BY <1>3, FS_EmptySet
  <2>2. served # {}
    BY <1>3, <2>1, PageIsNotEmpty
  <2> HIDE DEF served
  <2> QED BY <1>3, <2>2, OldestIsLast
<1>5. ASSUME NEW r \in Chosen \ served, c = None \/ Reader!Newer(c, r)
      PROVE  (\A e \in served : Reader!Newer(e, r)) \/ (c # None /\ c \in Crowd)
  <2>1. CASE r \in combined
    <3> HIDE DEF combined
    <3> QED BY <1>3, <1>5, <2>1, OlderThanPage
  <2>2. CASE r \notin combined
    <3> SUFFICES ASSUME c = None \/ c \notin Crowd, NEW e \in served, ~Reader!Newer(e, r)
                 PROVE  FALSE
      OBVIOUS
    <3> DEFINE query == Reader!Query(r.source, filter, c)
               X == {q \in query : c = None \/ Reader!Newer(c, q)}
    <3>1. r.source \in Sources /\ r.source \in {"score", "event"}
      BY DEF Chosen, Reader!TimelineAssumption
    <3>2. X \in SUBSET combined
      BY <3>1 DEF Reader!Combined
    <3>3. r \notin query
      BY <1>5, <2>2, <3>1 DEF Reader!Combined
    <3>4. (\A q \in query : Reader!Newer(q, r)) /\ Cardinality(X) >= EventsPerPage
      BY <1>5, <3>1, <3>3, QueryReaches, Zenon
    <3> HIDE DEF combined, query
    <3>5. e \in combined /\ Cardinality({q \in combined : Reader!Newer(q, e)}) < EventsPerPage
      BY NewestCounts
    <3>6. Reader!Newer(r, e)
      BY <1>3, <2>2, <3>5, RowsAreOrdered
    <3>7. X \in SUBSET {q \in combined : Reader!Newer(q, e)}
      BY <1>3, <3>2, <3>4, <3>5, <3>6, RowsAreOrdered
    <3>8. /\ IsFiniteSet({q \in combined : Reader!Newer(q, e)})
          /\ Cardinality({q \in combined : Reader!Newer(q, e)}) \in Nat
      BY <1>3, NewerThanIt
    <3> HIDE DEF X
    <3>9. /\ Cardinality(X) <= Cardinality({q \in combined : Reader!Newer(q, e)})
          /\ Cardinality(X) \in Nat
      BY <3>7, <3>8, PartOf
    <3> QED BY <1>3, <3>4, <3>5, <3>8, <3>9
  <2> QED BY <2>1, <2>2
<1>6. page \in PageAnswers
  <2>1. page.next \in All \cup {None}
    BY <1>1, <1>3, <1>4
  <2> HIDE DEF page, served
  <2> QED BY <1>1, <1>3, <2>1 DEF PageAnswers
<1> HIDE DEF page, served, combined
<1>7. PageStands(page, c, Chosen, Crowd)
  BY <1>1, <1>2, <1>3, <1>4, <1>5 DEF PageStands
<1> QED BY <1>6, <1>7 DEF page

-----------------------------------------------------------------------------
(* The list of events: what the reader has                                 *)

Requested ==
    [filter : Filters, after : All \cup {None}, answer : PageAnswers \cup {None},
     stale : BOOLEAN]

ReaderTyped ==
    /\ recorded \in 0..Len(Entries)
    /\ filter \in Filters
    /\ shown \in Seq(SUBSET All)
    /\ next \in All \cup {None}
    /\ initial \in Requested \cup {None}
    /\ older \in [Fetches -> Requested \cup {None}]
    /\ mixed \in BOOLEAN

\* The pages follow each other down to the next cursor, without a gap.
ListStands ==
    /\ \A i \in DOMAIN shown : shown[i] \subseteq Chosen
    /\ \A i, j \in DOMAIN shown : i < j =>
         \A a \in shown[i], b \in shown[j] : Reader!Newer(a, b)
    /\ next # None =>
         /\ next \in Reader!Listed
         /\ \A e \in Reader!Listed : e = next \/ Reader!Newer(e, next)
    /\ \A r \in Chosen \ Reader!Listed :
         \/ \A e \in Reader!Listed : Reader!Newer(r, e)
         \/ \A e \in Reader!Listed : Reader!Newer(e, r)
         \/ \E a \in Reader!Listed \cap Crowd : Reader!Newer(a, r)

\* A request for older events that is of the filter chosen.
Current(s) == older[s] # None /\ ~older[s].stale

\* One request of this filter is on the way, for the first page or for the next.
RequestsStand ==
    /\ initial # None =>
         /\ loading /\ shown = <<>> /\ next = None
         /\ initial.filter = filter
         /\ initial.answer # None => PageStands(initial.answer, None, Chosen, Crowd)
    /\ \A s \in Fetches : Current(s) =>
         /\ initial = None /\ loading
         /\ older[s].filter = filter /\ older[s].after = next /\ next # None
         /\ older[s].answer # None => PageStands(older[s].answer, next, Chosen, Crowd)
         /\ \A t \in Fetches : Current(t) => t = s

ReaderInv == ReaderTyped /\ (~mixed => ListStands /\ RequestsStand)

LEMMA NoPageStands ==
  ASSUME NEW page, page.entries = {}, page.next = None, NEW c, NEW chosen, NEW crowd
  PROVE  PageStands(page, c, chosen, crowd)
BY DEF PageStands

LEMMA ReaderInitial ==
  ASSUME Reader!TimelineAssumption, Reader!Init
  PROVE  ReaderInv
<1> USE DEF Reader!Init, Reader!Asked
<1>1. ReaderTyped
  <2>1. initial \in Requested
    BY DEF Requested
  <2>2. Len(Entries) \in Nat /\ shown \in Seq(SUBSET All)
    BY DEF Reader!TimelineAssumption
  <2> QED BY <2>1, <2>2 DEF ReaderTyped
<1>2. ListStands
  BY DEF ListStands, Reader!Listed
<1>3. RequestsStand
  BY DEF RequestsStand, Current
<1> QED BY <1>1, <1>2, <1>3 DEF ReaderInv

\* A row that is recorded is newer than those there are.
LEMMA RecordKept ==
  ASSUME Reader!TimelineAssumption, ReaderInv, Reader!Record
  PROVE  ReaderInv'
<1> USE DEF ReaderInv
<1>1. /\ recorded' = recorded + 1 /\ recorded' \in 0..Len(Entries)
      /\ UNCHANGED <<filter, shown, next, loading, initial, older, mixed>>
  BY DEF Reader!Record, ReaderTyped, Reader!TimelineAssumption
<1>2. ReaderTyped'
  BY <1>1 DEF ReaderTyped
<1> DEFINE new == Entries[recorded + 1]
<1>3. /\ Reader!Recorded \in SUBSET All /\ new \in All
      /\ Reader!Recorded' = Reader!Recorded \cup {new}
      /\ \A r \in Reader!Recorded : Reader!Newer(new, r)
  <2>1. recorded \in Nat /\ recorded + 1 \in DOMAIN Entries /\ Len(Entries) \in Nat
        /\ DOMAIN Entries = 1..Len(Entries)
    BY <1>1 DEF ReaderTyped, Reader!TimelineAssumption
  <2>2. 1..(recorded + 1) = (1..recorded) \cup {recorded + 1}
    BY <2>1
  <2>3. Reader!Recorded' = Reader!Recorded \cup {new}
    BY <1>1, <2>2 DEF Reader!Recorded
  <2>4. \A i \in 1..recorded : i \in DOMAIN Entries /\ i < recorded + 1
    BY <1>1, <2>1
  <2>5. \A i \in 1..recorded : Reader!Newer(new, Entries[i])
    BY <2>1, <2>4 DEF Reader!TimelineAssumption
  <2> QED BY <2>1, <2>3, <2>4, <2>5 DEF All, Reader!Recorded
<1> HIDE DEF new
<1>4. Chosen \subseteq Chosen' /\ Chosen' \subseteq Chosen \cup {new}
      /\ Chosen \in SUBSET All
  BY <1>1, <1>3 DEF Chosen
<1>5. Crowd \subseteq Crowd'
  <2> SUFFICES ASSUME NEW a \in Crowd PROVE a \in Crowd'
    OBVIOUS
  <2>1. PICK source \in Sources : Cardinality(Reader!Repeated(source, a)) > 1
    BY SameCount DEF Crowd, Reader!Crowded
  <2> DEFINE before == Reader!Repeated(source, a)
             after == {r \in Reader!Recorded' : r.source = source /\ r.at = a.at
                                               /\ Reader!Wanted(filter, r) /\ ~Reader!Newer(a, r)}
  <2>2. before \in SUBSET after /\ after \in SUBSET All
    BY <1>3 DEF Reader!Repeated
  <2>3. Cardinality(before) > 1
    BY <2>1
  <2> HIDE DEF before, after
  <2>4. /\ IsFiniteSet(after) /\ Cardinality(after) \in Nat
        /\ Cardinality(before) \in Nat /\ Cardinality(before) <= Cardinality(after)
    BY <2>2, RowsAreFinite, PartOf
  <2>5. Cardinality(after) > 1
    BY <2>3, <2>4
  <2>6. Reader!Crowded(a)'
    <3>1. Reader!Cardinality(after) > 1
      BY <2>5, SameCount
    <3> QED BY <1>1, <3>1 DEF after, Reader!Crowded, Reader!Repeated
  <2> QED BY <2>6 DEF Crowd
<1>6. ASSUME NEW page, NEW c \in All \cup {None}, c = None \/ c \in Chosen,
             PageStands(page, c, Chosen, Crowd)
      PROVE  PageStands(page, c, Chosen', Crowd')
  <2>1. page.entries \subseteq Chosen
    BY <1>6 DEF PageStands
  <2>2. \A e \in page.entries : Reader!Newer(new, e)
    BY <1>3, <2>1 DEF Chosen
  <2>3. c # None => ~Reader!Newer(c, new)
    BY <1>3, <1>4, <1>6, RowsAreOrdered DEF Chosen
  <2> QED BY <1>4, <1>5, <1>6, <2>1, <2>2, <2>3 DEF PageStands
<1>7. ASSUME ~mixed PROVE ListStands' /\ RequestsStand'
  <2>1. ListStands /\ RequestsStand
    BY <1>7
  <2>2. Reader!Listed' = Reader!Listed /\ Reader!Listed \in SUBSET Chosen
    BY <1>1, <2>1 DEF Reader!Listed, ListStands
  <2>3. \A e \in Reader!Listed : Reader!Newer(new, e)
    BY <1>3, <2>2 DEF Chosen
  <2>4. ListStands'
    BY <1>1, <1>4, <1>5, <2>1, <2>2, <2>3 DEF ListStands
  <2>5. next # None => next \in Chosen
    BY <2>1, <2>2 DEF ListStands
  <2>6. \A s \in Fetches : Current(s)' <=> Current(s)
    BY <1>1 DEF Current
  <2>7. RequestsStand'
    <3>1. next \in All \cup {None} /\ None \in All \cup {None}
      BY DEF ReaderTyped
    <3>2. ASSUME initial' # None
          PROVE  /\ loading' /\ shown' = <<>> /\ next' = None /\ initial'.filter = filter'
                 /\ initial'.answer # None => PageStands(initial'.answer, None, Chosen', Crowd')
      BY <1>1, <1>6, <2>1, <3>1, <3>2 DEF RequestsStand
    <3>3. ASSUME NEW s \in Fetches, Current(s)
          PROVE  /\ initial' = None /\ loading' /\ older'[s].filter = filter'
                 /\ older'[s].after = next' /\ next' # None
                 /\ older'[s].answer # None
                      => PageStands(older'[s].answer, next', Chosen', Crowd')
                 /\ \A t \in Fetches : Current(t) => t = s
      BY <1>1, <1>6, <2>1, <2>5, <3>1, <3>3 DEF RequestsStand
    <3> QED BY <2>6, <3>2, <3>3 DEF RequestsStand
  <2> QED BY <2>4, <2>7
<1> QED BY <1>1, <1>2, <1>7

\* A new filter starts the list anew; the requests for older events go on, stale.
LEMMA SetFilterKept ==
  ASSUME Reader!TimelineAssumption, ReaderInv, NEW f \in Filters, Reader!SetFilter(f)
  PROVE  ReaderInv'
<1> USE DEF ReaderInv
<1>1. /\ filter' = f /\ shown' = <<>> /\ next' = None /\ loading' = TRUE /\ mixed' = FALSE
      /\ initial' = [filter |-> f, after |-> None, answer |-> None, stale |-> FALSE]
      /\ older' = [s \in Fetches |->
            IF older[s] = None THEN None ELSE [older[s] EXCEPT !.stale = TRUE]]
      /\ UNCHANGED recorded
  BY DEF Reader!SetFilter, Reader!Asked
<1>2. \A s \in Fetches : older'[s] \in Requested \cup {None} /\ ~Current(s)'
  <2> SUFFICES ASSUME NEW s \in Fetches
               PROVE  older'[s] \in Requested \cup {None} /\ ~Current(s)'
    OBVIOUS
  <2>1. CASE older[s] = None
    BY <1>1, <2>1 DEF Current
  <2>2. CASE older[s] # None
    <3>1. older[s] \in Requested /\ older'[s] = [older[s] EXCEPT !.stale = TRUE]
      BY <1>1, <2>2 DEF ReaderTyped
    <3>2. older'[s] \in Requested /\ older'[s].stale
      BY <3>1 DEF Requested
    <3> QED BY <3>2 DEF Current
  <2> QED BY <2>1, <2>2
<1>3. ReaderTyped'
  <2>1. initial' \in Requested /\ initial'.filter = f /\ initial'.answer = None
    BY <1>1 DEF Requested
  <2>2. older' \in [Fetches -> Requested \cup {None}]
    <3>1. \A s \in Fetches : older'[s] \in Requested \cup {None}
      BY <1>2
    <3>2. DOMAIN older' = Fetches /\ older' = [s \in Fetches |-> older'[s]]
      BY <1>1
    <3> QED BY <3>1, <3>2
  <2>3. shown' \in Seq(SUBSET All) /\ next' \in All \cup {None} /\ mixed' \in BOOLEAN
        /\ filter' \in Filters /\ recorded' \in 0..Len(Entries)
    <3>1. <<>> \in Seq(SUBSET All)
      OBVIOUS
    <3>2. filter' \in Filters /\ mixed' \in BOOLEAN /\ next' \in All \cup {None}
      BY <1>1
    <3>3. recorded' \in 0..Len(Entries)
      BY <1>1 DEF ReaderTyped
    <3> QED BY <1>1, <3>1, <3>2, <3>3
  <2> QED BY <2>1, <2>2, <2>3 DEF ReaderTyped
<1>4. ListStands'
  BY <1>1 DEF ListStands, Reader!Listed
<1>5. RequestsStand'
  BY <1>1, <1>2 DEF RequestsStand
<1> QED BY <1>3, <1>4, <1>5

\* Steps of the requests that leave the rows and the filter alone.
LEMMA SameChoice ==
  ASSUME UNCHANGED <<recorded, filter>>
  PROVE  Chosen' = Chosen /\ Crowd' = Crowd
BY DEF Chosen, Crowd, Reader!Recorded, Reader!Crowded, Reader!Repeated

LEMMA LoadKept ==
  ASSUME Reader!TimelineAssumption, ReaderInv, NEW s \in Fetches, Reader!LoadOlder(s)
  PROVE  ReaderInv'
<1> USE DEF ReaderInv
<1>1. /\ next # None /\ ~loading /\ older[s] = None /\ loading' = TRUE
      /\ older' = [older EXCEPT ![s] = [filter |-> filter, after |-> next, answer |-> None,
                                        stale |-> FALSE]]
      /\ UNCHANGED <<recorded, filter, shown, next, initial, mixed>>
      /\ Chosen' = Chosen /\ Crowd' = Crowd
  BY SameChoice DEF Reader!LoadOlder, Reader!Asked
<1> DEFINE asked == [filter |-> filter, after |-> next, answer |-> None, stale |-> FALSE]
<1>2. asked \in Requested
  BY DEF Requested, ReaderTyped
<1>3. /\ asked.filter = filter /\ asked.after = next /\ asked.answer = None /\ ~asked.stale
      /\ older' = [older EXCEPT ![s] = asked]
  BY <1>1
<1> HIDE DEF asked
<1>4. ReaderTyped'
  BY <1>1, <1>2, <1>3 DEF ReaderTyped
<1>5. ASSUME ~mixed PROVE ListStands' /\ RequestsStand'
  <2>1. ListStands'
    BY <1>1, <1>5 DEF ListStands, Reader!Listed
  <2>2. initial = None /\ \A t \in Fetches : ~Current(t)
    BY <1>1, <1>5 DEF RequestsStand
  <2>3. older'[s] = asked /\ \A t \in Fetches \ {s} : ~Current(t)'
    BY <1>3, <2>2 DEF ReaderTyped, Current
  <2> QED BY <1>1, <1>3, <2>1, <2>2, <2>3 DEF RequestsStand
<1> QED BY <1>1, <1>4, <1>5

LEMMA PageTyped ==
  ASSUME Reader!TimelineAssumption, recorded \in 0..Len(Entries), NEW c, NEW f
  PROVE  Reader!Page(f, c) \in PageAnswers
<1> DEFINE combined == Reader!Combined(f, c)
           served == Reader!Newest(EventsPerPage, combined)
           page == Reader!Page(f, c)
<1>1. page = [ok |-> TRUE, entries |-> served,
              next |-> IF Cardinality(combined) > EventsPerPage THEN Reader!Oldest(served) ELSE None]
  BY SameCount DEF Reader!Page
<1>2. combined \in SUBSET All
  <2>1. \A source \in {"score", "event"} : Reader!Query(source, f, c) \in SUBSET Reader!Recorded
    BY NewestCounts, Zenon DEF Reader!Query, Reader!FromCursor
  <2> QED BY <2>1, RecordedRows DEF Reader!Combined
<1>3. served \in SUBSET combined /\ EventsPerPage \in Nat \ {0}
  BY NewestCounts DEF Reader!TimelineAssumption
<1> HIDE DEF combined
<1>4. Cardinality(combined) > EventsPerPage => Reader!Oldest(served) \in served
  <2> SUFFICES ASSUME Cardinality(combined) > EventsPerPage
               PROVE  Reader!Oldest(served) \in served
    OBVIOUS
  <2>1. combined # {}
    BY <1>3, FS_EmptySet
  <2>2. served # {}
    BY <1>2, <1>3, <2>1, PageIsNotEmpty
  <2> HIDE DEF served
  <2> QED BY <1>2, <1>3, <2>2, OldestIsLast
<1> HIDE DEF served, page
<1>5. page \in PageAnswers
  BY <1>1, <1>2, <1>3, <1>4 DEF PageAnswers
<1> QED BY <1>5 DEF page

\* What the route may answer stands.
LEMMA AnswersStand ==
  ASSUME Reader!TimelineAssumption, recorded \in 0..Len(Entries), NEW c \in All \cup {None},
         NEW f, NEW answer \in Reader!Answers(f, c)
  PROVE  /\ answer \in PageAnswers
         /\ f = filter => PageStands(answer, c, Chosen, Crowd)
<1>1. CASE answer = Reader!Page(f, c)
  BY <1>1, PageTyped, PageIsSound
<1>2. CASE \E ok \in BOOLEAN : answer = [ok |-> ok, entries |-> {}, next |-> None]
  <2>1. answer \in PageAnswers
    BY <1>2 DEF PageAnswers
  <2>2. answer.entries = {} /\ answer.next = None
    BY <1>2
  <2> QED BY <2>1, <2>2, NoPageStands
<1> QED BY <1>1, <1>2 DEF Reader!Answers

LEMMA ServeKept ==
  ASSUME Reader!TimelineAssumption, ReaderInv,
         Reader!ServeInitial \/ \E s \in Fetches : Reader!ServeOlder(s)
  PROVE  ReaderInv'
<1> USE DEF ReaderInv
<1>1. /\ UNCHANGED <<recorded, filter, shown, next, loading, mixed>>
      /\ Chosen' = Chosen /\ Crowd' = Crowd /\ Reader!Listed' = Reader!Listed
      /\ recorded \in 0..Len(Entries) /\ None \in All \cup {None}
  BY SameChoice DEF Reader!ServeInitial, Reader!ServeOlder, ReaderTyped, Reader!Listed
<1>2. ListStands => ListStands'
  BY <1>1 DEF ListStands
<1>3. CASE Reader!ServeInitial
  <2>1. PICK answer \in Reader!Answers(initial.filter, None) :
          initial' = [initial EXCEPT !.answer = answer]
    BY <1>3 DEF Reader!ServeInitial
  <2>2. initial # None /\ initial \in Requested /\ UNCHANGED older
    BY <1>3 DEF Reader!ServeInitial, ReaderTyped
  <2>3. /\ answer \in PageAnswers
        /\ initial.filter = filter => PageStands(answer, None, Chosen, Crowd)
    BY <1>1, AnswersStand
  <2>4. initial' \in Requested /\ initial'.filter = initial.filter /\ initial'.answer = answer
    BY <2>1, <2>2, <2>3 DEF Requested
  <2>5. ReaderTyped'
    BY <1>1, <2>2, <2>4 DEF ReaderTyped
  <2>6. ~mixed /\ RequestsStand => RequestsStand'
    BY <1>1, <2>2, <2>3, <2>4 DEF RequestsStand, Current
  <2> QED BY <1>1, <1>2, <2>5, <2>6
<1>4. ASSUME NEW s \in Fetches, Reader!ServeOlder(s) PROVE ReaderInv'
  <2>1. PICK answer \in Reader!Answers(older[s].filter, older[s].after) :
          older' = [older EXCEPT ![s].answer = answer]
    BY <1>4 DEF Reader!ServeOlder
  <2>2. older[s] # None /\ older[s] \in Requested /\ UNCHANGED initial
    BY <1>4 DEF Reader!ServeOlder, ReaderTyped
  <2>3. older[s].after \in All \cup {None}
    BY <2>2 DEF Requested
  <2>4. /\ answer \in PageAnswers
        /\ older[s].filter = filter => PageStands(answer, older[s].after, Chosen, Crowd)
    BY <1>1, <2>3, AnswersStand
  <2> DEFINE served == [older[s] EXCEPT !.answer = answer]
  <2>5. /\ served \in Requested /\ served.filter = older[s].filter
        /\ served.after = older[s].after /\ served.answer = answer
        /\ served.stale = older[s].stale
        /\ older' = [older EXCEPT ![s] = served]
    BY <2>1, <2>2, <2>4 DEF Requested
  <2> HIDE DEF served
  <2>6. ReaderTyped'
    BY <1>1, <2>2, <2>5 DEF ReaderTyped
  <2>7. /\ older'[s] = served /\ \A t \in Fetches \ {s} : older'[t] = older[t]
    BY <2>5 DEF ReaderTyped
  <2>8. \A t \in Fetches : Current(t)' => Current(t)
    BY <2>2, <2>5, <2>7 DEF Current
  <2>9. ASSUME RequestsStand PROVE RequestsStand'
    <3>1. initial' # None => /\ loading' /\ shown' = <<>> /\ next' = None
                             /\ initial'.filter = filter'
                             /\ initial'.answer # None
                                  => PageStands(initial'.answer, None, Chosen', Crowd')
      BY <1>1, <2>2, <2>9 DEF RequestsStand
    <3>2. ASSUME NEW t \in Fetches, Current(t)'
          PROVE  /\ initial' = None /\ loading' /\ older'[t].filter = filter'
                 /\ older'[t].after = next' /\ next' # None
                 /\ older'[t].answer # None
                      => PageStands(older'[t].answer, next', Chosen', Crowd')
                 /\ \A u \in Fetches : Current(u)' => u = t
      <4>1. Current(t)
        BY <2>8, <3>2
      <4>2. CASE t = s
        BY <1>1, <2>2, <2>4, <2>5, <2>7, <2>8, <2>9, <4>1, <4>2 DEF RequestsStand
      <4>3. CASE t # s
        BY <1>1, <2>2, <2>7, <2>8, <2>9, <4>1, <4>3 DEF RequestsStand
      <4> QED BY <4>2, <4>3
    <3> QED BY <3>1, <3>2 DEF RequestsStand
  <2> QED BY <1>1, <1>2, <2>6, <2>9
<1> QED BY <1>3, <1>4

LEMMA TakeInitialKept ==
  ASSUME Reader!TimelineAssumption, ReaderInv, Reader!TakeInitial
  PROVE  ReaderInv'
<1> USE DEF ReaderInv
<1>1. /\ initial # None /\ initial.answer # None /\ initial' = None /\ loading' = FALSE
      /\ UNCHANGED <<recorded, filter, older, mixed>> /\ Chosen' = Chosen /\ Crowd' = Crowd
      /\ initial \in Requested
  BY SameChoice DEF Reader!TakeInitial, ReaderTyped
<1> DEFINE page == initial.answer
<1>2. page \in PageAnswers /\ page.entries \in SUBSET All /\ page.next \in All \cup {None}
  BY <1>1 DEF Requested, PageAnswers
<1>3. CASE ~page.ok
  <2>1. UNCHANGED <<shown, next>> /\ Reader!Listed' = Reader!Listed
    BY <1>3 DEF Reader!TakeInitial, Reader!Listed
  <2>2. ReaderTyped'
    BY <1>1, <2>1 DEF ReaderTyped
  <2>3. ListStands => ListStands'
    BY <1>1, <2>1 DEF ListStands
  <2>4. RequestsStand => RequestsStand'
    BY <1>1, <2>1 DEF RequestsStand, Current
  <2> QED BY <1>1, <2>2, <2>3, <2>4
<1>4. CASE page.ok
  <2>1. shown' = <<page.entries>> /\ next' = page.next
    BY <1>4 DEF Reader!TakeInitial
  <2> HIDE DEF page
  <2>2. DOMAIN shown' = {1} /\ shown'[1] = page.entries /\ shown' \in Seq(SUBSET All)
    BY <1>2, <2>1
  <2>3. Reader!Listed' = page.entries
    BY <2>2 DEF Reader!Listed
  <2>4. ReaderTyped'
    BY <1>1, <1>2, <2>1, <2>2 DEF ReaderTyped
  <2>5. ASSUME ~mixed PROVE ListStands' /\ RequestsStand'
    <3>1. PageStands(page, None, Chosen, Crowd) /\ \A s \in Fetches : ~Current(s)
      BY <1>1, <2>5 DEF RequestsStand, page
    <3>2. ListStands'
      BY <1>1, <2>1, <2>2, <2>3, <3>1 DEF ListStands, PageStands
    <3>3. RequestsStand'
      BY <1>1, <3>1 DEF RequestsStand, Current
    <3> QED BY <3>2, <3>3
  <2> QED BY <1>1, <2>4, <2>5
<1> QED BY <1>3, <1>4

LEMMA TakeOlderKept ==
  ASSUME Reader!TimelineAssumption, ReaderInv, NEW s \in Fetches, Reader!TakeOlder(s)
  PROVE  ReaderInv'
<1> USE DEF ReaderInv
<1>1. /\ older[s] # None /\ older[s].answer # None /\ older[s] \in Requested
      /\ loading' = FALSE /\ older' = [older EXCEPT ![s] = None]
      /\ mixed' = (mixed \/ older[s].stale)
      /\ UNCHANGED <<recorded, filter, initial>> /\ Chosen' = Chosen /\ Crowd' = Crowd
  BY SameChoice DEF Reader!TakeOlder, ReaderTyped
<1> DEFINE page == older[s].answer
<1>2. page \in PageAnswers /\ page.entries \in SUBSET All /\ page.next \in All \cup {None}
      /\ mixed' \in BOOLEAN
  BY <1>1 DEF Requested, PageAnswers, ReaderTyped
<1>3. /\ older' \in [Fetches -> Requested \cup {None}]
      /\ older'[s] = None /\ \A t \in Fetches \ {s} : older'[t] = older[t]
  BY <1>1 DEF ReaderTyped
<1>4. page.ok => shown' = Append(shown, page.entries \ Reader!Listed) /\ next' = page.next
  BY DEF Reader!TakeOlder, Reader!Unknown
<1>5. ~page.ok => UNCHANGED <<shown, next>>
  BY DEF Reader!TakeOlder
<1> HIDE DEF page
<1>6. ReaderTyped'
  <2>1. page.entries \ Reader!Listed \in SUBSET All
    BY <1>2
  <2>2. shown' \in Seq(SUBSET All) /\ next' \in All \cup {None}
    BY <1>2, <1>4, <1>5, <2>1 DEF ReaderTyped, PageAnswers
  <2> QED BY <1>1, <1>2, <1>3, <2>2 DEF ReaderTyped
<1>7. ASSUME ~mixed' PROVE ListStands' /\ RequestsStand'
  <2>1. ~mixed /\ Current(s) /\ ListStands /\ RequestsStand
    BY <1>1, <1>7 DEF Current
  <2>2. /\ initial = None /\ next # None /\ PageStands(page, next, Chosen, Crowd)
        /\ \A t \in Fetches : Current(t) => t = s
    BY <1>1, <2>1 DEF RequestsStand, page
  <2>3. RequestsStand'
    <3>1. \A t \in Fetches : ~Current(t)'
      BY <1>3, <2>2 DEF Current
    <3> QED BY <1>1, <2>2, <3>1 DEF RequestsStand
  <2>4. CASE ~page.ok
    <3>1. Reader!Listed' = Reader!Listed
      BY <1>5, <2>4 DEF Reader!Listed
    <3> QED BY <1>1, <1>5, <2>1, <2>3, <2>4, <3>1 DEF ListStands
  <2>5. CASE page.ok
    <3> DEFINE served == page.entries
    <3>1. /\ next \in Reader!Listed /\ Reader!Listed \in SUBSET Chosen /\ Chosen \in SUBSET All
          /\ \A e \in Reader!Listed : e = next \/ Reader!Newer(e, next)
      BY <2>1, <2>2, RecordedRows DEF ListStands, Reader!Listed, Chosen, ReaderTyped
    <3>2. /\ served \in SUBSET Chosen
          /\ \A e \in served : Reader!Newer(next, e)
      BY <2>2 DEF PageStands
    <3>3. \A a \in Reader!Listed, e \in served : Reader!Newer(a, e)
      BY <3>1, <3>2, RowsAreOrdered
    <3>4. served \ Reader!Listed = served
      BY <3>1, <3>2, <3>3, RowsAreOrdered
    <3>5. /\ Len(shown) \in Nat /\ DOMAIN shown = 1..Len(shown)
          /\ DOMAIN shown' = 1..(Len(shown) + 1)
          /\ \A i \in DOMAIN shown : shown'[i] = shown[i]
          /\ shown'[Len(shown) + 1] = served /\ next' = page.next
      <4>1. shown' = Append(shown, served) /\ next' = page.next /\ served \in SUBSET All
        BY <1>2, <1>4, <2>5, <3>4
      <4> HIDE DEF served
      <4> QED BY <4>1 DEF ReaderTyped
    <3> HIDE DEF served
    <3>6. Reader!Listed' = Reader!Listed \cup served
      BY <3>5 DEF Reader!Listed
    <3>7. \A i \in DOMAIN shown' : shown'[i] \subseteq Chosen'
      BY <1>1, <2>1, <3>2, <3>5 DEF ListStands
    <3>8. ASSUME NEW i \in DOMAIN shown', NEW j \in DOMAIN shown', i < j,
                 NEW a \in shown'[i], NEW b \in shown'[j]
          PROVE  Reader!Newer(a, b)
      <4>1. i \in DOMAIN shown
        BY <3>5, <3>8
      <4>2. CASE j \in DOMAIN shown
        BY <2>1, <3>5, <3>8, <4>1, <4>2 DEF ListStands
      <4>3. CASE j = Len(shown) + 1
        <5>1. a \in Reader!Listed /\ b \in served
          BY <3>5, <4>1, <4>3 DEF Reader!Listed
        <5> QED BY <3>3, <5>1
      <4> QED BY <3>5, <4>2, <4>3
    <3>9. ASSUME next' # None
          PROVE  /\ next' \in Reader!Listed'
                 /\ \A e \in Reader!Listed' : e = next' \/ Reader!Newer(e, next')
      BY <2>2, <3>3, <3>5, <3>6, <3>9 DEF PageStands, served
    <3>10. ASSUME NEW r \in Chosen \ Reader!Listed'
           PROVE  \/ \A e \in Reader!Listed' : Reader!Newer(r, e)
                  \/ \A e \in Reader!Listed' : Reader!Newer(e, r)
                  \/ \E a \in Reader!Listed' \cap Crowd : Reader!Newer(a, r)
      <4>1. r \in Chosen \ Reader!Listed /\ r \in Chosen \ served /\ r \in All
        BY <3>1, <3>6
      <4>2. CASE \A e \in Reader!Listed : Reader!Newer(r, e)
        <5>1. Reader!Newer(r, next)
          BY <3>1, <4>2
        <5>2. \A e \in served : Reader!Newer(r, e)
          BY <3>1, <3>2, <4>1, <5>1, RowsAreOrdered
        <5> QED BY <3>6, <4>2, <5>2
      <4>3. CASE \A e \in Reader!Listed : Reader!Newer(e, r)
        <5>1. Reader!Newer(next, r)
          BY <3>1, <4>3
        <5>2. (\A e \in served : Reader!Newer(e, r)) \/ next \in Crowd
          BY <2>2, <4>1, <5>1 DEF PageStands, served
        <5> QED BY <3>1, <3>6, <4>3, <5>1, <5>2
      <4>4. CASE \E a \in Reader!Listed \cap Crowd : Reader!Newer(a, r)
        BY <3>6, <4>4
      <4> QED BY <2>1, <4>1, <4>2, <4>3, <4>4 DEF ListStands
    <3>11. ListStands'
      BY <1>1, <3>7, <3>8, <3>9, <3>10 DEF ListStands
    <3> QED BY <2>3, <3>11
  <2> QED BY <2>4, <2>5
<1> QED BY <1>6, <1>7

LEMMA ReaderKept ==
  ASSUME Reader!TimelineAssumption, ReaderInv, [Reader!Next]_(Reader!vars)
  PROVE  ReaderInv'
<1>1. CASE Reader!Record
  BY <1>1, RecordKept
<1>2. ASSUME NEW f \in Filters, Reader!SetFilter(f) PROVE ReaderInv'
  BY <1>2, SetFilterKept
<1>3. CASE Reader!ServeInitial \/ \E s \in Fetches : Reader!ServeOlder(s)
  BY <1>3, ServeKept
<1>4. CASE Reader!TakeInitial
  BY <1>4, TakeInitialKept
<1>5. ASSUME NEW s \in Fetches, Reader!LoadOlder(s) PROVE ReaderInv'
  BY <1>5, LoadKept
<1>6. ASSUME NEW s \in Fetches, Reader!TakeOlder(s) PROVE ReaderInv'
  BY <1>6, TakeOlderKept
<1>7. CASE UNCHANGED Reader!vars
  <2>1. /\ UNCHANGED <<recorded, filter, shown, next, loading, initial, older, mixed>>
        /\ Chosen' = Chosen /\ Crowd' = Crowd /\ Reader!Listed' = Reader!Listed
    BY <1>7, SameChoice DEF Reader!vars, Reader!Listed
  <2> QED BY <2>1 DEF ReaderInv, ReaderTyped, ListStands, RequestsStand, Current
<1> QED BY <1>1, <1>2, <1>3, <1>4, <1>5, <1>6, <1>7 DEF Reader!Next

LEMMA ReaderInvariant == SiteSpec => [](part = "timeline" => ReaderInv)
<1>1. SiteInit => (part = "timeline" => ReaderInv)
  BY SitePartsAssumption, ReaderInitial DEF SiteInit
<1>2. (part = "timeline" => ReaderInv) /\ [SiteNext]_siteVars => (part = "timeline" => ReaderInv)'
  BY SitePartsAssumption, PartAtWork, ReaderKept
<1> QED BY <1>1, <1>2, PTL DEF SiteSpec

\* The list of events has what the filter wants, in order and without a gap, for any
\* rows, filters and sizes of a page: PlayByPlayHasNoGaps (match-timeline.ts,
\* MatchTimeline.tsx).
THEOREM NoGaps == SiteSpec => []PlayByPlayHasNoGaps
<1>1. (part = "timeline" => ReaderInv) => PlayByPlayHasNoGaps
  <2> SUFFICES ASSUME part = "timeline", ReaderInv, ~mixed
               PROVE  /\ \A r \in Reader!Listed : Reader!Wanted(filter, r)
                      /\ \A i, j \in DOMAIN shown : i < j =>
                           \A a \in shown[i], b \in shown[j] : Reader!Newer(a, b)
                      /\ \A r \in Reader!Recorded :
                           Reader!Wanted(filter, r) /\ r.source \in Sources =>
                             \/ r \in Reader!Listed
                             \/ \A a \in Reader!Listed : Reader!Newer(r, a)
                             \/ \A a \in Reader!Listed : Reader!Newer(a, r)
                             \/ \E a \in Reader!Listed : Reader!Newer(a, r) /\ Reader!Crowded(a)
    BY DEF PlayByPlayHasNoGaps, Reader!PlayByPlayHasNoGaps
  <2>1. ListStands
    BY DEF ReaderInv
  <2>2. \A r \in Reader!Listed : r \in Chosen
    BY <2>1 DEF ListStands, Reader!Listed
  <2>3. \A a \in Crowd : Reader!Crowded(a)
    BY DEF Crowd
  <2>4. \A r \in Reader!Recorded : Reader!Wanted(filter, r) /\ r.source \in Sources => r \in Chosen
    BY DEF Chosen
  <2> QED BY <2>1, <2>2, <2>3, <2>4 DEF ListStands, Chosen
<1> QED BY <1>1, ReaderInvariant, PTL

-----------------------------------------------------------------------------
(* The simulation: its requests and their rows                             *)

Records == Nat \X Nat
AnyRequest ==
    [do : {"none", "start", "stop"}, id : Nat, matches : Seq(Records), attached : BOOLEAN]

Starter(r) == r.do = "start"
Stopper(r) == r.do = "stop"

\* The rows that a stop has deleted.
Gone(r) == MatchCount - Len(r.matches)

\* The matches of a start, from a slot on.
Span(list, d, start) == \A i \in 1..Len(list) : list[i] = <<i + d, start>>

ControlTyped ==
    /\ sim \in [running : BOOLEAN, paused : BOOLEAN, matches : Seq(Records)]
    /\ rows \in [1..MatchCount -> Nat]
    /\ request \in [Clients -> AnyRequest]
    /\ starts \in Nat
    /\ overtaken \in BOOLEAN /\ failed \in BOOLEAN

\* At most one start waits, and the rows are those it has made.
StartStands ==
    \A c \in Clients : Starter(request[c]) =>
        /\ request[c].attached /\ request[c].id = starts /\ starts > 0
        /\ Len(request[c].matches) <= MatchCount /\ Span(request[c].matches, 0, starts)
        /\ sim.matches = <<>>
        /\ \A slot \in 1..MatchCount :
             rows[slot] = IF slot <= Len(request[c].matches) THEN starts ELSE 0
        /\ \A other \in Clients : Starter(request[other]) => other = c

\* A stop has the matches of one start left; at most one has deleted any, of the
\* matches that are served.
StopsStand ==
    \A c \in Clients : Stopper(request[c]) =>
        /\ Len(request[c].matches) <= MatchCount
        /\ \E j \in 1..starts :
             /\ Span(request[c].matches, Gone(request[c]), j)
             /\ (\E other \in Clients : Starter(request[other])) => j < starts
             /\ Gone(request[c]) > 0 => j = starts
        /\ Gone(request[c]) > 0 =>
             /\ sim.matches # <<>>
             /\ \A slot \in 1..MatchCount :
                  rows[slot] = IF slot <= Gone(request[c]) THEN 0 ELSE starts
             /\ \A other \in Clients :
                  Stopper(request[other]) /\ Gone(request[other]) > 0 => other = c

\* The matches that are served are those of the last start, with all their rows
\* unless a stop is at work; without matches and without a start there is no row.
MatchesStand ==
    /\ sim.running <=> sim.matches # <<>>
    /\ sim.matches # <<>> =>
         /\ starts > 0 /\ Len(sim.matches) = MatchCount /\ Span(sim.matches, 0, starts)
         /\ (\A c \in Clients : ~(Stopper(request[c]) /\ Gone(request[c]) > 0)) =>
              \A slot \in 1..MatchCount : rows[slot] = starts
    /\ (sim.matches = <<>> /\ \A c \in Clients : ~Starter(request[c])) =>
         \A slot \in 1..MatchCount : rows[slot] = 0

ControlInv ==
    /\ ControlTyped
    /\ ~failed /\ ~overtaken => StartStands /\ StopsStand /\ MatchesStand

LEMMA Lists ==
  ASSUME Control!ControlAssumption
  PROVE  /\ MatchCount \in Nat \ {0}
         /\ <<>> \in Seq(Records) /\ Len(<<>>) = 0
         /\ \A s \in Seq(Records) : Len(s) \in Nat /\ (s = <<>> <=> Len(s) = 0)
         /\ Control!NoRequest \in AnyRequest /\ Control!Slots = 1..MatchCount
<1>1. <<>> \in Seq(Records) /\ Len(<<>>) = 0
  OBVIOUS
<1>2. \A s \in Seq(Records) : Len(s) \in Nat /\ (s = <<>> <=> Len(s) = 0)
  OBVIOUS
<1> QED BY <1>1, <1>2 DEF Control!ControlAssumption, Control!NoRequest, AnyRequest, Control!Slots

LEMMA ControlInitial == Control!ControlAssumption /\ Control!Init => ControlInv
<1> SUFFICES ASSUME Control!ControlAssumption, Control!Init PROVE ControlInv
  OBVIOUS
<1>1. /\ sim = [running |-> FALSE, paused |-> FALSE, matches |-> <<>>]
      /\ rows = [slot \in 1..MatchCount |-> 0]
      /\ request = [c \in Clients |-> Control!NoRequest]
      /\ starts = 0 /\ ~overtaken /\ ~failed /\ overtaken \in BOOLEAN /\ failed \in BOOLEAN
  BY Lists DEF Control!Init, Control!CreateSimState, Control!NoRow
<1>2. ControlTyped
  BY <1>1, Lists DEF ControlTyped
<1>3. \A c \in Clients : ~Starter(request[c]) /\ ~Stopper(request[c])
  BY <1>1 DEF Control!NoRequest, Starter, Stopper
<1>4. sim.matches = <<>> /\ ~sim.running /\ \A slot \in 1..MatchCount : rows[slot] = 0
  BY <1>1
<1> QED BY <1>2, <1>3, <1>4 DEF ControlInv, StartStands, StopsStand, MatchesStand

\* Replacing the state leaves the requests as they are when no start waits.
LEMMA ReplaceKeepsRequests ==
  ASSUME ControlTyped, NEW state, NEW c \in Clients, NEW r \in AnyRequest,
         Control!Replace(state, c, r)
  PROVE  /\ sim' = state
         /\ request' \in [Clients -> AnyRequest] /\ request'[c] = r
         /\ overtaken' \in BOOLEAN
         /\ ~overtaken' =>
              /\ ~overtaken
              /\ \A other \in Clients \ {c} :
                   ~Starter(request[other]) /\ request'[other] = request[other]
<1>1. /\ sim' = state /\ request' = [Control!Detached EXCEPT ![c] = r]
      /\ overtaken' = (overtaken \/ \E other \in Clients \ {c} : Starter(request[other]))
  BY DEF Control!Replace, Control!Starting, Starter
<1>2. /\ Control!Detached \in [Clients -> AnyRequest]
      /\ \A other \in Clients :
           ~Starter(request[other]) => Control!Detached[other] = request[other]
  BY DEF Control!Detached, Control!Starting, Starter, ControlTyped, AnyRequest
<1> QED BY <1>1, <1>2 DEF ControlTyped

LEMMA StartKept ==
  ASSUME Control!ControlAssumption, ControlInv, NEW c \in Clients, Control!Start(c)
  PROVE  ControlInv'
<1> DEFINE r == [do |-> "start", id |-> starts + 1, matches |-> <<>>, attached |-> TRUE]
<1>1. /\ ~Starter(request[c]) /\ ~Stopper(request[c]) /\ ~sim.running
      /\ starts' = starts + 1 /\ UNCHANGED <<rows, failed>>
      /\ Control!Replace(Control!CreateSimState, c, r)
  BY DEF Control!Start, Control!Idle, Control!MayStart, Starter, Stopper
<1>2. ControlTyped
  BY DEF ControlInv
<1>3. r \in AnyRequest /\ r.do = "start" /\ r.id = starts + 1 /\ r.matches = <<>> /\ r.attached
  BY <1>2, Lists DEF AnyRequest, ControlTyped
<1> HIDE DEF r
<1>4. /\ sim' = [running |-> FALSE, paused |-> FALSE, matches |-> <<>>]
      /\ request' \in [Clients -> AnyRequest] /\ request'[c] = r /\ overtaken' \in BOOLEAN
      /\ ~overtaken' =>
              /\ ~overtaken
              /\ \A other \in Clients \ {c} :
                   ~Starter(request[other]) /\ request'[other] = request[other]
  BY <1>1, <1>2, <1>3, ReplaceKeepsRequests DEF Control!CreateSimState
<1>5. ControlTyped'
  BY <1>1, <1>2, <1>4, Lists DEF ControlTyped
<1>6. ASSUME ~failed', ~overtaken' PROVE StartStands' /\ StopsStand' /\ MatchesStand'
  <2>1. StartStands /\ StopsStand /\ MatchesStand
    BY <1>1, <1>4, <1>6 DEF ControlInv
  <2>2. \A other \in Clients : ~Starter(request[other])
    BY <1>1, <1>4, <1>6
  <2>3. sim.matches = <<>> /\ \A slot \in 1..MatchCount : rows[slot] = 0
    BY <1>1, <2>1, <2>2 DEF MatchesStand
  <2>4. /\ sim'.matches = <<>> /\ ~sim'.running /\ starts' > 0 /\ starts' \in Nat
        /\ Starter(request'[c]) /\ ~Stopper(request'[c])
        /\ \A other \in Clients \ {c} : ~Starter(request'[other])
    BY <1>1, <1>2, <1>3, <1>4, <1>6, <2>2 DEF Starter, Stopper, ControlTyped
  <2>5. StartStands'
    <3>1. /\ request'[c].attached /\ request'[c].id = starts' /\ Len(request'[c].matches) = 0
      BY <1>1, <1>3, <1>4, Lists
    <3> QED BY <1>1, <2>3, <2>4, <3>1, Lists DEF StartStands, Span
  <2>6. StopsStand'
    <3> SUFFICES ASSUME NEW b \in Clients, Stopper(request'[b])
                 PROVE  /\ Len(request'[b].matches) <= MatchCount
                        /\ \E j \in 1..starts' :
                             /\ Span(request'[b].matches, Gone(request'[b]), j)
                             /\ j < starts'
                             /\ Gone(request'[b]) > 0 => j = starts'
                        /\ ~(Gone(request'[b]) > 0)
      BY DEF StopsStand
    <3>1. b # c /\ request'[b] = request[b]
      BY <1>4, <1>6, <2>4
    <3>2. ~(Gone(request[b]) > 0) /\ Len(request[b].matches) <= MatchCount
      BY <2>1, <2>3, <3>1 DEF StopsStand
    <3>3. PICK j \in 1..starts : Span(request[b].matches, Gone(request[b]), j)
      BY <2>1, <3>1 DEF StopsStand
    <3>4. j \in 1..starts' /\ j < starts'
      BY <1>1, <1>2 DEF ControlTyped
    <3> QED BY <3>1, <3>2, <3>3, <3>4
  <2>7. MatchesStand'
    BY <2>4 DEF MatchesStand
  <2> QED BY <2>5, <2>6, <2>7
<1> QED BY <1>5, <1>6 DEF ControlInv

LEMMA CreateRowKept ==
  ASSUME Control!ControlAssumption, ControlInv, NEW c \in Clients, Control!CreateRow(c)
  PROVE  ControlInv'
<1> DEFINE list == request[c].matches
           slot == Len(list) + 1
           longer == Append(list, <<slot, request[c].id>>)
<1>1. /\ Starter(request[c]) /\ slot \in 1..MatchCount
      /\ IF rows[slot] = 0
         THEN /\ rows' = [rows EXCEPT ![slot] = request[c].id]
              /\ request' = [request EXCEPT ![c].matches = longer]
         ELSE Control!Done(c) /\ UNCHANGED rows
      /\ UNCHANGED <<sim, starts, overtaken, failed>>
  BY Lists DEF Control!CreateRow, Control!Starting, Starter, Control!NoRow
<1>2. ControlTyped
  BY DEF ControlInv
<1>3. /\ request[c] \in AnyRequest /\ list \in Seq(Records) /\ slot \in Nat
      /\ <<slot, request[c].id>> \in Records
  BY <1>2, Lists DEF ControlTyped, AnyRequest, Records
<1>4. /\ longer \in Seq(Records) /\ Len(longer) = slot
      /\ \A i \in 1..Len(list) : longer[i] = list[i]
      /\ longer[slot] = <<slot, request[c].id>>
  BY <1>3
<1> HIDE DEF longer
<1>5. CASE rows[slot] # 0
  <2>1. request' = [request EXCEPT ![c] = Control!NoRequest] /\ UNCHANGED rows
    BY <1>1, <1>5 DEF Control!Done
  <2>2. ControlTyped'
    BY <1>1, <1>2, <2>1, Lists DEF ControlTyped
  <2>3. failed \/ overtaken
    BY <1>1, <1>3, <1>5, Lists DEF ControlInv, StartStands
  <2> QED BY <1>1, <2>2, <2>3 DEF ControlInv
<1>6. CASE rows[slot] = 0
  <2> DEFINE r == [request[c] EXCEPT !.matches = longer]
  <2>1. /\ rows' = [rows EXCEPT ![slot] = request[c].id]
        /\ request' = [request EXCEPT ![c] = r]
    BY <1>1, <1>6
  <2>2. /\ r \in AnyRequest /\ r.matches = longer /\ r.id = request[c].id
        /\ r.do = "start" /\ r.attached = request[c].attached
    BY <1>1, <1>3, <1>4 DEF AnyRequest, Starter
  <2> HIDE DEF r
  <2>3. /\ request' \in [Clients -> AnyRequest] /\ request'[c] = r
        /\ \A other \in Clients \ {c} : request'[other] = request[other]
        /\ rows' \in [1..MatchCount -> Nat] /\ rows'[slot] = request[c].id
        /\ \A k \in 1..MatchCount : k # slot => rows'[k] = rows[k]
    BY <1>1, <1>2, <1>3, <2>1, <2>2 DEF ControlTyped, AnyRequest
  <2>4. ControlTyped'
    BY <1>1, <1>2, <2>3 DEF ControlTyped
  <2>5. ASSUME ~failed', ~overtaken' PROVE StartStands' /\ StopsStand' /\ MatchesStand'
    <3>1. StartStands /\ StopsStand /\ MatchesStand
      BY <1>1, <2>5 DEF ControlInv
    <3>2. /\ request[c].attached /\ request[c].id = starts /\ starts > 0
          /\ Span(list, 0, starts) /\ sim.matches = <<>>
          /\ \A k \in 1..MatchCount : rows[k] = IF k <= Len(list) THEN starts ELSE 0
          /\ \A other \in Clients : Starter(request[other]) => other = c
      BY <1>1, <3>1 DEF StartStands
    <3>3. \A other \in Clients : Starter(request'[other]) <=> other = c
      BY <2>2, <2>3, <3>2 DEF Starter
    <3>4. StartStands'
      <4>1. Span(longer, 0, starts)
        <5>1. ASSUME NEW i \in 1..slot PROVE longer[i] = <<i + 0, starts>>
          <6>1. CASE i = slot
            BY <1>3, <1>4, <3>2, <6>1
          <6>2. CASE i # slot
            <7>1. i \in 1..Len(list) /\ i + 0 = i
              BY <1>3, <6>2
            <7>2. list[i] = <<i + 0, starts>>
              BY <3>2, <7>1 DEF Span
            <7> QED BY <1>4, <7>1, <7>2
          <6> QED BY <6>1, <6>2
        <5> QED BY <1>4, <5>1 DEF Span
      <4>2. \A k \in 1..MatchCount : rows'[k] = IF k <= slot THEN starts ELSE 0
        BY <1>1, <1>3, <2>3, <3>2
      <4>3. slot <= MatchCount
        BY <1>1, Lists
      <4>4. /\ request'[c].attached /\ request'[c].id = starts' /\ starts' > 0
            /\ Len(request'[c].matches) = slot /\ Span(request'[c].matches, 0, starts')
            /\ sim'.matches = <<>>
        BY <1>1, <1>4, <2>2, <2>3, <3>2, <4>1
      <4>5. \A k \in 1..MatchCount :
              rows'[k] = IF k <= Len(request'[c].matches) THEN starts' ELSE 0
        BY <1>1, <4>2, <4>4
      <4> QED BY <3>3, <4>3, <4>4, <4>5 DEF StartStands
    <3>5. StopsStand'
      <4> SUFFICES ASSUME NEW b \in Clients, Stopper(request'[b])
                   PROVE  /\ Len(request'[b].matches) <= MatchCount
                          /\ \E j \in 1..starts' :
                               /\ Span(request'[b].matches, Gone(request'[b]), j)
                               /\ j < starts'
                               /\ Gone(request'[b]) > 0 => j = starts'
                          /\ ~(Gone(request'[b]) > 0)
        BY DEF StopsStand
      <4>1. b # c /\ request'[b] = request[b]
        BY <2>2, <2>3 DEF Stopper
      <4> QED BY <1>1, <3>1, <3>2, <4>1 DEF StopsStand
    <3>6. MatchesStand'
      BY <1>1, <3>1, <3>2, <3>3 DEF MatchesStand
    <3> QED BY <3>4, <3>5, <3>6
  <2> QED BY <2>4, <2>5 DEF ControlInv
<1> QED BY <1>5, <1>6

LEMMA StartedKept ==
  ASSUME Control!ControlAssumption, ControlInv, NEW c \in Clients, Control!Started(c)
  PROVE  ControlInv'
<1> DEFINE list == request[c].matches
<1>1. /\ Starter(request[c]) /\ Len(list) = MatchCount
      /\ sim' = [sim EXCEPT !.running = TRUE,
                            !.matches = IF request[c].attached THEN list ELSE @]
      /\ request' = [request EXCEPT ![c] = Control!NoRequest]
      /\ UNCHANGED <<rows, starts, overtaken, failed>>
  BY DEF Control!Started, Control!Starting, Control!Done, Starter
<1>2. ControlTyped
  BY DEF ControlInv
<1>3. list \in Seq(Records)
  BY <1>2 DEF ControlTyped, AnyRequest
<1>4. /\ sim' \in [running : BOOLEAN, paused : BOOLEAN, matches : Seq(Records)]
      /\ sim'.running /\ (request[c].attached => sim'.matches = list)
  BY <1>1, <1>2, <1>3 DEF ControlTyped
<1>5. /\ request' \in [Clients -> AnyRequest] /\ request'[c] = Control!NoRequest
      /\ ~Starter(request'[c]) /\ ~Stopper(request'[c])
      /\ \A other \in Clients \ {c} : request'[other] = request[other]
  BY <1>1, <1>2, Lists DEF ControlTyped, Control!NoRequest, Starter, Stopper
<1>6. ControlTyped'
  BY <1>1, <1>2, <1>4, <1>5 DEF ControlTyped
<1>7. ASSUME ~failed', ~overtaken' PROVE StartStands' /\ StopsStand' /\ MatchesStand'
  <2>1. StartStands /\ StopsStand /\ MatchesStand
    BY <1>1, <1>7 DEF ControlInv
  <2>2. /\ request[c].attached /\ starts > 0 /\ Span(list, 0, starts) /\ sim.matches = <<>>
        /\ \A slot \in 1..MatchCount : rows[slot] = starts
        /\ \A other \in Clients : Starter(request[other]) => other = c
    BY <1>1, <2>1, Lists DEF StartStands
  <2>3. \A other \in Clients : ~Starter(request'[other])
    BY <1>5, <2>2
  <2>4. sim'.matches = list /\ list # <<>>
    BY <1>1, <1>3, <1>4, <2>2, Lists
  <2>5. \A b \in Clients : Stopper(request'[b]) => /\ b # c /\ request'[b] = request[b]
                                                   /\ ~(Gone(request[b]) > 0)
    BY <1>5, <2>1, <2>2 DEF StopsStand
  <2>6. StopsStand'
    <3> SUFFICES ASSUME NEW b \in Clients, Stopper(request'[b])
                 PROVE  /\ Len(request'[b].matches) <= MatchCount
                        /\ \E j \in 1..starts' :
                             Span(request'[b].matches, Gone(request'[b]), j)
                        /\ ~(Gone(request'[b]) > 0)
      BY <2>3 DEF StopsStand
    <3> QED BY <1>1, <2>1, <2>5 DEF StopsStand
  <2>7. StartStands'
    BY <2>3 DEF StartStands
  <2>8. MatchesStand'
    BY <1>1, <1>4, <2>2, <2>3, <2>4 DEF MatchesStand
  <2> QED BY <2>6, <2>7, <2>8
<1> QED BY <1>6, <1>7 DEF ControlInv

LEMMA StopKept ==
  ASSUME Control!ControlAssumption, ControlInv, NEW c \in Clients, Control!Stop(c)
  PROVE  ControlInv'
<1> DEFINE r == [do |-> "stop", id |-> 0, matches |-> sim.matches, attached |-> FALSE]
<1>1. /\ ~Starter(request[c]) /\ ~Stopper(request[c]) /\ UNCHANGED <<rows, starts, failed>>
      /\ IF sim.matches = <<>>
         THEN Control!Replace(Control!CreateSimState, c, Control!NoRequest)
         ELSE /\ request' = [request EXCEPT ![c] = r]
              /\ UNCHANGED <<sim, overtaken>>
  BY DEF Control!Stop, Control!Idle, Starter, Stopper
<1>2. ControlTyped
  BY DEF ControlInv
<1>3. r \in AnyRequest /\ r.do = "stop" /\ r.matches = sim.matches
  BY <1>2 DEF ControlTyped, AnyRequest
<1> HIDE DEF r
<1>4. CASE sim.matches = <<>>
  <2>1. /\ sim' = [running |-> FALSE, paused |-> FALSE, matches |-> <<>>]
        /\ request' \in [Clients -> AnyRequest] /\ request'[c] = Control!NoRequest
        /\ overtaken' \in BOOLEAN
        /\ ~overtaken' =>
                /\ ~overtaken
                /\ \A other \in Clients \ {c} :
                     ~Starter(request[other]) /\ request'[other] = request[other]
    BY <1>1, <1>2, <1>4, Lists, ReplaceKeepsRequests DEF Control!CreateSimState
  <2>2. ControlTyped'
    BY <1>1, <1>2, <2>1, Lists DEF ControlTyped
  <2>3. ASSUME ~failed', ~overtaken' PROVE StartStands' /\ StopsStand' /\ MatchesStand'
    <3>1. StartStands /\ StopsStand /\ MatchesStand
      BY <1>1, <2>1, <2>3 DEF ControlInv
    <3>2. /\ ~Starter(request'[c]) /\ ~Stopper(request'[c])
          /\ \A other \in Clients : ~Starter(request[other]) /\ ~Starter(request'[other])
      BY <1>1, <2>1, <2>3 DEF Control!NoRequest, Starter, Stopper
    <3>3. \A slot \in 1..MatchCount : rows[slot] = 0
      BY <1>4, <3>1, <3>2 DEF MatchesStand
    <3>4. sim'.matches = <<>> /\ ~sim'.running
      BY <2>1
    <3>5. StartStands' /\ MatchesStand'
      BY <1>1, <3>2, <3>3, <3>4 DEF StartStands, MatchesStand
    <3>6. \A b \in Clients : Stopper(request'[b]) => /\ b # c /\ request'[b] = request[b]
                                                     /\ ~(Gone(request[b]) > 0)
      BY <1>4, <2>1, <2>3, <3>1, <3>2 DEF StopsStand
    <3>7. StopsStand'
      <4> SUFFICES ASSUME NEW b \in Clients, Stopper(request'[b])
                   PROVE  /\ Len(request'[b].matches) <= MatchCount
                          /\ \E j \in 1..starts' :
                               Span(request'[b].matches, Gone(request'[b]), j)
                          /\ ~(Gone(request'[b]) > 0)
        BY <3>2 DEF StopsStand
      <4> QED BY <1>1, <3>1, <3>6 DEF StopsStand
    <3> QED BY <3>5, <3>7
  <2> QED BY <2>2, <2>3 DEF ControlInv
<1>5. CASE sim.matches # <<>>
  <2>1. request' = [request EXCEPT ![c] = r] /\ UNCHANGED <<sim, overtaken>>
    BY <1>1, <1>5
  <2>2. /\ request' \in [Clients -> AnyRequest] /\ request'[c] = r
        /\ \A other \in Clients \ {c} : request'[other] = request[other]
    BY <1>2, <1>3, <2>1 DEF ControlTyped
  <2>3. ControlTyped'
    BY <1>1, <1>2, <2>1, <2>2 DEF ControlTyped
  <2>4. ASSUME ~failed', ~overtaken' PROVE StartStands' /\ StopsStand' /\ MatchesStand'
    <3>1. StartStands /\ StopsStand /\ MatchesStand
      BY <1>1, <2>1, <2>4 DEF ControlInv
    <3>2. /\ \A other \in Clients : ~Starter(request[other]) /\ ~Starter(request'[other])
          /\ starts > 0 /\ Len(sim.matches) = MatchCount /\ Span(sim.matches, 0, starts)
      BY <1>3, <1>5, <2>2, <3>1 DEF StartStands, MatchesStand, Starter
    <3>3. Gone(request'[c]) = 0 /\ Len(request'[c].matches) = MatchCount
      BY <1>3, <2>2, <3>2, Lists DEF Gone
    <3>4. \A b \in Clients : Gone(request'[b]) > 0 => b # c /\ request'[b] = request[b]
      BY <2>2, <3>3
    <3>5. StartStands'
      BY <3>2 DEF StartStands
    <3>6. MatchesStand'
      <4>1. \A b \in Clients : Stopper(request[b]) /\ Gone(request[b]) > 0 =>
                               Stopper(request'[b]) /\ Gone(request'[b]) > 0
        BY <1>1, <2>2
      <4> QED BY <1>1, <1>5, <2>1, <3>1, <4>1 DEF MatchesStand
    <3>7. StopsStand'
      <4> SUFFICES ASSUME NEW b \in Clients, Stopper(request'[b])
                   PROVE  /\ Len(request'[b].matches) <= MatchCount
                          /\ \E j \in 1..starts' :
                               /\ Span(request'[b].matches, Gone(request'[b]), j)
                               /\ Gone(request'[b]) > 0 => j = starts'
                          /\ Gone(request'[b]) > 0 =>
                             /\ sim'.matches # <<>>
                             /\ \A slot \in 1..MatchCount :
                                  rows'[slot] = IF slot <= Gone(request'[b]) THEN 0 ELSE starts'
                             /\ \A other \in Clients :
                                  Stopper(request'[other]) /\ Gone(request'[other]) > 0
                                    => other = b
        BY <3>2 DEF StopsStand
      <4>1. CASE b = c
        <5>1. starts \in 1..starts /\ starts' = starts
          BY <1>1, <1>2, <3>2 DEF ControlTyped
        <5>2. Span(request'[b].matches, Gone(request'[b]), starts)
          BY <1>3, <2>2, <3>2, <3>3, <4>1
        <5> QED BY <3>3, <4>1, <5>1, <5>2, Lists
      <4>2. CASE b # c
        <5>1. request'[b] = request[b] /\ UNCHANGED <<starts, sim, rows>>
          BY <1>1, <2>1, <2>2, <4>2
        <5> QED BY <3>1, <3>4, <5>1 DEF StopsStand
      <4> QED BY <4>1, <4>2
    <3> QED BY <3>5, <3>6, <3>7
  <2> QED BY <2>3, <2>4 DEF ControlInv
<1> QED BY <1>4, <1>5

LEMMA StoppedKept ==
  ASSUME Control!ControlAssumption, ControlInv, NEW c \in Clients, Control!Stopped(c)
  PROVE  ControlInv'
<1>1. /\ Stopper(request[c]) /\ request[c].matches = <<>>
      /\ Control!Replace(Control!CreateSimState, c, Control!NoRequest)
      /\ UNCHANGED <<rows, starts, failed>>
  BY DEF Control!Stopped, Control!Stopping, Stopper
<1>2. ControlTyped
  BY DEF ControlInv
<1>3. /\ sim' = [running |-> FALSE, paused |-> FALSE, matches |-> <<>>]
      /\ request' \in [Clients -> AnyRequest] /\ request'[c] = Control!NoRequest
      /\ overtaken' \in BOOLEAN
      /\ ~overtaken' =>
              /\ ~overtaken
              /\ \A other \in Clients \ {c} :
                   ~Starter(request[other]) /\ request'[other] = request[other]
  BY <1>1, <1>2, Lists, ReplaceKeepsRequests DEF Control!CreateSimState
<1>4. ControlTyped'
  BY <1>1, <1>2, <1>3, Lists DEF ControlTyped
<1>5. ASSUME ~failed', ~overtaken' PROVE StartStands' /\ StopsStand' /\ MatchesStand'
  <2>1. StartStands /\ StopsStand /\ MatchesStand
    BY <1>1, <1>3, <1>5 DEF ControlInv
  <2>2. /\ ~Starter(request'[c]) /\ ~Stopper(request'[c])
        /\ \A other \in Clients : ~Starter(request'[other])
    BY <1>3, <1>5 DEF Control!NoRequest, Starter, Stopper
  <2>3. Gone(request[c]) = MatchCount /\ MatchCount > 0
    BY <1>1, Lists DEF Gone
  <2>4. /\ \A slot \in 1..MatchCount : rows[slot] = 0
        /\ \A other \in Clients :
             Stopper(request[other]) /\ Gone(request[other]) > 0 => other = c
    BY <1>1, <2>1, <2>3 DEF StopsStand
  <2>5. sim'.matches = <<>> /\ ~sim'.running
    BY <1>3
  <2>6. StartStands' /\ MatchesStand'
    BY <1>1, <2>2, <2>4, <2>5 DEF StartStands, MatchesStand
  <2>7. \A b \in Clients : Stopper(request'[b]) => /\ b # c /\ request'[b] = request[b]
                                                   /\ ~(Gone(request[b]) > 0)
    BY <1>3, <1>5, <2>2, <2>4
  <2>8. StopsStand'
    <3> SUFFICES ASSUME NEW b \in Clients, Stopper(request'[b])
                 PROVE  /\ Len(request'[b].matches) <= MatchCount
                        /\ \E j \in 1..starts' :
                             Span(request'[b].matches, Gone(request'[b]), j)
                        /\ ~(Gone(request'[b]) > 0)
      BY <2>2 DEF StopsStand
    <3> QED BY <1>1, <2>1, <2>7 DEF StopsStand
  <2> QED BY <2>6, <2>8
<1> QED BY <1>4, <1>5 DEF ControlInv

LEMMA DeleteRowKept ==
  ASSUME Control!ControlAssumption, ControlInv, NEW c \in Clients, Control!DeleteRow(c)
  PROVE  ControlInv'
<1> DEFINE list == request[c].matches
           shorter == Tail(list)
           d == Gone(request[c])
<1>1. /\ Stopper(request[c]) /\ list # <<>>
      /\ IF rows[list[1][1]] = list[1][2]
         THEN /\ rows' = [rows EXCEPT ![list[1][1]] = 0]
              /\ request' = [request EXCEPT ![c].matches = shorter]
         ELSE Control!Done(c) /\ UNCHANGED rows
      /\ UNCHANGED <<sim, starts, overtaken, failed>>
  BY DEF Control!DeleteRow, Control!Stopping, Control!RowOf, Control!NoRow, Stopper
<1>2. ControlTyped
  BY DEF ControlInv
<1>3. /\ request[c] \in AnyRequest /\ list \in Seq(Records) /\ Len(list) \in Nat /\ Len(list) > 0
      /\ shorter \in Seq(Records) /\ Len(shorter) = Len(list) - 1
      /\ \A i \in 1..(Len(list) - 1) : shorter[i] = list[i + 1]
  <2>1. request[c] \in AnyRequest /\ list \in Seq(Records)
    BY <1>2 DEF ControlTyped, AnyRequest
  <2>2. Len(list) \in Nat /\ Len(list) > 0
    BY <1>1, <2>1, Lists
  <2> HIDE DEF list
  <2> QED BY <1>1, <2>1, <2>2 DEF list
<1> HIDE DEF shorter
<1>4. CASE rows[list[1][1]] # list[1][2]
  <2>1. request' = [request EXCEPT ![c] = Control!NoRequest] /\ UNCHANGED rows
    BY <1>1, <1>4 DEF Control!Done
  <2>2. /\ request' \in [Clients -> AnyRequest]
        /\ ~Starter(request'[c]) /\ ~Stopper(request'[c])
        /\ \A other \in Clients \ {c} : request'[other] = request[other]
    BY <1>2, <2>1, Lists DEF ControlTyped, Control!NoRequest, Starter, Stopper
  <2>3. ControlTyped'
    BY <1>1, <1>2, <2>1, <2>2 DEF ControlTyped
  <2>4. ASSUME ~failed', ~overtaken' PROVE StartStands' /\ StopsStand' /\ MatchesStand'
    <3>1. StartStands /\ StopsStand /\ MatchesStand
      BY <1>1, <2>4 DEF ControlInv
    <3>2. ~(d > 0)
      <4> SUFFICES ASSUME d > 0 PROVE FALSE
        OBVIOUS
      <4>1. /\ Span(list, d, starts) /\ Len(list) <= MatchCount
            /\ \A slot \in 1..MatchCount : rows[slot] = IF slot <= d THEN 0 ELSE starts
        BY <1>1, <3>1 DEF StopsStand
      <4>2. list[1] = <<1 + d, starts>> /\ 1 + d \in 1..MatchCount /\ ~(1 + d <= d)
        BY <1>3, <4>1, Lists DEF Span, Gone
      <4> QED BY <1>4, <4>1, <4>2
    <3>3. \A b \in Clients :
            (Stopper(request'[b]) /\ Gone(request'[b]) > 0)
              <=> (Stopper(request[b]) /\ Gone(request[b]) > 0)
      BY <2>2, <3>2
    <3>4. \A b \in Clients : Starter(request'[b]) <=> Starter(request[b])
      BY <1>1, <2>2 DEF Starter, Stopper
    <3>5. \A b \in Clients : Starter(request'[b]) \/ Stopper(request'[b])
                               => request'[b] = request[b]
      BY <2>2
    <3>6. StartStands'
      BY <1>1, <2>1, <3>1, <3>4, <3>5 DEF StartStands
    <3>7. StopsStand'
      <4> SUFFICES ASSUME NEW b \in Clients, Stopper(request'[b])
                   PROVE  /\ Len(request'[b].matches) <= MatchCount
                          /\ \E j \in 1..starts' :
                               /\ Span(request'[b].matches, Gone(request'[b]), j)
                               /\ (\E other \in Clients : Starter(request'[other])) => j < starts'
                               /\ Gone(request'[b]) > 0 => j = starts'
                          /\ Gone(request'[b]) > 0 =>
                             /\ sim'.matches # <<>>
                             /\ \A slot \in 1..MatchCount :
                                  rows'[slot] = IF slot <= Gone(request'[b]) THEN 0 ELSE starts'
                             /\ \A other \in Clients :
                                  Stopper(request'[other]) /\ Gone(request'[other]) > 0
                                    => other = b
        BY DEF StopsStand
      <4>1. /\ request'[b] = request[b] /\ UNCHANGED <<starts, sim, rows>>
        BY <1>1, <2>1, <3>5
      <4> QED BY <3>1, <3>3, <3>4, <4>1 DEF StopsStand
    <3>8. MatchesStand'
      BY <1>1, <2>1, <3>1, <3>3, <3>4 DEF MatchesStand
    <3> QED BY <3>6, <3>7, <3>8
  <2> QED BY <2>3, <2>4 DEF ControlInv
<1>5. CASE rows[list[1][1]] = list[1][2]
  <2> DEFINE r == [request[c] EXCEPT !.matches = shorter]
  <2>1. /\ rows' = [rows EXCEPT ![list[1][1]] = 0]
        /\ request' = [request EXCEPT ![c] = r]
    BY <1>1, <1>5
  <2>2. r \in AnyRequest /\ r.matches = shorter /\ Stopper(r) /\ ~Starter(r)
    BY <1>1, <1>3 DEF AnyRequest, Stopper, Starter
  <2> HIDE DEF r
  <2>3. /\ request' \in [Clients -> AnyRequest] /\ request'[c] = r
        /\ \A other \in Clients \ {c} : request'[other] = request[other]
        /\ rows' \in [1..MatchCount -> Nat]
    BY <1>2, <2>1, <2>2 DEF ControlTyped
  <2>4. ControlTyped'
    BY <1>1, <1>2, <2>3 DEF ControlTyped
  <2>5. ASSUME ~failed', ~overtaken' PROVE StartStands' /\ StopsStand' /\ MatchesStand'
    <3>1. StartStands /\ StopsStand /\ MatchesStand
      BY <1>1, <2>5 DEF ControlInv
    <3>2. PICK j \in 1..starts :
             /\ Span(list, d, j)
             /\ (\E other \in Clients : Starter(request[other])) => j < starts
             /\ d > 0 => j = starts
      BY <1>1, <3>1 DEF StopsStand
    <3>3. /\ Len(list) <= MatchCount /\ d \in Nat /\ d + 1 \in 1..MatchCount
          /\ list[1] = <<d + 1, j>> /\ j \in Nat /\ j > 0 /\ starts \in Nat
      <4>1. starts \in Nat /\ j \in Nat /\ j > 0
        BY <1>2, <3>2 DEF ControlTyped
      <4>2. Len(list) <= MatchCount
        BY <1>1, <3>1 DEF StopsStand
      <4>3. d \in Nat /\ d + 1 \in 1..MatchCount /\ 1 + d = d + 1
        BY <1>3, <4>2, Lists DEF Gone
      <4>4. 1 \in 1..Len(list)
        BY <1>3
      <4>5. list[1] = <<1 + d, j>>
        BY <3>2, <4>4 DEF Span
      <4> QED BY <4>1, <4>2, <4>3, <4>5
    <3>4. rows[d + 1] = j /\ rows' = [rows EXCEPT ![d + 1] = 0]
      BY <1>5, <2>1, <3>3
    \* The stop is the one that deletes, and no start waits.
    <3>5. /\ \A other \in Clients : ~Starter(request[other])
          /\ sim.matches # <<>> /\ j = starts
          /\ \A slot \in 1..MatchCount : rows[slot] = IF slot <= d THEN 0 ELSE starts
          /\ \A other \in Clients : Stopper(request[other]) /\ Gone(request[other]) > 0
                                      => other = c
      <4>1. CASE d > 0
        <5>1. /\ sim.matches # <<>> /\ j = starts
              /\ \A slot \in 1..MatchCount : rows[slot] = IF slot <= d THEN 0 ELSE starts
              /\ \A other \in Clients : Stopper(request[other]) /\ Gone(request[other]) > 0
                                          => other = c
          BY <1>1, <3>1, <3>2, <4>1 DEF StopsStand
        <5> QED BY <3>1, <5>1 DEF StartStands
      <4>2. CASE d = 0
        <5>1. rows[1] = j /\ 1 \in 1..MatchCount
          BY <3>3, <3>4, <4>2
        <5>2. ASSUME NEW other \in Clients, Starter(request[other]) PROVE FALSE
          <6>1. rows[1] = 0 \/ rows[1] = starts
            BY <3>1, <5>1, <5>2 DEF StartStands
          <6> QED BY <3>2, <3>3, <5>1, <5>2, <6>1
        <5>3. sim.matches # <<>>
          BY <3>1, <3>3, <5>1, <5>2 DEF MatchesStand
        <5>4. ASSUME NEW other \in Clients, Stopper(request[other]), Gone(request[other]) > 0
              PROVE  FALSE
          <6>1. /\ \A slot \in 1..MatchCount :
                     rows[slot] = IF slot <= Gone(request[other]) THEN 0 ELSE starts
                /\ Gone(request[other]) \in Int
            <7>1. Len(request[other].matches) \in Nat
              BY <1>2, Lists DEF ControlTyped, AnyRequest
            <7> QED BY <3>1, <5>4, <7>1, Lists DEF StopsStand, Gone
          <6>2. rows[1] = 0
            BY <5>1, <5>4, <6>1
          <6> QED BY <3>3, <5>1, <6>2
        <5>5. \A slot \in 1..MatchCount : rows[slot] = starts
          BY <3>1, <5>3, <5>4 DEF MatchesStand
        <5>6. \A slot \in 1..MatchCount : rows[slot] = IF slot <= d THEN 0 ELSE starts
          BY <4>2, <5>5
        <5> QED BY <5>1, <5>2, <5>3, <5>4, <5>5, <5>6
      <4> QED BY <3>3, <4>1, <4>2
    <3>6. /\ Gone(request'[c]) = d + 1 /\ Len(request'[c].matches) <= MatchCount
          /\ Span(request'[c].matches, d + 1, starts)
      <4>1. Gone(r) = d + 1 /\ Len(shorter) <= MatchCount
        BY <1>3, <2>2, <3>3, Lists DEF Gone
      <4>2. ASSUME NEW i \in 1..Len(shorter) PROVE shorter[i] = <<i + (d + 1), starts>>
        <5>1. i + 1 \in 1..Len(list) /\ i \in 1..(Len(list) - 1)
          BY <1>3
        <5>2. list[i + 1] = <<(i + 1) + d, starts>>
          BY <3>2, <3>5, <5>1 DEF Span
        <5>3. (i + 1) + d = i + (d + 1)
          BY <3>3
        <5> QED BY <1>3, <5>1, <5>2, <5>3
      <4> QED BY <2>2, <2>3, <4>1, <4>2 DEF Span
    <3>7. \A slot \in 1..MatchCount : rows'[slot] = IF slot <= d + 1 THEN 0 ELSE starts
      BY <1>2, <3>3, <3>4, <3>5 DEF ControlTyped
    <3>8. \A other \in Clients : ~Starter(request'[other])
      BY <2>2, <2>3, <3>5
    <3>9. \A other \in Clients : Stopper(request'[other]) /\ Gone(request'[other]) > 0
                                      => other = c
      BY <2>3, <3>5
    <3>10. StopsStand'
      <4> SUFFICES ASSUME NEW b \in Clients, Stopper(request'[b])
                   PROVE  /\ Len(request'[b].matches) <= MatchCount
                          /\ \E k \in 1..starts' :
                               /\ Span(request'[b].matches, Gone(request'[b]), k)
                               /\ Gone(request'[b]) > 0 => k = starts'
                          /\ Gone(request'[b]) > 0 =>
                             /\ sim'.matches # <<>>
                             /\ \A slot \in 1..MatchCount :
                                  rows'[slot] = IF slot <= Gone(request'[b]) THEN 0 ELSE starts'
                             /\ \A other \in Clients :
                                  Stopper(request'[other]) /\ Gone(request'[other]) > 0
                                    => other = b
        BY <3>8 DEF StopsStand
      <4>1. CASE b = c
        <5>1. starts \in 1..starts
          BY <3>2, <3>3
        <5> QED BY <1>1, <3>5, <3>6, <3>7, <3>9, <4>1, <5>1
      <4>2. CASE b # c
        <5>1. /\ request'[b] = request[b] /\ ~(Gone(request'[b]) > 0)
              /\ Stopper(request[b])
          BY <2>3, <3>9, <4>2
        <5> QED BY <1>1, <3>1, <5>1 DEF StopsStand
      <4> QED BY <4>1, <4>2
    <3>11. StartStands'
      BY <3>8 DEF StartStands
    <3>12. MatchesStand'
      <4>1. Stopper(request'[c]) /\ Gone(request'[c]) > 0
        BY <2>2, <2>3, <3>3, <3>6
      <4> QED BY <1>1, <3>1, <3>5, <4>1 DEF MatchesStand
    <3> QED BY <3>10, <3>11, <3>12
  <2> QED BY <2>4, <2>5 DEF ControlInv
<1> QED BY <1>4, <1>5

\* Without a start that waits, the state may be replaced or change otherwise: only its
\* matches matter.
LEMMA OthersKept ==
  ASSUME Control!ControlAssumption, ControlInv,
         \/ \E paused \in BOOLEAN : Control!SetPaused(paused)
         \/ Control!Step \/ Control!Tick \/ Control!Speed \/ UNCHANGED Control!simVars
  PROVE  ControlInv'
<1>1. ControlTyped
  BY DEF ControlInv
<1>2. /\ UNCHANGED <<rows, starts, failed>>
      /\ sim' \in [running : BOOLEAN, paused : BOOLEAN, matches : Seq(Records)]
      /\ sim'.running = sim.running /\ sim'.matches = sim.matches
  BY <1>1 DEF Control!SetPaused, Control!Step, Control!Tick, Control!Speed, Control!Replaced,
     Control!simVars, ControlTyped
<1>3. /\ request' \in [Clients -> AnyRequest] /\ overtaken' \in BOOLEAN
      /\ ~overtaken' => ~overtaken /\ request' = request
  <2>1. CASE Control!Replaced
    <3>1. /\ request' = Control!Detached
          /\ overtaken' = (overtaken \/ \E c \in Clients : Starter(request[c]))
      BY <2>1 DEF Control!Replaced, Control!Starting, Starter
    <3>2. Control!Detached \in [Clients -> AnyRequest]
      BY <1>1 DEF Control!Detached, Control!Starting, ControlTyped, AnyRequest
    <3>3. (\A c \in Clients : ~Starter(request[c])) => Control!Detached = request
      BY <1>1 DEF Control!Detached, Control!Starting, Starter, ControlTyped
    <3> QED BY <1>1, <3>1, <3>2, <3>3 DEF ControlTyped
  <2>2. CASE ~Control!Replaced
    BY <1>1, <2>2 DEF Control!SetPaused, Control!Step, Control!Tick, Control!Speed,
       Control!simVars, ControlTyped
  <2> QED BY <2>1, <2>2
<1>4. ControlTyped'
  BY <1>1, <1>2, <1>3 DEF ControlTyped
<1>5. ASSUME ~failed', ~overtaken' PROVE StartStands' /\ StopsStand' /\ MatchesStand'
  <2>1. StartStands /\ StopsStand /\ MatchesStand
    BY <1>2, <1>3, <1>5 DEF ControlInv
  <2>2. UNCHANGED <<rows, starts, request>>
    BY <1>2, <1>3, <1>5
  <2> QED BY <1>2, <2>1, <2>2 DEF StartStands, StopsStand, MatchesStand
<1> QED BY <1>4, <1>5 DEF ControlInv

LEMMA QueryFailsKept ==
  ASSUME Control!ControlAssumption, ControlInv, NEW c \in Clients, Control!QueryFails(c)
  PROVE  ControlInv'
<1>1. ControlTyped
  BY DEF ControlInv
<1>2. ControlTyped' /\ failed'
  BY <1>1, Lists DEF Control!QueryFails, Control!Done, ControlTyped
<1> QED BY <1>2 DEF ControlInv

LEMMA RestartKept ==
  ASSUME Control!ControlAssumption, ControlInv, Control!Restart
  PROVE  ControlInv'
<1>1. /\ sim' = [running |-> FALSE, paused |-> FALSE, matches |-> <<>>]
      /\ rows' = [slot \in 1..MatchCount |-> 0]
      /\ request' = [c \in Clients |-> Control!NoRequest]
      /\ starts' = starts /\ overtaken' = FALSE /\ failed' = FALSE
  BY Lists DEF Control!Restart, Control!CreateSimState, Control!NoRow
<1>2. ControlTyped'
  BY <1>1, Lists DEF ControlInv, ControlTyped
<1>3. \A c \in Clients : ~Starter(request'[c]) /\ ~Stopper(request'[c])
  BY <1>1 DEF Control!NoRequest, Starter, Stopper
<1>4. sim'.matches = <<>> /\ ~sim'.running /\ \A slot \in 1..MatchCount : rows'[slot] = 0
  BY <1>1
<1> QED BY <1>2, <1>3, <1>4 DEF ControlInv, StartStands, StopsStand, MatchesStand

LEMMA ControlKept ==
  ASSUME Control!ControlAssumption, ControlInv, [Control!Next]_(Control!simVars)
  PROVE  ControlInv'
<1>1. ASSUME NEW c \in Clients, Control!Start(c) PROVE ControlInv'
  BY <1>1, StartKept
<1>2. ASSUME NEW c \in Clients, Control!CreateRow(c) PROVE ControlInv'
  BY <1>2, CreateRowKept
<1>3. ASSUME NEW c \in Clients, Control!Started(c) PROVE ControlInv'
  BY <1>3, StartedKept
<1>4. ASSUME NEW c \in Clients, Control!Stop(c) PROVE ControlInv'
  BY <1>4, StopKept
<1>5. ASSUME NEW c \in Clients, Control!DeleteRow(c) PROVE ControlInv'
  BY <1>5, DeleteRowKept
<1>6. ASSUME NEW c \in Clients, Control!Stopped(c) PROVE ControlInv'
  BY <1>6, StoppedKept
<1>7. ASSUME NEW c \in Clients, Control!QueryFails(c) PROVE ControlInv'
  BY <1>7, QueryFailsKept
<1>8. CASE Control!Restart
  BY <1>8, RestartKept
<1>9. CASE \/ \E paused \in BOOLEAN : Control!SetPaused(paused)
           \/ Control!Step \/ Control!Tick \/ Control!Speed \/ UNCHANGED Control!simVars
  BY <1>9, OthersKept
<1> QED BY <1>1, <1>2, <1>3, <1>4, <1>5, <1>6, <1>7, <1>8, <1>9 DEF Control!Next

LEMMA ControlInvariant == SiteSpec => [](part = "control" => ControlInv)
<1>1. SiteInit => (part = "control" => ControlInv)
  BY SitePartsAssumption, ControlInitial DEF SiteInit
<1>2. (part = "control" => ControlInv) /\ [SiteNext]_siteVars => (part = "control" => ControlInv)'
  BY SitePartsAssumption, PartAtWork, ControlKept
<1> QED BY <1>1, <1>2, PTL DEF SiteSpec

\* Between two requests the rows of the simulation are those of its matches, however
\* starts, stops and ticks overlap, unless a query fails or a waiting start has lost its
\* state: RowsFollowMatches, for any clients, slots and starts (sim-routes.ts, engine.ts).
THEOREM RowsFollow == SiteSpec => []RowsFollowMatches
<1>1. (part = "control" => ControlInv) => RowsFollowMatches
  <2> SUFFICES ASSUME part = "control", ControlInv, ~failed, ~overtaken, Control!Quiet
               PROVE  /\ \A i \in DOMAIN sim.matches : Control!RowOf(sim.matches[i])
                      /\ \A slot \in Control!Slots : rows[slot] # Control!NoRow =>
                           \E i \in DOMAIN sim.matches : sim.matches[i][1] = slot
    BY DEF RowsFollowMatches, Control!RowsFollowMatches
  <2>1. MatchesStand /\ ControlTyped
    BY DEF ControlInv
  <2>2. \A c \in Clients : ~Starter(request[c]) /\ ~Stopper(request[c])
    BY DEF Control!Quiet, Control!Idle, Starter, Stopper
  <2>3. CASE sim.matches = <<>>
    <3>1. \A slot \in Control!Slots : rows[slot] = Control!NoRow
      BY <2>1, <2>2, <2>3 DEF MatchesStand, Control!Slots, Control!NoRow
    <3> QED BY <2>3, <3>1
  <2>4. CASE sim.matches # <<>>
    <3> DEFINE list == sim.matches
    <3>1. /\ Len(list) = MatchCount /\ Span(list, 0, starts)
          /\ \A slot \in 1..MatchCount : rows[slot] = starts
      BY <2>1, <2>2, <2>4 DEF MatchesStand
    <3>2. DOMAIN list = 1..MatchCount
      BY <2>1, <3>1 DEF ControlTyped
    <3>3. \A i \in 1..MatchCount : list[i] = <<i, starts>>
      BY <3>1, Lists, SitePartsAssumption DEF Span
    <3> HIDE DEF list
    <3>4. \A i \in 1..MatchCount : list[i][1] = i /\ list[i][2] = starts
      BY <3>3
    <3> QED BY <3>1, <3>2, <3>4 DEF list, Control!RowOf, Control!Slots
  <2> QED BY <2>3, <2>4
<1> QED BY <1>1, ControlInvariant, PTL

-----------------------------------------------------------------------------
(* The simulated match.  Nobody jumped: the scores after the entries so    *)
(* far never fall and lead to the score, and no later period has an entry. *)

ScoreAfter1(entry) == IF entry[1] = Play!NoEntry THEN 0 ELSE entry[1]
ScoreAfter2(entry) == IF entry[2] = Play!NoEntry THEN ScoreAfter1(entry) ELSE entry[2]
ScoreAfter3(entry) == IF entry[3] = Play!NoEntry THEN ScoreAfter2(entry) ELSE entry[3]
ScoreAfter4(entry) == IF entry[4] = Play!NoEntry THEN ScoreAfter3(entry) ELSE entry[4]

PlayTyped ==
    /\ play = [state |-> play.state, period |-> play.period, seconds |-> play.seconds,
               ticks |-> play.ticks, score |-> play.score, flow |-> play.flow]
    /\ play.state \in 0..8 /\ play.score \in 0..MaxScore
    /\ play.flow \in [1..4 -> 0..(MaxScore + 1)]
    /\ play.period = Play!StateToPeriod(play.state)

EntriesLead ==
    /\ ScoreAfter1(play.flow) <= ScoreAfter2(play.flow)
    /\ ScoreAfter2(play.flow) <= ScoreAfter3(play.flow)
    /\ ScoreAfter3(play.flow) <= ScoreAfter4(play.flow)
    /\ ScoreAfter4(play.flow) = play.score
    /\ \A p \in 1..4 : p > play.period => play.flow[p] = Play!NoEntry

PlayInv == PlayTyped /\ (~jumped => EntriesLead)

LEMMA PeriodScores ==
  ASSUME play.flow \in [1..4 -> 0..(MaxScore + 1)], MaxScore \in Nat
  PROVE  /\ Play!PeriodScore[0] = 0
         /\ Play!PeriodScore[1] = ScoreAfter1(play.flow)
         /\ Play!PeriodScore[2] = ScoreAfter2(play.flow)
         /\ Play!PeriodScore[3] = ScoreAfter3(play.flow)
         /\ Play!PeriodScore[4] = ScoreAfter4(play.flow)
<1> DEFINE Def(f, p) ==
      IF p = 0 THEN 0 ELSE IF play.flow[p] = Play!NoEntry THEN f[p - 1] ELSE play.flow[p]
<1> DEFINE g == [p \in 0..4 |->
      CASE p = 0 -> 0 [] p = 1 -> ScoreAfter1(play.flow) [] p = 2 -> ScoreAfter2(play.flow)
        [] p = 3 -> ScoreAfter3(play.flow) [] OTHER -> ScoreAfter4(play.flow)]
<1>1. /\ g[0] = 0 /\ g[1] = ScoreAfter1(play.flow) /\ g[2] = ScoreAfter2(play.flow)
      /\ g[3] = ScoreAfter3(play.flow) /\ g[4] = ScoreAfter4(play.flow)
  OBVIOUS
<1>2. /\ Def(g, 0) = g[0] /\ Def(g, 1) = g[1] /\ Def(g, 2) = g[2] /\ Def(g, 3) = g[3]
      /\ Def(g, 4) = g[4]
  <2> HIDE DEF g
  <2> QED BY <1>1 DEF ScoreAfter1, ScoreAfter2, ScoreAfter3, ScoreAfter4
<1>3. g = [p \in 0..4 |-> Def(g, p)]
  <2>1. \A p \in 0..4 : g[p] = Def(g, p)
    <3>1. \A p \in 0..4 : p = 0 \/ p = 1 \/ p = 2 \/ p = 3 \/ p = 4
      OBVIOUS
    <3> HIDE DEF g, Def
    <3> QED BY <1>2, <3>1
  <2>2. g = [p \in 0..4 |-> g[p]]
    OBVIOUS
  <2> HIDE DEF g, Def
  <2> QED BY <2>1, <2>2
<1>4. Play!PeriodScore = CHOOSE f : f = [p \in 0..4 |-> Def(f, p)]
  BY DEF Play!PeriodScore
<1>5. Play!PeriodScore = [p \in 0..4 |-> Def(Play!PeriodScore, p)]
  <2> HIDE DEF g, Def
  <2> QED BY <1>3, <1>4
<1> HIDE DEF g
<1>6. Play!PeriodScore[0] = 0
  BY <1>5
<1>7. Play!PeriodScore[1] = ScoreAfter1(play.flow)
  BY <1>5, <1>6 DEF ScoreAfter1
<1>8. Play!PeriodScore[2] = ScoreAfter2(play.flow)
  BY <1>5, <1>7 DEF ScoreAfter2
<1>9. Play!PeriodScore[3] = ScoreAfter3(play.flow)
  BY <1>5, <1>8 DEF ScoreAfter3
<1>10. Play!PeriodScore[4] = ScoreAfter4(play.flow)
  BY <1>5, <1>9 DEF ScoreAfter4
<1> QED BY <1>6, <1>7, <1>8, <1>9, <1>10

LEMMA PlayInitial == Play!PlayAssumption /\ Play!Init => PlayInv
  BY DEF Play!PlayAssumption, Play!Init, PlayInv, PlayTyped, EntriesLead, ScoreAfter1,
     ScoreAfter2, ScoreAfter3, ScoreAfter4, Play!StateToPeriod, Play!NoEntry, Play!PreMatch,
     Play!Periods, Play!Complete

\* A step that enters no goal.
LEMMA PlayGoesOn ==
  ASSUME MaxScore \in Nat, PlayInv, PlayTyped', UNCHANGED jumped,
         play'.score = play.score, play'.flow = play.flow, play'.period >= play.period
  PROVE  PlayInv'
<1>1. play.period \in 0..4 /\ play'.period \in 0..4
  BY DEF PlayInv, PlayTyped, Play!StateToPeriod, Play!Complete
<1> QED BY <1>1 DEF PlayInv, EntriesLead, ScoreAfter1, ScoreAfter2, ScoreAfter3, ScoreAfter4,
           Play!NoEntry

LEMMA GoalEntered ==
  ASSUME MaxScore \in Nat, PlayInv, Play!TickActive
  PROVE  PlayInv'
<1>1. PICK score \in play.score..MaxScore :
         LET seconds == IF play.seconds < PeriodTicks THEN play.seconds + 1 ELSE PeriodTicks
             over == seconds = PeriodTicks
             next_ == Play!AdvanceState(play.state)
         IN play' = [Play!Counted EXCEPT
                       !.seconds = seconds,
                       !.score = score,
                       !.flow = IF score = play.score THEN @ ELSE Play!Entry(score),
                       !.state = IF over THEN next_ ELSE @]
  BY Zenon DEF Play!TickActive
<1>2. /\ play.state \in {1, 3, 5, 7} /\ play.period \in 1..4
      /\ play.score \in 0..MaxScore /\ score \in 0..MaxScore /\ score >= play.score
      /\ play.flow \in [1..4 -> 0..(MaxScore + 1)]
  BY DEF Play!TickActive, PlayInv, PlayTyped, Play!IsActive, Play!StateToPeriod, Play!Complete
<1>3. /\ play'.score = score /\ play'.period = play.period
      /\ play'.flow = IF score = play.score THEN play.flow
                      ELSE [play.flow EXCEPT ![play.period] = score]
      /\ play'.state \in {play.state, play.state + 1}
      /\ play' = [state |-> play'.state, period |-> play'.period, seconds |-> play'.seconds,
                  ticks |-> play'.ticks, score |-> play'.score, flow |-> play'.flow]
  <2>1. Play!Counted = [play EXCEPT !.ticks = IF @ < MaxTicks THEN @ + 1 ELSE @]
    BY DEF Play!Counted
  <2>2. Play!AdvanceState(play.state) = play.state + 1
    BY <1>2 DEF Play!AdvanceState, Play!Complete
  <2>3. play = [state |-> play.state, period |-> play.period, seconds |-> play.seconds,
                ticks |-> play.ticks, score |-> play.score, flow |-> play.flow]
    BY DEF PlayInv, PlayTyped
  <2> QED BY <1>1, <2>1, <2>2, <2>3 DEF Play!Entry
<1>4. PlayTyped'
  <2>1. play'.flow \in [1..4 -> 0..(MaxScore + 1)]
    BY <1>2, <1>3
  <2>2. Play!StateToPeriod(play'.state) = play.period
    BY <1>2, <1>3 DEF PlayInv, PlayTyped, Play!StateToPeriod, Play!Complete
  <2> QED BY <1>2, <1>3, <2>1, <2>2 DEF PlayTyped, Play!StateToPeriod
<1>5. ASSUME ~jumped PROVE EntriesLead'
  <2>1. EntriesLead
    BY <1>5 DEF PlayInv
  <2>2. CASE score = play.score
    BY <1>3, <2>1, <2>2 DEF EntriesLead, ScoreAfter1, ScoreAfter2, ScoreAfter3, ScoreAfter4,
       Play!NoEntry
  <2>3. CASE score # play.score
    <3>1. play'.flow = [play.flow EXCEPT ![play.period] = score]
      BY <1>3, <2>3
    <3>2. \A p \in 1..4 : p > play.period => play'.flow[p] = MaxScore + 1
      BY <1>2, <2>1, <3>1 DEF EntriesLead, Play!NoEntry
    <3>3. play'.flow[play.period] = score /\ \A p \in 1..4 : p # play.period =>
             play'.flow[p] = play.flow[p]
      BY <1>2, <3>1
    <3>4. \A p \in 1..4 : play.flow[p] \in 0..(MaxScore + 1)
      BY <1>2
    <3>5. CASE play.period = 1
      BY <1>2, <1>3, <2>1, <3>2, <3>3, <3>4, <3>5 DEF EntriesLead, ScoreAfter1, ScoreAfter2,
         ScoreAfter3, ScoreAfter4, Play!NoEntry
    <3>6. CASE play.period = 2
      BY <1>2, <1>3, <2>1, <3>2, <3>3, <3>4, <3>6 DEF EntriesLead, ScoreAfter1, ScoreAfter2,
         ScoreAfter3, ScoreAfter4, Play!NoEntry
    <3>7. CASE play.period = 3
      BY <1>2, <1>3, <2>1, <3>2, <3>3, <3>4, <3>7 DEF EntriesLead, ScoreAfter1, ScoreAfter2,
         ScoreAfter3, ScoreAfter4, Play!NoEntry
    <3>8. CASE play.period = 4
      BY <1>2, <1>3, <2>1, <3>2, <3>3, <3>4, <3>8 DEF EntriesLead, ScoreAfter1, ScoreAfter2,
         ScoreAfter3, ScoreAfter4, Play!NoEntry
    <3> QED BY <1>2, <3>5, <3>6, <3>7, <3>8
  <2> QED BY <2>2, <2>3
<1> QED BY <1>4, <1>5 DEF PlayInv, Play!TickActive

\* A match that moves to a state, whatever else is counted of it.
LEMMA MovedTo ==
  ASSUME PlayInv, NEW i \in 0..8, NEW seconds, NEW ticks,
         play' = [play EXCEPT !.state = i, !.period = Play!StateToPeriod(i),
                              !.seconds = seconds, !.ticks = ticks]
  PROVE  /\ PlayTyped' /\ play'.score = play.score /\ play'.flow = play.flow
         /\ play'.period = Play!StateToPeriod(i) /\ play'.state = i
<1>1. play = [state |-> play.state, period |-> play.period, seconds |-> play.seconds,
              ticks |-> play.ticks, score |-> play.score, flow |-> play.flow]
  BY DEF PlayInv, PlayTyped
<1>2. play' = [state |-> i, period |-> Play!StateToPeriod(i), seconds |-> seconds,
               ticks |-> ticks, score |-> play.score, flow |-> play.flow]
  BY <1>1
<1>3. (Play!StateToPeriod(play.state))' = Play!StateToPeriod(i)
  BY <1>2 DEF Play!StateToPeriod, Play!Complete
<1> QED BY <1>2, <1>3 DEF PlayInv, PlayTyped

LEMMA PlayKept ==
  ASSUME Play!PlayAssumption, PlayInv, [Play!Next]_(Play!playVars)
  PROVE  PlayInv'
<1> DEFINE ticks == IF play.ticks < MaxTicks THEN play.ticks + 1 ELSE play.ticks
<1> HIDE DEF ticks
<1>0. /\ play.state \in 0..8 /\ play.period = Play!StateToPeriod(play.state)
      /\ play.period \in 0..4
      /\ Play!Counted = [play EXCEPT !.ticks = ticks]
      /\ play = [state |-> play.state, period |-> play.period, seconds |-> play.seconds,
                 ticks |-> play.ticks, score |-> play.score, flow |-> play.flow]
  BY DEF PlayInv, PlayTyped, Play!StateToPeriod, Play!Complete, Play!Counted, ticks
<1>1. MaxScore \in Nat
  BY DEF Play!PlayAssumption
<1>2. CASE Play!TickPreMatch
  <2>1. CASE play' = Play!Counted
    <3>1. play' = [play EXCEPT !.state = play.state, !.period = Play!StateToPeriod(play.state),
                               !.seconds = play.seconds, !.ticks = ticks]
      BY <1>0, <2>1
    <3>2. PlayTyped' /\ play'.score = play.score /\ play'.flow = play.flow
          /\ play'.period = play.period
      BY <1>0, <3>1, MovedTo, Zenon
    <3> QED BY <1>0, <1>1, <1>2, <3>2, PlayGoesOn DEF Play!TickPreMatch
  <2>2. CASE play' = [Play!Counted EXCEPT !.state = 1, !.period = 1, !.seconds = 0]
    <3>1. /\ Play!StateToPeriod(1) = 1 /\ Play!StateToPeriod(0) = 0 /\ play.state = 0
          /\ 1 \in 0..8
      BY <1>2 DEF Play!StateToPeriod, Play!Complete, Play!TickPreMatch, Play!PreMatch
    <3>2. play' = [play EXCEPT !.state = 1, !.period = Play!StateToPeriod(1),
                               !.seconds = 0, !.ticks = ticks]
      BY <1>0, <2>2, <3>1
    <3>3. PlayTyped' /\ play'.score = play.score /\ play'.flow = play.flow /\ play'.period = 1
      BY <3>1, <3>2, MovedTo, Zenon
    <3> QED BY <1>0, <1>1, <1>2, <3>1, <3>3, PlayGoesOn DEF Play!TickPreMatch
  <2> QED BY <1>2, <2>1, <2>2 DEF Play!TickPreMatch
<1>3. CASE Play!TickComplete
  <2>1. play' = [play EXCEPT !.state = play.state, !.period = Play!StateToPeriod(play.state),
                             !.seconds = play.seconds, !.ticks = ticks]
    BY <1>0, <1>3 DEF Play!TickComplete
  <2>2. PlayTyped' /\ play'.score = play.score /\ play'.flow = play.flow
        /\ play'.period = play.period
    BY <1>0, <2>1, MovedTo, Zenon
  <2> QED BY <1>0, <1>1, <1>3, <2>2, PlayGoesOn DEF Play!TickComplete
<1>4. CASE Play!TickBreak
  <2>1. CASE play' = Play!Counted
    <3>1. play' = [play EXCEPT !.state = play.state, !.period = Play!StateToPeriod(play.state),
                               !.seconds = play.seconds, !.ticks = ticks]
      BY <1>0, <2>1
    <3>2. PlayTyped' /\ play'.score = play.score /\ play'.flow = play.flow
          /\ play'.period = play.period
      BY <1>0, <3>1, MovedTo, Zenon
    <3> QED BY <1>0, <1>1, <1>4, <3>2, PlayGoesOn DEF Play!TickBreak
  <2>2. CASE play' = [Play!Counted EXCEPT !.state = Play!AdvanceState(play.state),
                          !.period = Play!StateToPeriod(Play!AdvanceState(play.state)),
                          !.seconds = 0]
    <3>1. /\ play.state \in {2, 4, 6} /\ Play!AdvanceState(play.state) = play.state + 1
          /\ play.state + 1 \in 0..8
          /\ Play!StateToPeriod(play.state + 1) >= Play!StateToPeriod(play.state)
      BY <1>4 DEF Play!TickBreak, Play!IsBreak, Play!AdvanceState, Play!Complete,
         Play!StateToPeriod
    <3>2. play' = [play EXCEPT !.state = play.state + 1,
                               !.period = Play!StateToPeriod(play.state + 1),
                               !.seconds = 0, !.ticks = ticks]
      BY <1>0, <2>2, <3>1
    <3>3. PlayTyped' /\ play'.score = play.score /\ play'.flow = play.flow
          /\ play'.period = Play!StateToPeriod(play.state + 1)
      BY <3>1, <3>2, MovedTo, Zenon
    <3> QED BY <1>0, <1>1, <1>4, <3>1, <3>3, PlayGoesOn DEF Play!TickBreak
  <2> QED BY <1>4, <2>1, <2>2 DEF Play!TickBreak
<1>5. CASE Play!TickActive
  BY <1>1, <1>5, GoalEntered
<1>6. CASE \E i \in Play!StateIndexes : Play!Goto(i)
  <2>1. jumped'
    BY <1>6 DEF Play!Goto
  <2>2. PICK i \in 0..8 :
           play' = [play EXCEPT !.state = i, !.period = (i + 1) \div 2,
                                !.seconds = IF Play!IsBreak(i) THEN PeriodTicks ELSE 0]
    BY <1>6 DEF Play!Goto, Play!StateIndexes
  <2>3. (i + 1) \div 2 = Play!StateToPeriod(i)
    BY DEF Play!StateToPeriod, Play!Complete
  <2>4. play' = [play EXCEPT !.state = i, !.period = Play!StateToPeriod(i),
                             !.seconds = IF Play!IsBreak(i) THEN PeriodTicks ELSE 0,
                             !.ticks = play.ticks]
    BY <1>0, <2>2, <2>3
  <2>5. PlayTyped'
    BY <2>4, MovedTo, Zenon
  <2> QED BY <2>1, <2>5 DEF PlayInv
<1>7. CASE UNCHANGED Play!playVars
  BY <1>7 DEF Play!playVars, PlayInv, PlayTyped, EntriesLead, ScoreAfter1, ScoreAfter2,
     ScoreAfter3, ScoreAfter4
<1> QED BY <1>2, <1>3, <1>4, <1>5, <1>6, <1>7 DEF Play!Next

LEMMA PlayServed ==
  ASSUME Play!PlayAssumption, PlayInv
  PROVE  Play!ServedMatchIsConsistent
<1>1. /\ MaxScore \in Nat /\ play.flow \in [1..4 -> 0..(MaxScore + 1)]
      /\ play.period = Play!StateToPeriod(play.state) /\ play.period \in 0..4
  BY DEF Play!PlayAssumption, PlayInv, PlayTyped, Play!StateToPeriod, Play!Complete
<1>2. /\ Play!Served.period = play.period /\ Play!Served.score = play.score
      /\ Play!Served.periods = [p \in 1..play.period |-> Play!PeriodScore[p]]
  BY <1>1 DEF Play!Served
<1>3. ASSUME ~jumped
      PROVE  /\ \A p, q \in 1..play.period : p <= q => Play!PeriodScore[p] <= Play!PeriodScore[q]
             /\ play.score = Play!PeriodScore[play.period]
  <2>1. EntriesLead
    BY <1>3 DEF PlayInv
  <2>2. /\ ScoreAfter1(play.flow) \in Nat /\ ScoreAfter2(play.flow) \in Nat
        /\ ScoreAfter3(play.flow) \in Nat /\ ScoreAfter4(play.flow) \in Nat
    <3>1. \A p \in 1..4 : play.flow[p] \in Nat
      BY <1>1
    <3> QED BY <3>1 DEF ScoreAfter1, ScoreAfter2, ScoreAfter3, ScoreAfter4
  <2>3. \A p, q \in 1..4 : p <= q => Play!PeriodScore[p] <= Play!PeriodScore[q]
    <3>1. \A p \in 1..4 : p = 1 \/ p = 2 \/ p = 3 \/ p = 4
      OBVIOUS
    <3> DEFINE a == ScoreAfter1(play.flow)
               b == ScoreAfter2(play.flow)
               c == ScoreAfter3(play.flow)
               d == ScoreAfter4(play.flow)
    <3>2. a <= b /\ b <= c /\ c <= d /\ a \in Nat /\ b \in Nat /\ c \in Nat /\ d \in Nat
      BY <2>1, <2>2 DEF EntriesLead
    <3>3. Play!PeriodScore[1] = a /\ Play!PeriodScore[2] = b /\ Play!PeriodScore[3] = c
          /\ Play!PeriodScore[4] = d
      BY <1>1, PeriodScores
    <3> HIDE DEF a, b, c, d
    <3> QED BY <3>1, <3>2, <3>3
  <2>4. play.score = Play!PeriodScore[play.period]
    <3>1. \A p \in 1..4 : p > play.period => play.flow[p] = Play!NoEntry
      BY <2>1 DEF EntriesLead
    <3>2. play.score = ScoreAfter4(play.flow)
      BY <2>1 DEF EntriesLead
    <3>3. play.period = 0 \/ play.period = 1 \/ play.period = 2 \/ play.period = 3
          \/ play.period = 4
      BY <1>1
    <3> QED BY <1>1, <3>1, <3>2, <3>3, PeriodScores DEF ScoreAfter1, ScoreAfter2, ScoreAfter3,
               ScoreAfter4
  <2> QED BY <1>1, <2>3, <2>4
<1> QED BY <1>1, <1>2, <1>3 DEF Play!ServedMatchIsConsistent

LEMMA PlayInvariant == SiteSpec => [](part = "play" => PlayInv)
<1>1. SiteInit => (part = "play" => PlayInv)
  BY SitePartsAssumption, PlayInitial DEF SiteInit
<1>2. (part = "play" => PlayInv) /\ [SiteNext]_siteVars => (part = "play" => PlayInv)'
  BY SitePartsAssumption, PartAtWork, PlayKept
<1> QED BY <1>1, <1>2, PTL DEF SiteSpec

-----------------------------------------------------------------------------
(* The match day                                                           *)

LEMMA SameCountOfDay ==
  \A S : Day!Cardinality(S) = Cardinality(S) /\ (Day!IsFiniteSet(S) <=> IsFiniteSet(S))
BY Zenon DEF Day!Cardinality, Cardinality, Day!IsFiniteSet, IsFiniteSet

LEMMA Calendar ==
  ASSUME Day!MatchDayAssumption
  PROVE  /\ Fixtures \subseteq Nat /\ IsFiniteSet(Fixtures)
         /\ Hours \subseteq Nat /\ MaxCandidates \in Nat \ {0} /\ None \notin Nat
         /\ Schedule \in [Fixtures -> Hours]
<1>1. /\ IsFiniteSet(Fixtures) /\ Fixtures \subseteq Nat /\ IsFiniteSet(Hours)
      /\ Hours = 0..Cardinality(Hours) - 1 /\ MaxCandidates \in Nat \ {0} /\ None \notin Nat
      /\ Schedule \in [Fixtures -> Hours]
  BY SameCountOfDay DEF Day!MatchDayAssumption
<1>2. Cardinality(Hours) \in Nat
  BY <1>1, FS_CardinalityType
<1>3. 0..Cardinality(Hours) - 1 \subseteq Nat
  BY <1>2
<1>4. Hours \subseteq Nat
  BY <1>1, <1>3
<1> QED BY <1>1, <1>4

\* A list with room for all the rows has them all.
LEMMA RoomForAll ==
  ASSUME NEW S, IsFiniteSet(S), \A r \in S : r.at \in Nat /\ r.id \in Nat,
         NEW n \in Nat, Cardinality(S) <= n
  PROVE  Day!Earliest(S, n) = S
<1>1. ASSUME NEW r \in S
      PROVE  Cardinality({q \in S : Day!Earlier(q, r)}) < n
  <2> DEFINE before == {q \in S : Day!Earlier(q, r)}
  <2>1. ~Day!Earlier(r, r)
    <3>1. r.at \in Nat /\ r.id \in Nat
      OBVIOUS
    <3> QED BY <3>1 DEF Day!Earlier
  <2>2. before \in SUBSET S /\ r \in S \ before
    BY <2>1
  <2> HIDE DEF before
  <2>3. Cardinality(before) \in Nat /\ Cardinality(S) \in Nat
        /\ Cardinality(before) + 1 <= Cardinality(S)
    BY <2>2, OneMore, PartOf
  <2>4. Cardinality(before) < n
    BY <2>3
  <2> QED BY <2>4 DEF before
<1> QED BY <1>1, SameCountOfDay DEF Day!Earliest

\* While a reader is at work, the history says what still holds; and once a list was
\* read that had room for its candidates, those of the history are in it.
DayTyped ==
    /\ match \in [Fixtures -> [status : Day!Statuses, at : Hours]]
    /\ steady = [live |-> steady.live, due |-> steady.due, fits |-> steady.fits]
    /\ reading = [kind |-> reading.kind, pc |-> reading.pc, now |-> reading.now,
                  live |-> reading.live, others |-> reading.others]
    /\ reading.pc \in {"idle", "live", "others", "access"}
    /\ reading.pc # "idle" => reading.kind \in {"worker", "page", "status"}
    /\ reading.pc = "others" => reading.kind = "worker"
    /\ reading.now \in Nat /\ hour \in Nat

SteadyHolds ==
    reading.pc # "idle" =>
        /\ \A m \in steady.live : m \in Fixtures /\ Day!IsLive(m)
        /\ \A m \in steady.due : m \in Fixtures /\ Day!IsDue(m, reading.now)

SteadyRead ==
    (reading.pc \in {"others", "access"} /\ steady.fits) =>
        /\ \A m \in steady.live :
              [id |-> m, status |-> "LIVE", at |-> match[m].at] \in reading.live
        /\ reading.kind = "status" =>
              \A m \in steady.due :
                  \/ [id |-> m, status |-> "LIVE", at |-> match[m].at] \in reading.live
                  \/ /\ [id |-> m, status |-> "SCHEDULED", at |-> match[m].at] \in reading.others
                     /\ match[m].at \in reading.now..reading.now + 1

DayInv == DayTyped /\ SteadyHolds /\ SteadyRead

LEMMA DayInitial == Day!MatchDayAssumption /\ Day!Init => DayInv
  BY Calendar DEF Day!Init, Day!NoReader, DayInv, DayTyped, SteadyHolds, SteadyRead, Day!Statuses

\* Before anything is read, what is steady is what holds now.
LEMMA DayBegins ==
  ASSUME Day!MatchDayAssumption, DayInv, NEW kind \in {"worker", "page", "status"},
         Day!Begin(kind), UNCHANGED <<hour, match, public>>
  PROVE  DayInv'
<1>1. /\ reading' = [kind |-> kind, pc |-> "live", now |-> hour, live |-> {}, others |-> {}]
      /\ steady' = [live |-> {m \in Fixtures : Day!IsLive(m)},
                    due |-> {m \in Fixtures : Day!IsDue(m, hour)}, fits |-> TRUE]
  BY DEF Day!Begin
<1>2. DayTyped' /\ SteadyRead'
  BY <1>1 DEF DayInv, DayTyped, SteadyRead
<1>3. /\ \A m : Day!IsLive(m)' <=> Day!IsLive(m)
      /\ \A m : Day!IsDue(m, reading.now)' <=> Day!IsDue(m, hour)
  BY <1>1 DEF Day!IsLive, Day!IsDue
<1>4. SteadyHolds'
  BY <1>1, <1>3 DEF SteadyHolds
<1> QED BY <1>2, <1>4 DEF DayInv

\* The matches change while a reader is at work, or its hour is past.
LEMMA WorldKept ==
  ASSUME Day!MatchDayAssumption, DayInv, Day!World
  PROVE  DayInv'
<1>1. UNCHANGED reading
  BY DEF Day!World, Day!Pass, Day!Advance, Day!Republish, Day!ReadersIdle
<1>2. DayTyped' /\ (\A m \in Fixtures : match'[m].at = match[m].at)
      /\ steady'.fits = steady.fits /\ steady'.live \subseteq steady.live
      /\ steady'.due \subseteq steady.due
  <2>1. CASE Day!Pass
    <3>1. hour' \in Nat
      BY <2>1, Calendar DEF Day!Pass, DayInv, DayTyped
    <3> QED BY <1>1, <2>1, <3>1 DEF Day!Pass, DayInv, DayTyped
  <2>2. ASSUME NEW m \in Fixtures, Day!Advance(m)
        PROVE  /\ DayTyped' /\ (\A n \in Fixtures : match'[n].at = match[n].at)
               /\ steady'.fits = steady.fits /\ steady'.live \subseteq steady.live
               /\ steady'.due \subseteq steady.due
    <3>1. match' = [match EXCEPT ![m].status = Day!Follows(@)] /\ hour' = hour
      BY <2>2 DEF Day!Advance
    <3>2. match[m] \in [status : Day!Statuses, at : Hours]
      BY DEF DayInv, DayTyped
    <3>3. Day!Follows(match[m].status) \in Day!Statuses
      BY <3>2 DEF Day!Follows, Day!Statuses
    <3>4. /\ match' \in [Fixtures -> [status : Day!Statuses, at : Hours]]
          /\ \A n \in Fixtures : match'[n].at = match[n].at
      BY <3>1, <3>2, <3>3 DEF DayInv, DayTyped
    <3>5. /\ steady' = [live |-> steady'.live, due |-> steady'.due, fits |-> steady.fits]
          /\ steady'.live \subseteq steady.live /\ steady'.due \subseteq steady.due
      BY <2>2 DEF Day!Advance, Day!StillSteady, DayInv, DayTyped
    <3> QED BY <1>1, <3>1, <3>4, <3>5 DEF DayInv, DayTyped
  <2>3. ASSUME NEW m \in Fixtures, Day!Republish(m)
        PROVE  /\ DayTyped' /\ (\A n \in Fixtures : match'[n].at = match[n].at)
               /\ steady'.fits = steady.fits /\ steady'.live \subseteq steady.live
               /\ steady'.due \subseteq steady.due
    <3>1. match' = match /\ hour' = hour
      BY <2>3 DEF Day!Republish
    <3>2. /\ steady' = [live |-> steady'.live, due |-> steady'.due, fits |-> steady.fits]
          /\ steady'.live \subseteq steady.live /\ steady'.due \subseteq steady.due
      BY <2>3 DEF Day!Republish, Day!StillSteady, DayInv, DayTyped
    <3> QED BY <1>1, <3>1, <3>2 DEF DayInv, DayTyped
  <2> QED BY <2>1, <2>2, <2>3 DEF Day!World
<1>3. SteadyRead'
  <2>1. ASSUME reading.pc \in {"others", "access"}, reading.pc # "idle", steady.fits
        PROVE  \A m \in steady.live \cup steady.due : match'[m].at = match[m].at
    BY <1>2, <2>1 DEF DayInv, SteadyHolds
  <2> QED BY <1>1, <1>2, <2>1 DEF DayInv, SteadyRead
<1>4. SteadyHolds'
  <2>1. CASE Day!Pass
    <3>1. /\ \A m : Day!IsLive(m)' <=> Day!IsLive(m)
          /\ \A m : Day!IsDue(m, reading.now)' <=> Day!IsDue(m, reading.now)
      BY <2>1, <1>1 DEF Day!Pass, Day!IsLive, Day!IsDue
    <3>2. steady' = steady
      BY <2>1 DEF Day!Pass
    <3> QED BY <1>1, <3>1, <3>2 DEF DayInv, SteadyHolds
  <2>2. CASE Day!StillSteady
    <3>1. /\ steady'.live = {m \in steady.live : Day!IsLive(m)'}
          /\ steady'.due = {m \in steady.due : Day!IsDue(m, reading.now)'}
      BY <2>2 DEF Day!StillSteady, DayInv, DayTyped
    <3> QED BY <1>1, <3>1 DEF DayInv, SteadyHolds
  <2> QED BY <2>1, <2>2 DEF Day!World, Day!Advance, Day!Republish
<1> QED BY <1>2, <1>3, <1>4 DEF DayInv

\* The rows that are read.
LEMMA RowsRead ==
  ASSUME Day!MatchDayAssumption, DayTyped
  PROVE  /\ IsFiniteSet(Day!LiveRows)
         /\ \A r \in Day!LiveRows : r.at \in Nat /\ r.id \in Nat
         /\ IsFiniteSet(Day!UpcomingRows(reading))
         /\ \A r \in Day!UpcomingRows(reading) : r.at \in Nat /\ r.id \in Nat
<1> DEFINE all == {Day!Row(m) : m \in Fixtures}
           f == [m \in Fixtures |-> Day!Row(m)]
<1>1. f \in Surjection(Fixtures, all)
  BY DEF Surjection
<1>2. IsFiniteSet(all)
  <2> HIDE DEF all, f
  <2> QED BY <1>1, Calendar, FS_Surjection
<1>3. Day!LiveRows \in SUBSET all /\ Day!UpcomingRows(reading) \in SUBSET all
  BY DEF Day!LiveRows, Day!UpcomingRows
<1>4. \A r \in all : r.at \in Nat /\ r.id \in Nat
  BY Calendar DEF DayTyped, Day!Row
<1> HIDE DEF all, f
<1> QED BY <1>2, <1>3, <1>4, PartOf

LEMMA ReadLiveKept ==
  ASSUME Day!MatchDayAssumption, DayInv, Day!ReadLive
  PROVE  DayInv'
<1>1. /\ reading.pc = "live" /\ UNCHANGED <<hour, match, public>>
      /\ Day!ReadLists
  BY DEF Day!ReadLive, Day!WorldUnread
<1>2. /\ reading'.live = Day!Live /\ reading'.kind = reading.kind /\ reading'.now = reading.now
      /\ reading'.pc \in {"others", "access"}
      /\ reading'.pc = "others" => reading.kind = "worker"
      /\ reading.kind = "status" => reading'.others = Day!Upcoming(reading)
      /\ reading' = [kind |-> reading'.kind, pc |-> reading'.pc, now |-> reading'.now,
                     live |-> reading'.live, others |-> reading'.others]
      /\ reading.kind \in {"worker", "page", "status"}
  BY <1>1 DEF Day!ReadLists, DayInv, DayTyped
<1>3. /\ steady' = [live |-> steady.live, due |-> steady.due, fits |-> steady'.fits]
      /\ steady'.fits => /\ reading.kind # "status" => Cardinality(Day!LiveRows) <= MaxCandidates
                         /\ reading.kind = "status" =>
                              Cardinality(Day!LiveRows \cup Day!UpcomingRows(reading))
                                <= MaxCandidates
  BY SameCountOfDay DEF Day!ReadLive, Day!Room, DayInv, DayTyped
<1>4. DayTyped'
  BY <1>1, <1>2, <1>3 DEF DayInv, DayTyped
<1>5. SteadyHolds'
  <2>1. /\ \A m : Day!IsLive(m)' <=> Day!IsLive(m)
        /\ \A m : Day!IsDue(m, reading.now)' <=> Day!IsDue(m, reading.now)
    BY <1>1, <1>2 DEF Day!IsLive, Day!IsDue
  <2> QED BY <1>1, <1>3, <2>1 DEF DayInv, SteadyHolds
<1>6. ASSUME steady'.fits
      PROVE  /\ reading'.live = Day!LiveRows
             /\ reading.kind = "status" => reading'.others = Day!UpcomingRows(reading)
  <2>1. /\ IsFiniteSet(Day!LiveRows)
        /\ \A r \in Day!LiveRows : r.at \in Nat /\ r.id \in Nat
        /\ IsFiniteSet(Day!UpcomingRows(reading))
        /\ \A r \in Day!UpcomingRows(reading) : r.at \in Nat /\ r.id \in Nat
    BY RowsRead DEF DayInv
  <2>2. CASE reading.kind # "status"
    <3>1. Cardinality(Day!LiveRows) <= MaxCandidates /\ MaxCandidates \in Nat
      BY <1>3, <1>6, <2>2, Calendar
    <3>2. Day!Live = Day!LiveRows
      BY <2>1, <3>1, RoomForAll DEF Day!Live
    <3> QED BY <1>2, <2>2, <3>2
  <2>3. CASE reading.kind = "status"
    <3> DEFINE both == Day!LiveRows \cup Day!UpcomingRows(reading)
    <3>1. Cardinality(both) <= MaxCandidates /\ MaxCandidates \in Nat
      BY <1>3, <1>6, <2>3, Calendar
    <3>2. IsFiniteSet(both)
      BY <2>1, FS_Union
    <3>3. Day!LiveRows \in SUBSET both /\ Day!UpcomingRows(reading) \in SUBSET both
      OBVIOUS
    <3> HIDE DEF both
    <3>4. /\ Cardinality(Day!LiveRows) <= Cardinality(both)
          /\ Cardinality(Day!UpcomingRows(reading)) <= Cardinality(both)
          /\ Cardinality(Day!LiveRows) \in Nat /\ Cardinality(Day!UpcomingRows(reading)) \in Nat
          /\ Cardinality(both) \in Nat
      BY <3>2, <3>3, PartOf
    <3>5. /\ Cardinality(Day!LiveRows) <= MaxCandidates
          /\ Cardinality(Day!UpcomingRows(reading)) <= MaxCandidates
      BY <3>1, <3>4
    <3>6. Day!Live = Day!LiveRows
      BY <2>1, <3>1, <3>5, RoomForAll DEF Day!Live
    <3>7. Day!Upcoming(reading) = Day!UpcomingRows(reading)
      BY <2>1, <3>1, <3>5, RoomForAll DEF Day!Upcoming
    <3> QED BY <1>2, <2>3, <3>6, <3>7
  <2> QED BY <2>2, <2>3
<1>7. SteadyRead'
  <2>1. SUFFICES ASSUME steady'.fits
        PROVE  /\ \A m \in steady.live :
                     [id |-> m, status |-> "LIVE", at |-> match[m].at] \in reading'.live
               /\ reading.kind = "status" =>
                    \A m \in steady.due :
                      \/ [id |-> m, status |-> "LIVE", at |-> match[m].at] \in reading'.live
                      \/ /\ [id |-> m, status |-> "SCHEDULED", at |-> match[m].at]
                              \in reading'.others
                         /\ match[m].at \in reading.now..reading.now + 1
    BY <1>1, <1>2, <1>3 DEF SteadyRead
  <2>2. \A m \in Fixtures : match[m].status = "LIVE" =>
           [id |-> m, status |-> "LIVE", at |-> match[m].at] \in Day!LiveRows
    BY DEF Day!LiveRows, Day!Row
  <2>3. \A m \in Fixtures :
           match[m].status = "SCHEDULED" /\ match[m].at \in reading.now..reading.now + 1 =>
             [id |-> m, status |-> "SCHEDULED", at |-> match[m].at] \in Day!UpcomingRows(reading)
    BY DEF Day!UpcomingRows, Day!Row
  <2>4. /\ \A m \in steady.live : m \in Fixtures /\ match[m].status = "LIVE"
        /\ \A m \in steady.due :
              /\ m \in Fixtures
              /\ \/ match[m].status = "LIVE"
                 \/ /\ match[m].status = "SCHEDULED"
                    /\ match[m].at \in reading.now..reading.now + 1
    <3>1. /\ \A m \in steady.live : m \in Fixtures /\ Day!IsLive(m)
          /\ \A m \in steady.due : m \in Fixtures /\ Day!IsDue(m, reading.now)
      BY <1>1 DEF DayInv, SteadyHolds
    <3>2. \A m \in steady.live : m \in Fixtures /\ match[m].status = "LIVE"
      BY <3>1 DEF Day!IsLive
    <3>3. ASSUME NEW m \in steady.due
          PROVE  /\ m \in Fixtures
                 /\ \/ match[m].status = "LIVE"
                    \/ match[m].status = "SCHEDULED"
                       /\ match[m].at \in reading.now..reading.now + 1
      BY <3>1, <3>3 DEF Day!IsDue
    <3> QED BY <3>2, <3>3
  <2>5. /\ reading'.live = Day!LiveRows
        /\ reading.kind = "status" => reading'.others = Day!UpcomingRows(reading)
    BY <1>6, <2>1
  <2>6. \A m \in steady.live :
           [id |-> m, status |-> "LIVE", at |-> match[m].at] \in reading'.live
    BY <2>2, <2>4, <2>5
  <2>7. ASSUME reading.kind = "status", NEW m \in steady.due
        PROVE  \/ [id |-> m, status |-> "LIVE", at |-> match[m].at] \in reading'.live
               \/ /\ [id |-> m, status |-> "SCHEDULED", at |-> match[m].at] \in reading'.others
                  /\ match[m].at \in reading.now..reading.now + 1
    <3>1. CASE match[m].status = "LIVE"
      BY <2>2, <2>4, <2>5, <2>7, <3>1
    <3>2. CASE match[m].status = "SCHEDULED" /\ match[m].at \in reading.now..reading.now + 1
      BY <2>3, <2>4, <2>5, <2>7, <3>2
    <3> QED BY <2>4, <2>7, <3>1, <3>2
  <2> QED BY <2>6, <2>7
<1> QED BY <1>4, <1>5, <1>7 DEF DayInv

\* A step of a reader that ends it, or leaves it as it is.
LEMMA ReaderEnds ==
  ASSUME DayInv, UNCHANGED <<hour, match, public>>, steady' = steady,
         reading' = Day!NoReader \/ reading' = reading
  PROVE  DayInv'
<1>1. CASE reading' = Day!NoReader
  BY <1>1 DEF DayInv, DayTyped, SteadyHolds, SteadyRead, Day!NoReader
<1>2. CASE reading' = reading
  <2>1. /\ \A m : Day!IsLive(m)' <=> Day!IsLive(m)
        /\ \A m : Day!IsDue(m, reading.now)' <=> Day!IsDue(m, reading.now)
    BY <1>2 DEF Day!IsLive, Day!IsDue
  <2> QED BY <1>2, <2>1 DEF DayInv, DayTyped, SteadyHolds, SteadyRead
<1> QED BY <1>1, <1>2

LEMMA DayKept ==
  ASSUME Day!MatchDayAssumption, DayInv, [Day!Next]_(Day!dayVars)
  PROVE  DayInv'
<1>1. CASE Day!World
  BY <1>1, WorldKept
<1>2. ASSUME NEW kind \in {"worker", "page"}, Day!AskFor(kind)
      PROVE  DayInv'
  BY <1>2, DayBegins DEF Day!AskFor
<1>3. CASE Day!Poll
  BY <1>3, DayBegins DEF Day!Poll
<1>4. ASSUME NEW c \in Components, Day!Watch(c)
      PROVE  DayInv'
  <2>1. CASE watching = {} /\ reading.pc = "idle"
    BY <1>4, <2>1, DayBegins DEF Day!Watch
  <2>2. CASE ~(watching = {} /\ reading.pc = "idle")
    BY <1>4, <2>2, ReaderEnds DEF Day!Watch
  <2> QED BY <2>1, <2>2
<1>5. ASSUME NEW c \in Components, Day!Unwatch(c)
      PROVE  DayInv'
  BY <1>5, ReaderEnds DEF Day!Unwatch
<1>6. CASE Day!ReadLive
  BY <1>6, ReadLiveKept
<1>7. CASE Day!ReadOthers
  <2>1. /\ reading.pc = "others" /\ UNCHANGED <<hour, match, public, steady>>
        /\ reading' = [kind |-> reading.kind, pc |-> "access", now |-> reading.now,
                       live |-> reading.live, others |-> reading'.others]
        /\ reading.kind = "worker"
    BY <1>7 DEF Day!ReadOthers, Day!WorldUnread, DayInv, DayTyped
  <2>2. /\ \A m : Day!IsLive(m)' <=> Day!IsLive(m)
        /\ \A m : Day!IsDue(m, reading.now)' <=> Day!IsDue(m, reading.now)
    BY <2>1 DEF Day!IsLive, Day!IsDue
  <2>3. DayTyped' /\ SteadyRead'
    BY <2>1 DEF DayInv, DayTyped, SteadyRead
  <2>4. SteadyHolds'
    BY <2>1, <2>2 DEF DayInv, SteadyHolds
  <2> QED BY <2>3, <2>4 DEF DayInv
<1>8. CASE Day!Answer \/ Day!AccessFails \/ Day!ListFails \/ Day!CalmDown
  BY <1>8, ReaderEnds DEF Day!Answer, Day!AccessFails, Day!Respond, Day!ListFails,
     Day!CalmDown, Day!WorldUnread
<1>9. CASE UNCHANGED Day!dayVars
  BY <1>9, ReaderEnds DEF Day!dayVars
<1> QED BY <1>1, <1>2, <1>3, <1>4, <1>5, <1>6, <1>7, <1>8, <1>9 DEF Day!Next, Day!Page, Day!Read

LEMMA DayInvariant == SiteSpec => [](part = "day" => DayInv)
<1>1. SiteInit => (part = "day" => DayInv)
  BY SitePartsAssumption, DayInitial DEF SiteInit
<1>2. (part = "day" => DayInv) /\ [SiteNext]_siteVars => (part = "day" => DayInv)'
  BY SitePartsAssumption, PartAtWork, DayKept
<1> QED BY <1>1, <1>2, PTL DEF SiteSpec

LEMMA NextIsKnown ==
  ASSUME Day!MatchDayAssumption, NEW S, S # {}, \A r \in S : r.at \in Nat
  PROVE  Day!Soonest(S) # None
<1> DEFINE ats == {r.at : r \in S}
<1>1. ats \in SUBSET Nat /\ ats # {}
  OBVIOUS
<1> HIDE DEF ats
<1>2. \E n \in ats : \A k \in ats : n <= k
  BY <1>1, LeastNumber
<1>3. Day!Min(ats) \in ats
  BY <1>2 DEF Day!Min
<1>4. Day!Soonest(S) = Day!Min(ats)
  BY DEF Day!Soonest, ats
<1> QED BY <1>1, <1>3, <1>4, Calendar

LEMMA NothingOverlooked ==
  ASSUME Day!MatchDayAssumption, DayInv
  PROVE  Day!OverlooksNothing
<1>1. SUFFICES ASSUME Day!Answer, steady.fits
               PROVE  /\ reading.kind = "worker" /\ steady.live # {} =>
                            Day!Interval(TRUE) = "live"
                      /\ reading.kind = "page" => steady.live \subseteq Day!Hub(TRUE).live
                      /\ reading.kind = "status" /\ steady.live # {} => badge'.hasLive
                      /\ reading.kind = "status" /\ steady.due # {} =>
                           badge'.hasLive \/ badge'.next # None
  BY DEF Day!OverlooksNothing
<1>2. reading.pc = "access"
  BY <1>1 DEF Day!Answer, Day!Respond
<1>3. \A m \in steady.live :
         /\ [id |-> m, status |-> "LIVE", at |-> match[m].at] \in Day!Public("LIVE", TRUE)
  <2> TAKE m \in steady.live
  <2> DEFINE r == [id |-> m, status |-> "LIVE", at |-> match[m].at]
  <2>1. m \in public /\ match[m].status = "LIVE" /\ r \in reading.live
    BY <1>1, <1>2 DEF DayInv, SteadyHolds, SteadyRead, Day!IsLive
  <2>2. Day!AccessStatus(r) = "LIVE"
    BY <2>1 DEF Day!AccessStatus
  <2> QED BY <2>1, <2>2 DEF Day!Public, Day!Candidates
<1>4. ASSUME reading.kind = "worker", steady.live # {}
      PROVE  Day!Interval(TRUE) = "live"
  <2>1. Day!Public("LIVE", TRUE) # {}
    BY <1>3, <1>4
  <2> QED BY <2>1 DEF Day!Interval
<1>5. ASSUME reading.kind = "page"
      PROVE  steady.live \subseteq Day!Hub(TRUE).live
  <2> DEFINE live == {r.id : r \in Day!Public("LIVE", TRUE)}
  <2>1. \A m \in steady.live : m \in live
    <3> TAKE m \in steady.live
    <3> DEFINE r == [id |-> m, status |-> "LIVE", at |-> match[m].at]
    <3>1. r \in Day!Public("LIVE", TRUE) /\ r.id = m
      BY <1>3
    <3> HIDE DEF r
    <3> QED BY <3>1
  <2>2. live # {} => Day!Hub(TRUE).live = live
    BY DEF Day!Hub
  <2> QED BY <2>1, <2>2
<1>6. ASSUME reading.kind = "status"
      PROVE  badge' = Day!Status(TRUE)
  BY <1>1, <1>6 DEF Day!Answer, Day!Respond
<1>9. ASSUME reading.kind = "status", Day!Public("LIVE", TRUE) # {}
      PROVE  badge'.hasLive
  <2>1. Day!Status(TRUE).hasLive = (Day!Public("LIVE", TRUE) # {})
    BY DEF Day!Status
  <2>2. Day!Status(TRUE).hasLive
    BY <1>9, <2>1, Zenon
  <2> QED BY <1>6, <1>9, <2>2
<1>7. ASSUME reading.kind = "status", steady.live # {}
      PROVE  badge'.hasLive
  <2>1. Day!Public("LIVE", TRUE) # {}
    BY <1>3, <1>7
  <2> QED BY <1>7, <1>9, <2>1
<1>8. ASSUME reading.kind = "status", NEW m \in steady.due
      PROVE  badge'.hasLive \/ badge'.next # None
  <2>1. /\ m \in public
        /\ \/ [id |-> m, status |-> "LIVE", at |-> match[m].at] \in reading.live
           \/ /\ [id |-> m, status |-> "SCHEDULED", at |-> match[m].at] \in reading.others
              /\ match[m].at \in reading.now..reading.now + 1
    BY <1>1, <1>2, <1>8 DEF DayInv, SteadyHolds, SteadyRead, Day!IsDue
  <2>2. CASE [id |-> m, status |-> "LIVE", at |-> match[m].at] \in reading.live
    <3>1. [id |-> m, status |-> "LIVE", at |-> match[m].at] \in Day!Public("LIVE", TRUE)
      BY <1>8, <2>1, <2>2 DEF Day!Public, Day!Candidates, Day!AccessStatus
    <3> QED BY <1>8, <1>9, <3>1
  <2>3. CASE /\ [id |-> m, status |-> "SCHEDULED", at |-> match[m].at] \in reading.others
             /\ match[m].at \in reading.now..reading.now + 1
    <3> DEFINE r == [id |-> m, status |-> "SCHEDULED", at |-> match[m].at]
               soon == {q \in Day!Public("SCHEDULED", TRUE) :
                          q.at \in reading.now..reading.now + 1}
    <3>1. r \in Day!Public("SCHEDULED", TRUE)
      BY <1>8, <2>1, <2>3 DEF Day!Public, Day!Candidates, Day!AccessStatus
    <3>2. r \in soon
      BY <2>3, <3>1
    <3>3. \A q \in soon : q.at \in Nat
      BY DEF DayInv, DayTyped
    <3>4. badge'.next = Day!Soonest(soon)
      BY <1>6, <1>8 DEF Day!Status
    <3> HIDE DEF soon
    <3> QED BY <3>2, <3>3, <3>4, NextIsKnown
  <2> QED BY <2>1, <2>2, <2>3
<1> QED BY <1>4, <1>5, <1>7, <1>8

\* No reader overlooks a match that is on, or within the hour, all the while it reads, if
\* the access can be read and every list had room (live-state.ts): for any number of
\* matches and any limit.
THEOREM NothingIsOverlooked == SiteSpec => MatchesAreNotOverlooked
<1>1. (part = "day" => DayInv) /\ [SiteNext]_siteVars =>
         [part = "day" => Day!OverlooksNothing]_siteVars
  BY SitePartsAssumption, NothingOverlooked
<1> QED BY <1>1, DayInvariant, PTL DEF SiteSpec, MatchesAreNotOverlooked

-----------------------------------------------------------------------------
(* The identities of an import: what the plans of a bundle make of rows    *)

\* The rows are those that there were and those of the plans.
LEMMA RowsSettled ==
  ASSUME NEW before, NEW plans, NEW n \in Nat, DOMAIN plans = 1..n, Len(plans) = n,
         NEW after, after = Ident!Settled(before, plans)
  PROVE  \A r : r \in DOMAIN after <=>
            r \in DOMAIN before \/ (\E i \in 1..n : plans[i].row = r)
BY DEF Ident!Settled

LEMMA LastWriter ==
  ASSUME NEW before, NEW plans, NEW n \in Nat, DOMAIN plans = 1..n, NEW r,
         Ident!Writers(before, plans, r, n) # {}
  PROVE  \E i \in 1..n : plans[i].row = r /\ Ident!After(before, plans, r, n) = plans[i].wants
<1> DEFINE W == Ident!Writers(before, plans, r, n)
<1>1. W \in SUBSET Nat /\ \A i \in W : i <= n
  BY DEF Ident!Writers
<1>2. PICK m \in W : \A k \in W : k <= m
  BY <1>1, GreatestNumber
<1>3. Ident!LastOf(W) \in W
  BY <1>2 DEF Ident!LastOf
<1>4. Ident!After(before, plans, r, n) = plans[Ident!LastOf(W)].wants
  BY DEF Ident!After
<1>5. Ident!LastOf(W) \in DOMAIN plans /\ plans[Ident!LastOf(W)].row = r
  BY <1>3 DEF Ident!Writers
<1> QED BY <1>4, <1>5

\* A row stays as it was or is what one of its plans wants.
LEMMA RowSettled ==
  ASSUME NEW before, NEW plans, NEW n \in Nat, DOMAIN plans = 1..n, Len(plans) = n,
         NEW after, after = Ident!Settled(before, plans),
         NEW r \in DOMAIN before, after[r] # before[r]
  PROVE  \E i \in 1..n : plans[i].row = r /\ after[r] = plans[i].wants
<1>1. after[r] = Ident!After(before, plans, r, n)
  BY DEF Ident!Settled
<1>2. Ident!Writers(before, plans, r, n) # {}
  BY <1>1 DEF Ident!After
<1> QED BY <1>1, <1>2, LastWriter

\* A row of a plan is what one of its plans wants.
LEMMA RowPlanned ==
  ASSUME NEW before, NEW plans, NEW n \in Nat, DOMAIN plans = 1..n, Len(plans) = n,
         NEW after, after = Ident!Settled(before, plans),
         NEW r, NEW i \in 1..n, plans[i].row = r
  PROVE  \E j \in 1..n : plans[j].row = r /\ after[r] = plans[j].wants
<1>1. after[r] = Ident!After(before, plans, r, n)
  BY DEF Ident!Settled
<1>2. CASE Ident!Writers(before, plans, r, n) # {}
  BY <1>1, <1>2, LastWriter
<1>3. CASE Ident!Writers(before, plans, r, n) = {}
  <2>1. after[r] = before[r]
    BY <1>1, <1>3 DEF Ident!After
  <2>2. i <= n /\ i \notin Ident!Writers(before, plans, r, n)
    BY <1>3
  <2>3. r \in DOMAIN before /\ plans[i].wants = before[r]
    BY <2>2 DEF Ident!Writers
  <2> QED BY <2>1, <2>3
<1> QED BY <1>2, <1>3

-----------------------------------------------------------------------------
(* The identities of an import: what holds between the commands            *)

RowsOf(before, known) == \A r \in DOMAIN before : r \in DOMAIN known \/ r \in DOMAIN mapped

PlayerRows ==
    \A r \in DOMAIN players :
        players[r] =
            [name |-> players[r].name, cd |-> players[r].cd, photo |-> players[r].photo]

OneForEachReview ==
    \A r, s \in DOMAIN players : (players[r].cd = players[s].cd /\ players[r].cd # None) => r = s

OthersStand == \A r \in DOMAIN OtherTeams : r \in DOMAIN teams /\ teams[r] = OtherTeams[r]

\* What is mapped was applied, and what was applied is mapped and can be read again.
MappedByApplied ==
    /\ applied \in Seq(Bundles)
    /\ \A k \in DOMAIN mapped : \E i \in DOMAIN applied : k \in Ident!Identities(applied[i])
    /\ \A i \in DOMAIN applied :
          /\ Ident!Valid(applied[i]) /\ Ident!TeamsAreGiven(applied[i])
          /\ Ident!Identities(applied[i]) \subseteq DOMAIN mapped

IdentInv ==
    /\ Ident!MappingsStand /\ RowsOf(teams, OtherTeams) /\ RowsOf(players, LeaguePlayers)
    /\ PlayerRows /\ OneForEachReview /\ OthersStand /\ MappedByApplied
    /\ Ident!ReviewedAreOne /\ Ident!OneRowEach /\ Ident!AppliedIsRepeatable
    /\ Ident!EditionIsTheLast

LEMMA KeysDiffer ==
  /\ \A e, f : Ident!TeamKey(e) = Ident!TeamKey(f) => e = f
  /\ \A e, f : Ident!PlayerKey(e) = Ident!PlayerKey(f) => e = f
  /\ \A e, f : Ident!TeamKey(e) # Ident!PlayerKey(f)
  /\ \A e : Ident!TeamKey(e)[1] = "TEAM" /\ Ident!PlayerKey(e)[1] = "PLAYER"
BY DEF Ident!TeamKey, Ident!PlayerKey

LEMMA BundleLists ==
  ASSUME Ident!SourceIdentitiesAssumption, NEW b \in Bundles
  PROVE  /\ Len(b.teams) \in Nat /\ DOMAIN b.teams = 1..Len(b.teams)
         /\ Len(b.players) \in Nat /\ DOMAIN b.players = 1..Len(b.players)
         /\ \A k \in Ident!Identities(b) : k \notin DOMAIN OtherTeams /\ k \notin DOMAIN LeaguePlayers
         /\ \A k \in Ident!Identities(b) :
               \/ \E i \in DOMAIN b.teams : k = Ident!TeamKey(b.teams[i].ext)
               \/ \E i \in DOMAIN b.players : k = Ident!PlayerKey(b.players[i].ext)
         /\ \A i \in DOMAIN b.teams : Ident!TeamKey(b.teams[i].ext) \in Ident!Identities(b)
         /\ \A i \in DOMAIN b.players : Ident!PlayerKey(b.players[i].ext) \in Ident!Identities(b)
<1>1. /\ \E S : b.teams \in Seq(S)
      /\ \E S : b.players \in Seq(S)
      /\ Ident!Identities(b) \cap (DOMAIN OtherTeams \cup DOMAIN LeaguePlayers) = {}
  BY Zenon DEF Ident!SourceIdentitiesAssumption
<1>2. \A k : k \in Ident!Identities(b) <=>
         \/ \E i \in DOMAIN b.teams : k = Ident!TeamKey(b.teams[i].ext)
         \/ \E i \in DOMAIN b.players : k = Ident!PlayerKey(b.players[i].ext)
  BY DEF Ident!Identities, Ident!TeamExts
<1>3. /\ Len(b.teams) \in Nat /\ DOMAIN b.teams = 1..Len(b.teams)
      /\ Len(b.players) \in Nat /\ DOMAIN b.players = 1..Len(b.players)
  BY <1>1
<1> QED BY <1>1, <1>2, <1>3

LEMMA IdentInitial ==
  ASSUME Ident!SourceIdentitiesAssumption, Ident!Init
  PROVE  IdentInv
<1>1. /\ DOMAIN mapped = {} /\ applied = <<>> /\ DOMAIN applied = {}
      /\ teams = OtherTeams /\ players = LeaguePlayers
  BY DEF Ident!Init
<1>2. Ident!MappingsStand /\ RowsOf(teams, OtherTeams) /\ RowsOf(players, LeaguePlayers)
      /\ OthersStand
  BY <1>1 DEF Ident!MappingsStand, RowsOf, OthersStand
<1>3. PlayerRows
  BY <1>1 DEF PlayerRows, Ident!SourceIdentitiesAssumption
<1>4. OneForEachReview
  <2> DEFINE f == [r \in DOMAIN LeaguePlayers |-> LeaguePlayers[r].cd]
  <2>1. \A r, s \in DOMAIN f : f[r] = f[s] => r = s
    BY DEF Ident!SourceIdentitiesAssumption, Ident!Unique
  <2>2. \A r, s \in DOMAIN LeaguePlayers : LeaguePlayers[r].cd = LeaguePlayers[s].cd => r = s
    BY <2>1
  <2> QED BY <1>1, <2>2 DEF OneForEachReview
<1>5. MappedByApplied
  BY <1>1 DEF MappedByApplied
<1>6. Ident!ReviewedAreOne /\ Ident!OneRowEach /\ Ident!AppliedIsRepeatable
      /\ Ident!EditionIsTheLast
  BY <1>1 DEF Ident!ReviewedAreOne, Ident!OneRowEach, Ident!AppliedIsRepeatable,
     Ident!EditionIsTheLast
<1> QED BY <1>2, <1>3, <1>4, <1>5, <1>6 DEF IdentInv

-----------------------------------------------------------------------------
(* The identities of an import: the rows that an apply finds or makes      *)

Applying(b) ==
    /\ Ident!SourceIdentitiesAssumption /\ IdentInv /\ b \in Bundles /\ Ident!Apply(b)

\* A player has the row of the review, else the one it was mapped to, which are the
\* same if there are both, else a new one.
LEMMA PlayerIsFound ==
  ASSUME NEW b, Applying(b), NEW i \in DOMAIN b.players
  PROVE  LET p == b.players[i]
             key == Ident!PlayerKey(p.ext)
             id == Ident!PlayerId(p)
         IN  /\ key \in DOMAIN mapped => id = mapped[key]
             /\ \/ Ident!PlayerBefore(p) # {} /\ id \in DOMAIN players
                \/ /\ Ident!PlayerBefore(p) = {} /\ id = key
                   /\ key \notin DOMAIN players /\ key \notin DOMAIN mapped
             /\ Ident!Canonical(p) # {} => id \in Ident!Canonical(p)
<1> DEFINE p == b.players[i]
           key == Ident!PlayerKey(p.ext)
           id == Ident!PlayerId(p)
<1>1. /\ IdentInv /\ b \in Bundles /\ Ident!MappingsStand /\ Ident!ReviewFits(b)
      /\ Ident!SourceIdentitiesAssumption
  BY DEF Applying, Ident!Apply, Ident!Applies, Ident!Fits
<1>2. key \in DOMAIN mapped => mapped[key] \in DOMAIN players
  BY <1>1, KeysDiffer DEF Ident!MappingsStand
<1>3. CASE Ident!Canonical(p) # {}
  <2>1. id \in Ident!Canonical(p) /\ Ident!PlayerBefore(p) = Ident!Canonical(p)
    BY <1>3 DEF Ident!PlayerId, Ident!PlayerBefore
  <2>2. id \in DOMAIN players
    BY <2>1 DEF Ident!Canonical
  <2>3. key \in DOMAIN mapped => mapped[key] = id
    BY <1>1, <2>1 DEF Ident!ReviewFits
  <2> QED BY <1>3, <2>1, <2>2, <2>3
<1>4. CASE Ident!Canonical(p) = {} /\ key \in DOMAIN mapped
  <2>1. Ident!PlayerBefore(p) = {mapped[key]}
    BY <1>4 DEF Ident!PlayerBefore
  <2>2. id = mapped[key]
    BY <2>1 DEF Ident!PlayerId
  <2> QED BY <1>2, <1>4, <2>1, <2>2
<1>5. CASE Ident!Canonical(p) = {} /\ key \notin DOMAIN mapped
  <2>1. Ident!PlayerBefore(p) = {}
    BY <1>5 DEF Ident!PlayerBefore
  <2>2. id = key
    BY <2>1 DEF Ident!PlayerId
  <2>3. key \notin DOMAIN LeaguePlayers
    BY <1>1, BundleLists
  <2>4. key \notin DOMAIN players
    BY <1>1, <1>5, <2>3 DEF IdentInv, RowsOf
  <2> QED BY <1>5, <2>1, <2>2, <2>4
<1> QED BY <1>3, <1>4, <1>5

LEMMA TeamIsFound ==
  ASSUME NEW b, Applying(b), NEW i \in DOMAIN b.teams
  PROVE  LET t == b.teams[i]
             key == Ident!TeamKey(t.ext)
             id == Ident!TeamId(t)
         IN  /\ key \in DOMAIN mapped => id = mapped[key]
             /\ \/ id \in DOMAIN teams /\ teams[id].edition = Edition
                \/ id = key
             /\ id \notin DOMAIN OtherTeams
<1> DEFINE t == b.teams[i]
           key == Ident!TeamKey(t.ext)
           id == Ident!TeamId(t)
<1>1. /\ IdentInv /\ b \in Bundles /\ Ident!MappingsStand /\ Ident!SourceIdentitiesAssumption
      /\ OthersStand
  BY DEF Applying, IdentInv
<1>2. key \in DOMAIN mapped =>
         mapped[key] \in DOMAIN teams /\ teams[mapped[key]].edition = Edition
  BY <1>1, KeysDiffer DEF Ident!MappingsStand
<1>3. \A r \in DOMAIN OtherTeams : teams[r].edition # Edition
  BY <1>1 DEF OthersStand, Ident!SourceIdentitiesAssumption
<1>4. key \notin DOMAIN OtherTeams
  BY <1>1, BundleLists
<1>5. CASE Ident!TeamBefore(t) = {}
  <2>1. id = key /\ key \notin DOMAIN mapped
    BY <1>5 DEF Ident!TeamId, Ident!TeamBefore
  <2> QED BY <1>4, <2>1
<1>6. CASE Ident!TeamBefore(t) # {}
  <2>1. id \in Ident!TeamBefore(t)
    BY <1>6 DEF Ident!TeamId
  <2>2. id \in DOMAIN teams /\ teams[id].edition = Edition
    BY <1>2, <2>1 DEF Ident!TeamBefore
  <2>3. key \in DOMAIN mapped => id = mapped[key]
    BY <2>1 DEF Ident!TeamBefore
  <2> QED BY <1>3, <2>2, <2>3
<1> QED BY <1>5, <1>6

\* Every identity of the bundle is mapped to its row, the others stay.
LEMMA TargetsOfApply ==
  ASSUME NEW b, Applying(b)
  PROVE  /\ DOMAIN mapped' = DOMAIN mapped \cup Ident!Identities(b)
         /\ \A i \in DOMAIN b.teams :
               mapped'[Ident!TeamKey(b.teams[i].ext)] = Ident!TeamId(b.teams[i])
         /\ \A i \in DOMAIN b.players :
               mapped'[Ident!PlayerKey(b.players[i].ext)] = Ident!PlayerId(b.players[i])
         /\ \A k \in DOMAIN mapped : k \in DOMAIN mapped' /\ mapped'[k] = mapped[k]
<1>1. /\ b \in Bundles /\ Ident!Valid(b) /\ mapped' = Ident!MappedAfter(b)
      /\ Ident!SourceIdentitiesAssumption
  BY DEF Applying, Ident!Apply, Ident!Applies, Ident!Fits, Ident!PreviewIsClean
<1>2. /\ DOMAIN mapped' = DOMAIN mapped \cup Ident!Identities(b)
      /\ \A k \in Ident!Identities(b) : mapped'[k] = Ident!MappingTarget(b, k)
      /\ \A k \in DOMAIN mapped \ Ident!Identities(b) : mapped'[k] = mapped[k]
  BY <1>1 DEF Ident!MappedAfter
<1>3. /\ \A i, j \in DOMAIN b.teams : b.teams[i].ext = b.teams[j].ext => i = j
      /\ \A i, j \in DOMAIN b.players : b.players[i].ext = b.players[j].ext => i = j
  <2> DEFINE f == [i \in DOMAIN b.teams |-> b.teams[i].ext]
             g == [i \in DOMAIN b.players |-> b.players[i].ext]
  <2>1. /\ \A i, j \in DOMAIN f : f[i] = f[j] => i = j
        /\ \A i, j \in DOMAIN g : g[i] = g[j] => i = j
    BY <1>1 DEF Ident!Valid, Ident!Unique
  <2> QED BY <2>1
<1>4. ASSUME NEW i \in DOMAIN b.teams
      PROVE  mapped'[Ident!TeamKey(b.teams[i].ext)] = Ident!TeamId(b.teams[i])
  <2> DEFINE k == Ident!TeamKey(b.teams[i].ext)
             c == CHOOSE j \in DOMAIN b.teams : Ident!TeamKey(b.teams[j].ext) = k
  <2>1. c \in DOMAIN b.teams /\ Ident!TeamKey(b.teams[c].ext) = k
    OBVIOUS
  <2>2. c = i
    BY <1>3, <2>1, KeysDiffer
  <2>3. k \in {Ident!TeamKey(ext) : ext \in Ident!TeamExts(b)}
    BY DEF Ident!TeamExts
  <2>4. Ident!MappingTarget(b, k) = Ident!TeamId(b.teams[c])
    BY <2>3 DEF Ident!MappingTarget
  <2>5. k \in Ident!Identities(b)
    BY <1>1, BundleLists
  <2> HIDE DEF c
  <2> QED BY <1>2, <2>2, <2>4, <2>5
<1>5. ASSUME NEW i \in DOMAIN b.players
      PROVE  mapped'[Ident!PlayerKey(b.players[i].ext)] = Ident!PlayerId(b.players[i])
  <2> DEFINE k == Ident!PlayerKey(b.players[i].ext)
             c == CHOOSE j \in DOMAIN b.players : Ident!PlayerKey(b.players[j].ext) = k
  <2>1. c \in DOMAIN b.players /\ Ident!PlayerKey(b.players[c].ext) = k
    OBVIOUS
  <2>2. c = i
    BY <1>3, <2>1, KeysDiffer
  <2>3. k \notin {Ident!TeamKey(ext) : ext \in Ident!TeamExts(b)}
    BY KeysDiffer
  <2>4. Ident!MappingTarget(b, k) = Ident!PlayerId(b.players[c])
    BY <2>3 DEF Ident!MappingTarget
  <2>5. k \in Ident!Identities(b)
    BY <1>1, BundleLists
  <2> HIDE DEF c
  <2> QED BY <1>2, <2>2, <2>4, <2>5
<1>6. ASSUME NEW k \in DOMAIN mapped PROVE k \in DOMAIN mapped' /\ mapped'[k] = mapped[k]
  <2>1. CASE k \notin Ident!Identities(b)
    BY <1>2, <2>1
  <2>2. ASSUME NEW i \in DOMAIN b.teams, k = Ident!TeamKey(b.teams[i].ext)
        PROVE  mapped'[k] = mapped[k]
    BY <1>4, <2>2, TeamIsFound
  <2>3. ASSUME NEW i \in DOMAIN b.players, k = Ident!PlayerKey(b.players[i].ext)
        PROVE  mapped'[k] = mapped[k]
    BY <1>5, <2>3, PlayerIsFound
  <2> QED BY <1>1, <1>2, <2>1, <2>2, <2>3, BundleLists
<1> QED BY <1>2, <1>4, <1>5, <1>6

-----------------------------------------------------------------------------
(* The identities of an import: the rows after an apply                    *)

LEMMA PlayersOfApply ==
  ASSUME NEW b, Applying(b)
  PROVE  /\ \A r \in DOMAIN players :
               /\ r \in DOMAIN players' /\ players'[r].cd = players[r].cd
               /\ players[r].cd # None => players'[r].name = players[r].name
         /\ \A r \in DOMAIN players' : r \in DOMAIN players \/ r \in DOMAIN mapped'
         /\ PlayerRows' /\ OneForEachReview'
         /\ \A i \in DOMAIN b.players :
               LET p == b.players[i]
                   id == Ident!PlayerId(p)
               IN  /\ id \in DOMAIN players'
                   /\ \E j \in DOMAIN b.players :
                         /\ Ident!PlayerId(b.players[j]) = id
                         /\ players'[id].cd = None => players'[id].name = b.players[j].name
                   /\ id \notin DOMAIN players => players'[id] = Ident!Created(p)
<1> DEFINE n == Len(b.players)
           plans == Ident!PlayerPlans(b)
           key(i) == Ident!PlayerKey(b.players[i].ext)
           id(i) == Ident!PlayerId(b.players[i])
<1>1. /\ b \in Bundles /\ Ident!Valid(b) /\ players' = Ident!Settled(players, plans)
      /\ Ident!SourceIdentitiesAssumption /\ IdentInv /\ Ident!ReviewsAreUnique(b)
  BY DEF Applying, Ident!Apply, Ident!Applies, Ident!Fits, Ident!PreviewIsClean
<1>2. n \in Nat /\ DOMAIN b.players = 1..n
  BY <1>1, BundleLists
<1>3. /\ DOMAIN plans = 1..n /\ Len(plans) = n
      /\ \A i \in 1..n : plans[i].row = id(i)
  BY <1>2 DEF Ident!PlayerPlans
<1>16. \A i \in 1..n :
          plans[i].wants = IF Ident!PlayerBefore(b.players[i]) = {}
                           THEN Ident!Created(b.players[i])
                           ELSE Ident!Desired(players[id(i)], b.players[i])
  BY <1>2 DEF Ident!PlayerPlans
<1>4. \A i, j \in DOMAIN b.players : b.players[i].ext = b.players[j].ext => i = j
  <2> DEFINE g == [i \in DOMAIN b.players |-> b.players[i].ext]
  <2>1. \A i, j \in DOMAIN g : g[i] = g[j] => i = j
    BY <1>1 DEF Ident!Valid, Ident!Unique
  <2> QED BY <2>1
<1> HIDE DEF plans, n, id, key
<1>5. /\ n \in Nat /\ DOMAIN plans = 1..n /\ Len(plans) = n
      /\ players' = Ident!Settled(players, plans)
  BY <1>1, <1>2, <1>3 DEF n
<1>17. \A r : r \in DOMAIN players' <=>
          r \in DOMAIN players \/ (\E i \in 1..n : plans[i].row = r)
  BY <1>5, RowsSettled
<1>18. ASSUME NEW r \in DOMAIN players, players'[r] # players[r]
       PROVE  \E i \in 1..n : plans[i].row = r /\ players'[r] = plans[i].wants
  BY <1>5, <1>18, RowSettled
<1>19. ASSUME NEW r, NEW i \in 1..n, plans[i].row = r
       PROVE  \E j \in 1..n : plans[j].row = r /\ players'[r] = plans[j].wants
  BY <1>5, <1>19, RowPlanned
<1>6. /\ \A r : r \in DOMAIN players' <=>
            r \in DOMAIN players \/ (\E i \in 1..n : id(i) = r)
      /\ \A r \in DOMAIN players :
            \/ players'[r] = players[r]
            \/ \E i \in 1..n : id(i) = r /\ players'[r] = plans[i].wants
      /\ \A i \in 1..n : \E j \in 1..n : id(j) = id(i) /\ players'[id(i)] = plans[j].wants
  <2>1. \A i \in 1..n : plans[i].row = id(i)
    BY <1>3
  <2>2. \A r : r \in DOMAIN players' <=>
           r \in DOMAIN players \/ (\E i \in 1..n : id(i) = r)
    BY <1>17, <2>1
  <2>3. \A r \in DOMAIN players :
           \/ players'[r] = players[r]
           \/ \E i \in 1..n : id(i) = r /\ players'[r] = plans[i].wants
    BY <1>18, <2>1
  <2>4. \A i \in 1..n : \E j \in 1..n : id(j) = id(i) /\ players'[id(i)] = plans[j].wants
    BY <1>19, <2>1
  <2> QED BY <2>2, <2>3, <2>4
<1>7. \A i \in 1..n :
         /\ key(i) \in DOMAIN mapped => id(i) = mapped[key(i)]
         /\ \/ Ident!PlayerBefore(b.players[i]) # {} /\ id(i) \in DOMAIN players
            \/ /\ Ident!PlayerBefore(b.players[i]) = {} /\ id(i) = key(i)
               /\ key(i) \notin DOMAIN players /\ key(i) \notin DOMAIN mapped
  BY <1>2, PlayerIsFound DEF id, key
<1>8. \A r \in DOMAIN players :
         players[r] =
            [name |-> players[r].name, cd |-> players[r].cd, photo |-> players[r].photo]
  BY <1>1 DEF IdentInv, PlayerRows
\* What a plan wants of a row that exists.
<1>9. ASSUME NEW i \in 1..n, id(i) \in DOMAIN players, NEW row, row = players[id(i)],
             NEW wants, wants = plans[i].wants
      PROVE  /\ wants = [name |-> wants.name, cd |-> wants.cd, photo |-> wants.photo]
             /\ wants.cd = row.cd
             /\ row.cd # None => wants.name = row.name
             /\ row.cd = None => wants.name = b.players[i].name
  <2> DEFINE p == b.players[i]
  <2>1. wants = Ident!Desired(row, p)
    BY <1>7, <1>9, <1>16
  <2>2. row = [name |-> row.name, cd |-> row.cd, photo |-> row.photo]
    BY <1>8, <1>9
  <2> HIDE DEF p
  <2>3. CASE row.cd = None
    <3>1. wants = [row EXCEPT !.name = p.name, !.photo = Ident!Photo(row, p)]
      BY <2>1, <2>3 DEF Ident!Desired
    <3>2. wants = [name |-> p.name, cd |-> row.cd, photo |-> Ident!Photo(row, p)]
      BY <2>2, <3>1
    <3> QED BY <2>3, <3>2 DEF p
  <2>4. CASE row.cd # None
    <3>1. CASE wants = row
      BY <2>2, <2>4, <3>1
    <3>2. CASE wants = [row EXCEPT !.photo = Ident!Photo(row, p)]
      <4>1. wants = [name |-> row.name, cd |-> row.cd, photo |-> Ident!Photo(row, p)]
        BY <2>2, <3>2
      <4> QED BY <2>4, <4>1
    <3> QED BY <2>1, <2>4, <3>1, <3>2 DEF Ident!Desired
  <2> QED BY <2>3, <2>4
\* A row that is made is made once.
<1>10. ASSUME NEW i \in 1..n, id(i) \notin DOMAIN players
       PROVE  players'[id(i)] = Ident!Created(b.players[i])
  <2>1. PICK j \in 1..n : id(j) = id(i) /\ players'[id(i)] = plans[j].wants
    BY <1>6
  <2>2. /\ id(i) = key(i) /\ id(j) = key(j) /\ Ident!PlayerBefore(b.players[j]) = {}
    BY <1>7, <1>10, <2>1
  <2>3. b.players[i].ext = b.players[j].ext
    BY <2>1, <2>2, KeysDiffer DEF key
  <2>4. i = j
    BY <1>2, <1>4, <2>3
  <2> QED BY <1>16, <2>1, <2>2, <2>4
<1>11. ASSUME NEW r \in DOMAIN players
       PROVE  /\ r \in DOMAIN players' /\ players'[r].cd = players[r].cd
              /\ players[r].cd # None => players'[r].name = players[r].name
              /\ players'[r] = [name |-> players'[r].name, cd |-> players'[r].cd,
                                photo |-> players'[r].photo]
  <2>1. r \in DOMAIN players'
    BY <1>6
  <2>2. CASE players'[r] = players[r]
    BY <1>8, <2>1, <2>2
  <2>3. ASSUME NEW i \in 1..n, id(i) = r, players'[r] = plans[i].wants
        PROVE  /\ players'[r].cd = players[r].cd
               /\ players[r].cd # None => players'[r].name = players[r].name
               /\ players'[r] = [name |-> players'[r].name, cd |-> players'[r].cd,
                                 photo |-> players'[r].photo]
    BY <1>9, <2>3
  <2> QED BY <1>6, <2>1, <2>2, <2>3
<1>12. ASSUME NEW i \in 1..n
       PROVE  /\ id(i) \in DOMAIN players'
              /\ \E j \in 1..n :
                    /\ id(j) = id(i)
                    /\ players'[id(i)].cd = None => players'[id(i)].name = b.players[j].name
  <2>1. id(i) \in DOMAIN players'
    BY <1>6
  <2>2. CASE id(i) \in DOMAIN players
    <3>1. PICK j \in 1..n : id(j) = id(i) /\ players'[id(i)] = plans[j].wants
      BY <1>6
    <3>2. players'[id(i)].cd = None => players'[id(i)].name = b.players[j].name
      BY <1>9, <2>2, <3>1
    <3> QED BY <2>1, <3>1, <3>2
  <2>3. CASE id(i) \notin DOMAIN players
    <3>1. players'[id(i)] = Ident!Created(b.players[i])
      BY <1>10, <2>3
    <3>2. players'[id(i)].name = b.players[i].name
      BY <3>1 DEF Ident!Created
    <3> QED BY <2>1, <3>2
  <2> QED BY <2>2, <2>3
<1>13. PlayerRows'
  <2>1. ASSUME NEW r \in DOMAIN players'
        PROVE  players'[r] = [name |-> players'[r].name, cd |-> players'[r].cd,
                              photo |-> players'[r].photo]
    <3>1. CASE r \in DOMAIN players
      BY <1>11, <3>1
    <3>2. ASSUME NEW i \in 1..n, r = id(i), r \notin DOMAIN players
          PROVE  players'[r] = [name |-> players'[r].name, cd |-> players'[r].cd,
                                photo |-> players'[r].photo]
      <4>1. players'[r] = Ident!Created(b.players[i])
        BY <1>10, <3>2
      <4> QED BY <4>1 DEF Ident!Created
    <3> QED BY <1>6, <3>1, <3>2
  <2> QED BY <2>1 DEF PlayerRows
<1>14. OneForEachReview'
  BY <1>1 DEF Ident!ReviewsAreUnique, OneForEachReview, plans
<1>15. \A r \in DOMAIN players' : r \in DOMAIN players \/ r \in DOMAIN mapped'
  <2>1. ASSUME NEW i \in 1..n, id(i) \notin DOMAIN players PROVE id(i) \in DOMAIN mapped'
    <3>1. id(i) = key(i)
      BY <1>7, <2>1
    <3>2. key(i) \in Ident!Identities(b)
      BY <1>1, <1>2, BundleLists DEF key
    <3> QED BY <3>1, <3>2, TargetsOfApply
  <2> QED BY <1>6, <2>1
<1> QED BY <1>2, <1>10, <1>11, <1>12, <1>13, <1>14, <1>15 DEF id

LEMMA TeamsOfApply ==
  ASSUME NEW b, Applying(b)
  PROVE  /\ OthersStand'
         /\ \A r \in DOMAIN teams' : r \in DOMAIN teams \/ r \in DOMAIN mapped'
         /\ \A r \in DOMAIN teams :
               /\ r \in DOMAIN teams'
               /\ teams[r].edition = Edition => teams'[r].edition = Edition
         /\ \A i \in DOMAIN b.teams :
               LET id == Ident!TeamId(b.teams[i])
               IN  /\ id \in DOMAIN teams' /\ teams'[id].edition = Edition
                   /\ \E j \in DOMAIN b.teams :
                         /\ Ident!TeamId(b.teams[j]) = id
                         /\ teams'[id] = [slug |-> b.teams[j].slug, name |-> b.teams[j].name,
                                          edition |-> Edition]
                   /\ \E j \in DOMAIN b.teams :
                         /\ Ident!TeamId(b.teams[j]) = id
                         /\ entries'[id] = [status |-> b.teams[j].status,
                                            name |-> b.teams[j].name]
<1> DEFINE n == Len(b.teams)
           plans == Ident!TeamPlans(b)
           places == Ident!EntryPlans(b)
           key(i) == Ident!TeamKey(b.teams[i].ext)
           id(i) == Ident!TeamId(b.teams[i])
<1>1. /\ b \in Bundles /\ Ident!Valid(b) /\ teams' = Ident!Settled(teams, plans)
      /\ entries' = Ident!Settled(entries, places)
      /\ Ident!SourceIdentitiesAssumption /\ IdentInv
  BY DEF Applying, Ident!Apply, Ident!Applies, Ident!Fits, Ident!PreviewIsClean
<1>2. n \in Nat /\ DOMAIN b.teams = 1..n
  BY <1>1, BundleLists
<1>3. /\ DOMAIN plans = 1..n /\ Len(plans) = n
      /\ \A i \in 1..n : plans[i].row = id(i)
  BY <1>2 DEF Ident!TeamPlans
<1>15. \A i \in 1..n :
          /\ plans[i].wants = [slug |-> b.teams[i].slug, name |-> b.teams[i].name,
                               edition |-> Edition]
          /\ plans[i].wants.edition = Edition
  BY <1>2 DEF Ident!TeamPlans
<1>4. /\ DOMAIN places = 1..n /\ Len(places) = n
      /\ \A i \in 1..n : places[i].row = id(i)
  BY <1>2 DEF Ident!EntryPlans
<1>16. \A i \in 1..n :
          places[i].wants = [status |-> b.teams[i].status, name |-> b.teams[i].name]
  BY <1>2 DEF Ident!EntryPlans
<1> HIDE DEF plans, places, n, id, key
<1>5. /\ n \in Nat /\ DOMAIN plans = 1..n /\ Len(plans) = n
      /\ teams' = Ident!Settled(teams, plans)
  BY <1>1, <1>2, <1>3 DEF n
<1>17. \A r : r \in DOMAIN teams' <=>
          r \in DOMAIN teams \/ (\E i \in 1..n : plans[i].row = r)
  BY <1>5, RowsSettled
<1>18. ASSUME NEW r \in DOMAIN teams, teams'[r] # teams[r]
       PROVE  \E i \in 1..n : plans[i].row = r /\ teams'[r] = plans[i].wants
  BY <1>5, <1>18, RowSettled
<1>19. ASSUME NEW r, NEW i \in 1..n, plans[i].row = r
       PROVE  \E j \in 1..n : plans[j].row = r /\ teams'[r] = plans[j].wants
  BY <1>5, <1>19, RowPlanned
<1>20. /\ n \in Nat /\ DOMAIN places = 1..n /\ Len(places) = n
       /\ entries' = Ident!Settled(entries, places)
  BY <1>1, <1>2, <1>4 DEF n
<1>6. ASSUME NEW r, NEW i \in 1..n, places[i].row = r
      PROVE  \E j \in 1..n : places[j].row = r /\ entries'[r] = places[j].wants
  BY <1>6, <1>20, RowPlanned
<1>7. /\ \A r : r \in DOMAIN teams' <=>
            r \in DOMAIN teams \/ (\E i \in 1..n : id(i) = r)
      /\ \A r \in DOMAIN teams :
            \/ teams'[r] = teams[r]
            \/ \E i \in 1..n : id(i) = r /\ teams'[r] = plans[i].wants
      /\ \A i \in 1..n : \E j \in 1..n : id(j) = id(i) /\ teams'[id(i)] = plans[j].wants
  <2>1. \A i \in 1..n : plans[i].row = id(i)
    BY <1>3
  <2>2. \A r : r \in DOMAIN teams' <=>
           r \in DOMAIN teams \/ (\E i \in 1..n : id(i) = r)
    BY <1>17, <2>1
  <2>3. \A r \in DOMAIN teams :
           \/ teams'[r] = teams[r]
           \/ \E i \in 1..n : id(i) = r /\ teams'[r] = plans[i].wants
    BY <1>18, <2>1
  <2>4. \A i \in 1..n : \E j \in 1..n : id(j) = id(i) /\ teams'[id(i)] = plans[j].wants
    BY <1>19, <2>1
  <2> QED BY <2>2, <2>3, <2>4
<1>8. \A i \in 1..n : \E j \in 1..n : id(j) = id(i) /\ entries'[id(i)] = places[j].wants
  BY <1>4, <1>6
<1>9. \A i \in 1..n :
         /\ key(i) \in DOMAIN mapped => id(i) = mapped[key(i)]
         /\ id(i) \in DOMAIN teams \/ id(i) = key(i)
         /\ id(i) \notin DOMAIN OtherTeams
  BY <1>2, TeamIsFound DEF id, key
<1>10. OthersStand'
  <2>1. ASSUME NEW r \in DOMAIN OtherTeams
        PROVE  r \in DOMAIN teams' /\ teams'[r] = OtherTeams[r]
    <3>1. r \in DOMAIN teams /\ teams[r] = OtherTeams[r]
      BY <1>1 DEF IdentInv, OthersStand
    <3>2. \A i \in 1..n : id(i) # r
      BY <1>9
    <3> QED BY <1>7, <3>1, <3>2
  <2> QED BY <2>1 DEF OthersStand
<1>11. \A r \in DOMAIN teams' : r \in DOMAIN teams \/ r \in DOMAIN mapped'
  <2>1. ASSUME NEW i \in 1..n, id(i) \notin DOMAIN teams PROVE id(i) \in DOMAIN mapped'
    <3>1. id(i) = key(i)
      BY <1>9, <2>1
    <3>2. key(i) \in Ident!Identities(b)
      BY <1>1, <1>2, BundleLists DEF key
    <3> QED BY <3>1, <3>2, TargetsOfApply
  <2> QED BY <1>7, <2>1
<1>12. \A i \in 1..n : id(i) \in DOMAIN teams' /\ teams'[id(i)].edition = Edition
  <2>1. ASSUME NEW i \in 1..n
        PROVE  id(i) \in DOMAIN teams' /\ teams'[id(i)].edition = Edition
    <3>1. PICK j \in 1..n : id(j) = id(i) /\ teams'[id(i)] = plans[j].wants
      BY <1>7
    <3>2. plans[j].wants.edition = Edition
      BY <1>15
    <3>3. id(i) \in DOMAIN teams'
      BY <1>7
    <3> QED BY <3>1, <3>2, <3>3
  <2> QED BY <2>1
<1>13. ASSUME NEW r \in DOMAIN teams
       PROVE  /\ r \in DOMAIN teams'
              /\ teams[r].edition = Edition => teams'[r].edition = Edition
  <2>1. r \in DOMAIN teams'
    BY <1>7
  <2>2. \A i \in 1..n : plans[i].wants.edition = Edition
    BY <1>15
  <2> QED BY <1>7, <2>1, <2>2
<1>14. ASSUME NEW i \in 1..n
       PROVE  /\ \E j \in 1..n : /\ id(j) = id(i)
                                 /\ teams'[id(i)] = [slug |-> b.teams[j].slug,
                                       name |-> b.teams[j].name, edition |-> Edition]
              /\ \E j \in 1..n : /\ id(j) = id(i)
                                 /\ entries'[id(i)] = [status |-> b.teams[j].status,
                                                       name |-> b.teams[j].name]
  <2>1. PICK j \in 1..n : id(j) = id(i) /\ teams'[id(i)] = plans[j].wants
    BY <1>7
  <2>2. PICK k \in 1..n : id(k) = id(i) /\ entries'[id(i)] = places[k].wants
    BY <1>8
  <2> QED BY <1>15, <1>16, <2>1, <2>2
<1> QED BY <1>2, <1>10, <1>11, <1>12, <1>13, <1>14 DEF id

-----------------------------------------------------------------------------
(* The identities of an import: what an apply keeps                        *)

\* An identity keeps its row, and a player of Champion Data the name.
LEMMA ApplyKeepsIdentities ==
  ASSUME NEW b, Applying(b)
  PROVE  Ident!IdentitiesStay
<1>1. OthersStand'
  BY TeamsOfApply
<1> QED BY <1>1, TargetsOfApply, PlayersOfApply DEF Ident!IdentitiesStay, OthersStand

LEMMA ApplyKeepsMappings ==
  ASSUME NEW b, Applying(b)
  PROVE  /\ Ident!MappingsStand' /\ MappedByApplied'
         /\ RowsOf(teams, OtherTeams)' /\ RowsOf(players, LeaguePlayers)'
<1>1. /\ b \in Bundles /\ IdentInv /\ Ident!MappingsStand /\ MappedByApplied
      /\ Ident!SourceIdentitiesAssumption /\ Ident!Valid(b) /\ Ident!TeamsAreGiven(b)
      /\ applied' = Append(applied, b)
      /\ RowsOf(teams, OtherTeams) /\ RowsOf(players, LeaguePlayers)
  BY DEF Applying, Ident!Apply, Ident!Applies, Ident!Fits, Ident!PreviewIsClean, IdentInv
<1>2. /\ applied \in Seq(Bundles) /\ applied' \in Seq(Bundles)
      /\ DOMAIN applied' = DOMAIN applied \cup {Len(applied) + 1}
      /\ \A i \in DOMAIN applied : applied'[i] = applied[i]
      /\ applied'[Len(applied) + 1] = b
  BY <1>1 DEF MappedByApplied
<1>3. /\ DOMAIN mapped' = DOMAIN mapped \cup Ident!Identities(b)
      /\ \A k \in DOMAIN mapped : k \in DOMAIN mapped' /\ mapped'[k] = mapped[k]
  BY TargetsOfApply
<1>4. ASSUME NEW k \in DOMAIN mapped'
      PROVE  IF k[1] = "TEAM"
             THEN mapped'[k] \in DOMAIN teams' /\ teams'[mapped'[k]].edition = Edition
             ELSE mapped'[k] \in DOMAIN players'
  <2>1. CASE k \in DOMAIN mapped
    <3>1. mapped'[k] = mapped[k]
      BY <1>3, <2>1
    <3>2. CASE k[1] = "TEAM"
      <4>1. mapped[k] \in DOMAIN teams /\ teams[mapped[k]].edition = Edition
        BY <1>1, <2>1, <3>2 DEF Ident!MappingsStand
      <4> QED BY <3>1, <3>2, <4>1, TeamsOfApply
    <3>3. CASE k[1] # "TEAM"
      <4>1. mapped[k] \in DOMAIN players
        BY <1>1, <2>1, <3>3 DEF Ident!MappingsStand
      <4> QED BY <3>1, <3>3, <4>1, PlayersOfApply
    <3> QED BY <3>2, <3>3
  <2>2. ASSUME NEW i \in DOMAIN b.teams, k = Ident!TeamKey(b.teams[i].ext)
        PROVE  /\ k[1] = "TEAM" /\ mapped'[k] \in DOMAIN teams'
               /\ teams'[mapped'[k]].edition = Edition
    <3>1. mapped'[k] = Ident!TeamId(b.teams[i])
      BY <2>2, TargetsOfApply
    <3>2. k[1] = "TEAM"
      BY <2>2, KeysDiffer
    <3> QED BY <3>1, <3>2, TeamsOfApply
  <2>3. ASSUME NEW i \in DOMAIN b.players, k = Ident!PlayerKey(b.players[i].ext)
        PROVE  k[1] # "TEAM" /\ mapped'[k] \in DOMAIN players'
    <3>1. mapped'[k] = Ident!PlayerId(b.players[i])
      BY <2>3, TargetsOfApply
    <3>2. k[1] # "TEAM"
      BY <2>3, KeysDiffer
    <3> QED BY <3>1, <3>2, PlayersOfApply
  <2> QED BY <1>1, <1>3, <2>1, <2>2, <2>3, BundleLists
<1>5. Ident!MappingsStand'
  BY <1>4 DEF Ident!MappingsStand
<1>6. ASSUME NEW k \in DOMAIN mapped'
      PROVE  \E i \in DOMAIN applied' : k \in Ident!Identities(applied'[i])
  <2>1. CASE k \in DOMAIN mapped
    <3>1. PICK i \in DOMAIN applied : k \in Ident!Identities(applied[i])
      BY <1>1, <2>1 DEF MappedByApplied
    <3> QED BY <1>2, <3>1
  <2>2. CASE k \in Ident!Identities(b)
    BY <1>2, <2>2
  <2> QED BY <1>3, <2>1, <2>2
<1>7. ASSUME NEW i \in DOMAIN applied'
      PROVE  /\ Ident!Valid(applied'[i]) /\ Ident!TeamsAreGiven(applied'[i])
             /\ Ident!Identities(applied'[i]) \subseteq DOMAIN mapped'
  <2>1. CASE i \in DOMAIN applied
    <3>1. /\ Ident!Valid(applied[i]) /\ Ident!TeamsAreGiven(applied[i])
          /\ Ident!Identities(applied[i]) \subseteq DOMAIN mapped
      BY <1>1, <2>1 DEF MappedByApplied
    <3> QED BY <1>2, <1>3, <2>1, <3>1
  <2>2. CASE i = Len(applied) + 1
    BY <1>1, <1>2, <1>3, <2>2
  <2> QED BY <1>2, <2>1, <2>2
<1>8. MappedByApplied'
  BY <1>2, <1>6, <1>7 DEF MappedByApplied
<1>9. RowsOf(teams, OtherTeams)'
  BY <1>1, <1>3, TeamsOfApply DEF RowsOf
<1>10. RowsOf(players, LeaguePlayers)'
  BY <1>1, <1>3, PlayersOfApply DEF RowsOf
<1> QED BY <1>5, <1>8, <1>9, <1>10

LEMMA ApplyKeepsRows ==
  ASSUME NEW b, Applying(b)
  PROVE  Ident!OneRowEach'
<1>1. /\ b \in Bundles /\ Ident!SourceIdentitiesAssumption /\ Ident!OneRowEach
      /\ Ident!MappingsStand
  BY DEF Applying, IdentInv
<1>2. /\ DOMAIN mapped' = DOMAIN mapped \cup Ident!Identities(b)
      /\ \A k \in DOMAIN mapped : mapped'[k] = mapped[k]
  BY TargetsOfApply
<1>3. \A k \in DOMAIN mapped : k[1] = "PLAYER" => mapped[k] \in DOMAIN players
  BY <1>1 DEF Ident!MappingsStand
\* A player who is mapped for the first time has a row that is reviewed, or a new one.
<1>4. ASSUME NEW k \in DOMAIN mapped' \ DOMAIN mapped, k[1] = "PLAYER"
      PROVE  \A r : r = mapped'[k] => /\ r # k => players'[r].cd # None
                                      /\ r = k => r \notin DOMAIN players
  <2>1. PICK i \in DOMAIN b.players : k = Ident!PlayerKey(b.players[i].ext)
    BY <1>1, <1>2, <1>4, BundleLists, KeysDiffer
  <2> DEFINE p == b.players[i]
  <2>2. mapped'[k] = Ident!PlayerId(p)
    BY <2>1, TargetsOfApply
  <2>3. CASE Ident!Canonical(p) # {}
    <3>1. Ident!PlayerId(p) \in Ident!Canonical(p)
      BY <2>3, PlayerIsFound
    <3>2. Ident!PlayerId(p) \in DOMAIN players /\ players[Ident!PlayerId(p)].cd # None
      BY <3>1 DEF Ident!Canonical
    <3>3. k \notin DOMAIN players
      BY <1>1, <1>4, <2>1, BundleLists DEF Applying, IdentInv, RowsOf
    <3> QED BY <2>2, <3>2, <3>3, PlayersOfApply
  <2>4. CASE Ident!Canonical(p) = {}
    <3>1. Ident!PlayerBefore(p) = {}
      BY <1>4, <2>1, <2>4 DEF Ident!PlayerBefore
    <3>2. Ident!PlayerId(p) = k /\ k \notin DOMAIN players
      BY <2>1, <3>1, PlayerIsFound
    <3> QED BY <2>2, <3>2, PlayersOfApply
  <2> QED BY <2>3, <2>4
<1>5. ASSUME NEW k \in DOMAIN mapped', NEW l \in DOMAIN mapped', NEW r,
             k # l, k[1] = "PLAYER", l[1] = "PLAYER", mapped'[k] = r, mapped'[l] = r
      PROVE  players'[r].cd # None
  <2>1. CASE k \in DOMAIN mapped /\ l \in DOMAIN mapped
    <3>1. mapped[k] = r /\ mapped[l] = r /\ r \in DOMAIN players
      BY <1>2, <1>3, <1>5, <2>1
    <3>2. players[r].cd # None
      BY <1>1, <1>5, <2>1, <3>1 DEF Ident!OneRowEach
    <3> QED BY <3>1, <3>2, PlayersOfApply
  <2>2. CASE k \notin DOMAIN mapped /\ l \in DOMAIN mapped
    <3>1. r \in DOMAIN players
      BY <1>2, <1>3, <1>5, <2>2
    <3> QED BY <1>4, <1>5, <2>2, <3>1
  <2>3. CASE k \in DOMAIN mapped /\ l \notin DOMAIN mapped
    <3>1. r \in DOMAIN players
      BY <1>2, <1>3, <1>5, <2>3
    <3> QED BY <1>4, <1>5, <2>3, <3>1
  <2>4. CASE k \notin DOMAIN mapped /\ l \notin DOMAIN mapped
    BY <1>4, <1>5, <2>4
  <2> QED BY <2>1, <2>2, <2>3, <2>4
<1> QED BY <1>5 DEF Ident!OneRowEach

\* A reviewed player has the row of the review, of that name, the only one.
LEMMA ApplyKeepsReviews ==
  ASSUME NEW b, Applying(b)
  PROVE  Ident!ReviewedAreOne' /\ Ident!AppliedIsRepeatable'
<1>1. /\ b \in Bundles /\ Ident!SourceIdentitiesAssumption /\ IdentInv /\ MappedByApplied
      /\ Ident!ReviewedAreOne /\ Ident!AppliedIsRepeatable /\ Ident!ReviewFits(b)
      /\ applied' = Append(applied, b)
  BY DEF Applying, IdentInv, Ident!Apply, Ident!Applies, Ident!Fits
<1> DEFINE n == Len(applied)
<1>2. /\ applied \in Seq(Bundles) /\ n \in Nat /\ DOMAIN applied = 1..n
      /\ DOMAIN applied' = 1..n + 1 /\ applied'[n + 1] = b
      /\ \A i \in 1..n : applied'[i] = applied[i]
  BY <1>1 DEF MappedByApplied
<1>3. /\ MappedByApplied' /\ Ident!MappingsStand' /\ OneForEachReview'
  BY ApplyKeepsMappings, PlayersOfApply
\* What was reviewed late was so before.
<1>4. \A i \in 1..n : \A p : Ident!ReviewedLate(i, p)' <=> Ident!ReviewedLate(i, p)
  <2>1. SUFFICES ASSUME NEW i \in 1..n, NEW p
                 PROVE  Ident!ReviewedLate(i, p)' <=> Ident!ReviewedLate(i, p)
    OBVIOUS
  <2>2. \A j \in 1..i - 1 : applied'[j] = applied[j]
    BY <1>2
  <2> QED BY <2>2 DEF Ident!ReviewedLate
\* The row of the review, once there is one, is the only one.
<1>5. ASSUME NEW p, NEW r \in DOMAIN players', players'[r].cd = p.cd, p.cd # None
      PROVE  Ident!Canonical(p)' = {r}
  BY <1>3, <1>5 DEF Ident!Canonical, OneForEachReview
<1>6. ASSUME NEW i \in 1..n, NEW j \in DOMAIN applied[i].players, NEW p,
             p = applied[i].players[j], p.cd # None, ~Ident!ReviewedLate(i, p)
      PROVE  Ident!Canonical(p)' = {mapped'[Ident!PlayerKey(p.ext)]}
  <2> DEFINE k == Ident!PlayerKey(p.ext)
  <2>1. Ident!Canonical(p) = {mapped[k]}
    BY <1>1, <1>2, <1>6 DEF Ident!ReviewedAreOne
  <2>2. mapped[k] \in DOMAIN players /\ players[mapped[k]].cd = p.cd
    BY <2>1 DEF Ident!Canonical
  <2>3. k \in DOMAIN mapped
    <3>1. k \in Ident!Identities(applied[i]) /\ applied[i] \in Bundles
      BY <1>1, <1>2, <1>6, BundleLists
    <3> QED BY <1>1, <1>2, <3>1 DEF MappedByApplied
  <2>4. mapped'[k] = mapped[k]
    BY <2>3, TargetsOfApply
  <2>5. mapped'[k] \in DOMAIN players' /\ players'[mapped'[k]].cd = p.cd
    BY <2>2, <2>4, PlayersOfApply
  <2> QED BY <1>5, <1>6, <2>5
\* The row of a player of the bundle, and its name.
<1>7. ASSUME NEW j \in DOMAIN b.players, NEW p, p = b.players[j], p.cd # None,
             NEW m, m = n + 1, ~Ident!ReviewedLate(m, p)', NEW id, id = Ident!PlayerId(p)
      PROVE  /\ mapped'[Ident!PlayerKey(p.ext)] = id
             /\ Ident!Canonical(p)' = {id}
             /\ Plain[players'[id].name] = Plain[p.name]
  <2> DEFINE k == Ident!PlayerKey(p.ext)
  <2>1. mapped'[k] = id
    BY <1>7, TargetsOfApply
  <2>2. CASE Ident!Canonical(p) # {}
    <3>1. id \in Ident!Canonical(p)
      BY <1>7, <2>2, PlayerIsFound
    <3>2. id \in DOMAIN players /\ players[id].cd = p.cd
      BY <3>1 DEF Ident!Canonical
    <3>3. Plain[players[id].name] = Plain[p.name]
      BY <1>1, <1>7, <3>1 DEF Ident!ReviewFits
    <3>4. id \in DOMAIN players' /\ players'[id].cd = p.cd /\ players'[id].name = players[id].name
      BY <1>7, <3>2, PlayersOfApply
    <3>5. Ident!Canonical(p)' = {id}
      BY <1>5, <1>7, <3>4
    <3> QED BY <2>1, <3>3, <3>4, <3>5
  <2>3. CASE Ident!Canonical(p) = {}
    <3>1. k \notin DOMAIN mapped
      <4>1. SUFFICES ASSUME k \in DOMAIN mapped PROVE FALSE
        OBVIOUS
      <4>2. PICK i \in DOMAIN applied : k \in Ident!Identities(applied[i])
        BY <1>1, <4>1 DEF MappedByApplied
      <4>3. applied[i] \in Bundles
        BY <1>2
      <4>4. PICK l \in DOMAIN applied[i].players :
               k = Ident!PlayerKey(applied[i].players[l].ext)
        BY <1>1, <4>2, <4>3, BundleLists, KeysDiffer
      <4> DEFINE q == applied[i].players[l]
      <4>5. q.ext = p.ext
        BY <4>4, KeysDiffer
      <4>6. \A f \in 1..n : \A g \in DOMAIN applied[f].players :
               applied[f].players[g].ext = p.ext => applied[f].players[g].cd = p.cd
        <5>1. m - 1 = n
          BY <1>2, <1>7
        <5>2. \A f \in 1..n : \A g \in DOMAIN applied'[f].players :
                 applied'[f].players[g].ext = p.ext => applied'[f].players[g].cd = p.cd
          BY <1>7, <5>1 DEF Ident!ReviewedLate
        <5> QED BY <1>2, <5>2
      <4>7. q.cd = p.cd
        BY <1>2, <4>5, <4>6
      <4>8. ~Ident!ReviewedLate(i, q)
        <5>1. \A f \in 1..i - 1 : f \in 1..n
          BY <1>2
        <5> QED BY <4>5, <4>6, <4>7, <5>1 DEF Ident!ReviewedLate
      <4>9. Ident!Canonical(q) # {}
        BY <1>1, <1>7, <4>7, <4>8 DEF Ident!ReviewedAreOne
      <4>10. Ident!Canonical(q) = Ident!Canonical(p)
        BY <4>7 DEF Ident!Canonical
      <4> QED BY <2>3, <4>9, <4>10
    <3>2. Ident!PlayerBefore(p) = {}
      BY <2>3, <3>1 DEF Ident!PlayerBefore
    <3>3. id = k /\ k \notin DOMAIN players
      BY <1>7, <3>2, PlayerIsFound
    <3>4. id \in DOMAIN players' /\ players'[id] = Ident!Created(p)
      <4>1. LET q == b.players[j]
            IN  /\ Ident!PlayerId(q) \in DOMAIN players'
                /\ Ident!PlayerId(q) \notin DOMAIN players =>
                      players'[Ident!PlayerId(q)] = Ident!Created(q)
        BY PlayersOfApply
      <4> QED BY <1>7, <3>3, <4>1
    <3>5. players'[id].cd = p.cd /\ players'[id].name = p.name
      BY <3>4 DEF Ident!Created
    <3>6. Ident!Canonical(p)' = {id}
      BY <1>5, <1>7, <3>4, <3>5
    <3> QED BY <2>1, <3>5, <3>6
  <2> QED BY <2>2, <2>3
<1>8. Ident!ReviewedAreOne'
  <2>1. ASSUME NEW i \in DOMAIN applied', NEW j \in DOMAIN applied'[i].players, NEW p,
               p = applied'[i].players[j], p.cd # None, ~Ident!ReviewedLate(i, p)'
        PROVE  Ident!Canonical(p)' = {mapped'[Ident!PlayerKey(p.ext)]}
    <3>1. CASE i \in 1..n
      <4>1. p = applied[i].players[j] /\ j \in DOMAIN applied[i].players
        BY <1>2, <2>1, <3>1
      <4>2. ~Ident!ReviewedLate(i, p)
        BY <1>4, <2>1, <3>1
      <4> QED BY <1>6, <2>1, <3>1, <4>1, <4>2
    <3>2. CASE i = n + 1
      <4>1. j \in DOMAIN b.players /\ p = b.players[j]
        BY <1>2, <2>1, <3>2
      <4>2. p.cd # None /\ ~Ident!ReviewedLate(i, p)'
        BY <2>1
      <4>3. /\ mapped'[Ident!PlayerKey(p.ext)] = Ident!PlayerId(p)
            /\ Ident!Canonical(p)' = {Ident!PlayerId(p)}
        BY <1>7, <3>2, <4>1, <4>2
      <4> QED BY <4>3
    <3> QED BY <1>2, <3>1, <3>2
  <2> QED BY <2>1 DEF Ident!ReviewedAreOne
<1>9. ASSUME NEW i \in DOMAIN applied', NEW c, c = applied'[i],
             \A j \in DOMAIN c.players : ~Ident!ReviewedLate(i, c.players[j])'
      PROVE  Ident!Replays(c)'
  <2>1. /\ Ident!Valid(c) /\ Ident!TeamsAreGiven(c) /\ Ident!Identities(c) \subseteq DOMAIN mapped'
    BY <1>3, <1>9 DEF MappedByApplied
  <2>2. Ident!WasApplied(c)'
    BY <1>9 DEF Ident!WasApplied
  <2>3. Ident!PreviewIsClean(c)'
    BY <2>1 DEF Ident!PreviewIsClean, Ident!Resolved, Ident!TeamsAreGiven
  <2>4. ASSUME NEW j \in DOMAIN c.players, NEW p, p = c.players[j],
               NEW r \in Ident!Canonical(p)', NEW k, k = Ident!PlayerKey(p.ext)
        PROVE  /\ Plain[players'[r].name] = Plain[p.name]
               /\ k \in DOMAIN mapped' => mapped'[k] = r
    <3>1. p.cd # None /\ ~Ident!ReviewedLate(i, p)'
      BY <1>9, <2>4 DEF Ident!Canonical
    <3>2. CASE i = n + 1
      <4>1. c = b
        BY <1>2, <1>9, <3>2
      <4>2. /\ mapped'[k] = Ident!PlayerId(p) /\ Ident!Canonical(p)' = {Ident!PlayerId(p)}
            /\ Plain[players'[Ident!PlayerId(p)].name] = Plain[p.name]
        BY <1>7, <2>4, <3>1, <3>2, <4>1
      <4> QED BY <2>4, <4>2
    <3>3. CASE i \in 1..n
      <4>1. /\ c = applied[i] /\ \A f \in DOMAIN c.players : ~Ident!ReviewedLate(i, c.players[f])
        BY <1>2, <1>4, <1>9, <3>3
      <4>2. Ident!Replays(c)
        BY <1>1, <1>2, <3>3, <4>1 DEF Ident!AppliedIsRepeatable
      <4>3. Ident!ReviewFits(c)
        BY <4>2 DEF Ident!Replays, Ident!Fits
      <4>4. Ident!Canonical(p) = {mapped[k]}
        BY <1>1, <1>2, <2>4, <3>1, <3>3, <4>1 DEF Ident!ReviewedAreOne
      <4>5. Plain[players[mapped[k]].name] = Plain[p.name]
        BY <2>4, <4>3, <4>4 DEF Ident!ReviewFits
      <4>6. mapped[k] \in DOMAIN players /\ players[mapped[k]].cd # None
        BY <3>1, <4>4 DEF Ident!Canonical
      <4>7. Ident!Canonical(p)' = {mapped'[k]}
        <5>1. ~Ident!ReviewedLate(i, p)
          BY <2>4, <4>1
        <5> QED BY <1>6, <2>4, <3>1, <3>3, <4>1, <5>1
      <4>8. k \in DOMAIN mapped
        <5>1. c \in Bundles
          BY <1>2, <3>3, <4>1
        <5>2. k \in Ident!Identities(c)
          BY <1>1, <2>4, <5>1, BundleLists
        <5> QED BY <1>1, <1>2, <3>3, <4>1, <5>2 DEF MappedByApplied
      <4>9. mapped'[k] = mapped[k]
        BY <4>8, TargetsOfApply
      <4>10. r = mapped[k]
        BY <2>4, <4>7, <4>9
      <4>11. players'[r].name = players[r].name
        BY <4>6, <4>10, PlayersOfApply
      <4> QED BY <4>5, <4>9, <4>10, <4>11
    <3> QED BY <1>2, <3>2, <3>3
  <2>5. Ident!ReviewFits(c)'
    BY <2>4 DEF Ident!ReviewFits
  <2>6. Ident!Fits(c)'
    BY <1>3, <2>3, <2>5 DEF Ident!Fits
  <2> QED BY <2>1, <2>2, <2>6 DEF Ident!Replays
<1>10. Ident!AppliedIsRepeatable'
  BY <1>9 DEF Ident!AppliedIsRepeatable
<1> QED BY <1>8, <1>10

\* The edition is that of the bundle.
LEMMA ApplyMakesEdition ==
  ASSUME NEW b, Applying(b)
  PROVE  Ident!EditionIsTheLast'
<1>1. /\ b \in Bundles /\ Ident!SourceIdentitiesAssumption /\ IdentInv /\ Ident!Valid(b)
      /\ applied' = Append(applied, b) /\ coverage' = Ident!CompleteCoverageMatrix(b)
  BY DEF Applying, Ident!Apply, Ident!Applies, Ident!Fits, Ident!PreviewIsClean
<1>2. applied' # <<>> /\ Len(applied') = Len(applied) + 1 /\ applied'[Len(applied')] = b
  BY <1>1 DEF IdentInv, MappedByApplied
<1>3. \A i, j \in DOMAIN b.players : b.players[i].ext = b.players[j].ext => i = j
  <2> DEFINE g == [i \in DOMAIN b.players |-> b.players[i].ext]
  <2>1. \A i, j \in DOMAIN g : g[i] = g[j] => i = j
    BY <1>1 DEF Ident!Valid, Ident!Unique
  <2> QED BY <2>1
<1>4. ASSUME NEW i \in DOMAIN b.teams, NEW r, r = mapped'[Ident!TeamKey(b.teams[i].ext)]
      PROVE  /\ \E j \in DOMAIN b.teams :
                   /\ mapped'[Ident!TeamKey(b.teams[j].ext)] = r
                   /\ teams'[r] = [slug |-> b.teams[j].slug, name |-> b.teams[j].name,
                                   edition |-> Edition]
             /\ \E j \in DOMAIN b.teams :
                   /\ mapped'[Ident!TeamKey(b.teams[j].ext)] = r
                   /\ entries'[r] = [status |-> b.teams[j].status, name |-> b.teams[j].name]
  <2>1. \A j \in DOMAIN b.teams :
           mapped'[Ident!TeamKey(b.teams[j].ext)] = Ident!TeamId(b.teams[j])
    BY TargetsOfApply
  <2>2. r = Ident!TeamId(b.teams[i])
    BY <1>4, <2>1
  <2>3. PICK j \in DOMAIN b.teams :
           /\ Ident!TeamId(b.teams[j]) = r
           /\ teams'[r] = [slug |-> b.teams[j].slug, name |-> b.teams[j].name,
                           edition |-> Edition]
    BY <2>2, TeamsOfApply
  <2>4. PICK l \in DOMAIN b.teams :
           /\ Ident!TeamId(b.teams[l]) = r
           /\ entries'[r] = [status |-> b.teams[l].status, name |-> b.teams[l].name]
    BY <2>2, TeamsOfApply
  <2> QED BY <2>1, <2>3, <2>4
<1>5. ASSUME NEW i \in DOMAIN b.players, NEW r, r = mapped'[Ident!PlayerKey(b.players[i].ext)],
             players'[r].cd = None
      PROVE  players'[r].name = b.players[i].name
  <2>1. \A j \in DOMAIN b.players :
           mapped'[Ident!PlayerKey(b.players[j].ext)] = Ident!PlayerId(b.players[j])
    BY TargetsOfApply
  <2>2. r = Ident!PlayerId(b.players[i])
    BY <1>5, <2>1
  <2>3. PICK j \in DOMAIN b.players :
           /\ Ident!PlayerId(b.players[j]) = r
           /\ players'[r].cd = None => players'[r].name = b.players[j].name
    BY <2>2, PlayersOfApply
  <2> DEFINE k == Ident!PlayerKey(b.players[i].ext)
             l == Ident!PlayerKey(b.players[j].ext)
  <2>4. k \in DOMAIN mapped' /\ l \in DOMAIN mapped' /\ mapped'[k] = r /\ mapped'[l] = r
    BY <1>1, <1>5, <2>1, <2>3, BundleLists, TargetsOfApply
  <2>5. k[1] = "PLAYER" /\ l[1] = "PLAYER"
    BY KeysDiffer
  <2>6. k = l
    BY <1>5, <2>4, <2>5, ApplyKeepsRows DEF Ident!OneRowEach
  <2>7. b.players[i].ext = b.players[j].ext
    BY <2>6, KeysDiffer
  <2>8. i = j
    BY <1>3, <2>7
  <2> QED BY <1>5, <2>3, <2>8
<1>6. ASSUME NEW i \in DOMAIN b.teams
      PROVE  LET r == mapped'[Ident!TeamKey(b.teams[i].ext)]
             IN  /\ \E j \in DOMAIN b.teams :
                       /\ mapped'[Ident!TeamKey(b.teams[j].ext)] = r
                       /\ teams'[r] = [slug |-> b.teams[j].slug, name |-> b.teams[j].name,
                                       edition |-> Edition]
                 /\ \E j \in DOMAIN b.teams :
                       /\ mapped'[Ident!TeamKey(b.teams[j].ext)] = r
                       /\ entries'[r] = [status |-> b.teams[j].status, name |-> b.teams[j].name]
  BY <1>4
<1>7. ASSUME NEW i \in DOMAIN b.players
      PROVE  LET row == players'[mapped'[Ident!PlayerKey(b.players[i].ext)]]
             IN  row.cd = None => row.name = b.players[i].name
  BY <1>5
<1>8. coverage' = Ident!CompleteCoverageMatrix(b)
  BY <1>1
<1>9. LET c == applied'[Len(applied')]
      IN  /\ \A i \in DOMAIN c.teams :
                LET r == mapped'[Ident!TeamKey(c.teams[i].ext)]
                    Same(j) == mapped'[Ident!TeamKey(c.teams[j].ext)] = r
                IN  /\ \E j \in DOMAIN c.teams : Same(j) /\ teams'[r] =
                          [slug |-> c.teams[j].slug, name |-> c.teams[j].name, edition |-> Edition]
                    /\ \E j \in DOMAIN c.teams : Same(j) /\ entries'[r] =
                          [status |-> c.teams[j].status, name |-> c.teams[j].name]
          /\ \A i \in DOMAIN c.players :
                LET row == players'[mapped'[Ident!PlayerKey(c.players[i].ext)]]
                IN  row.cd = None => row.name = c.players[i].name
          /\ coverage' = Ident!CompleteCoverageMatrix(c)
  <2> SUFFICES ASSUME NEW c, c = b
               PROVE
          /\ \A i \in DOMAIN c.teams :
                LET r == mapped'[Ident!TeamKey(c.teams[i].ext)]
                    Same(j) == mapped'[Ident!TeamKey(c.teams[j].ext)] = r
                IN  /\ \E j \in DOMAIN c.teams : Same(j) /\ teams'[r] =
                          [slug |-> c.teams[j].slug, name |-> c.teams[j].name, edition |-> Edition]
                    /\ \E j \in DOMAIN c.teams : Same(j) /\ entries'[r] =
                          [status |-> c.teams[j].status, name |-> c.teams[j].name]
          /\ \A i \in DOMAIN c.players :
                LET row == players'[mapped'[Ident!PlayerKey(c.players[i].ext)]]
                IN  row.cd = None => row.name = c.players[i].name
          /\ coverage' = Ident!CompleteCoverageMatrix(c)
    BY <1>2, Zenon
  <2> QED BY <1>6, <1>7, <1>8
<1>10. Ident!CompleteCoverageMatrix(applied[Len(applied)])' =
          Ident!CompleteCoverageMatrix(applied'[Len(applied')])
  BY DEF Ident!CompleteCoverageMatrix
<1> QED BY <1>9, <1>10, Zenon DEF Ident!EditionIsTheLast

-----------------------------------------------------------------------------
(* The identities of an import: the commands                               *)

\* What the edition is, as a function of the rows.
EditionOf(a, m, t, e, p, v) ==
    a # <<>> =>
      LET c == a[Len(a)]
      IN  /\ \A i \in DOMAIN c.teams :
                LET r == m[Ident!TeamKey(c.teams[i].ext)]
                    Same(j) == m[Ident!TeamKey(c.teams[j].ext)] = r
                IN  /\ \E j \in DOMAIN c.teams : Same(j) /\ t[r] =
                          [slug |-> c.teams[j].slug, name |-> c.teams[j].name, edition |-> Edition]
                    /\ \E j \in DOMAIN c.teams : Same(j) /\ e[r] =
                          [status |-> c.teams[j].status, name |-> c.teams[j].name]
          /\ \A i \in DOMAIN c.players :
                LET row == p[m[Ident!PlayerKey(c.players[i].ext)]]
                IN  row.cd = None => row.name = c.players[i].name
          /\ v = Ident!CompleteCoverageMatrix(c)

LEMMA EditionOfRows ==
  /\ Ident!EditionIsTheLast <=> EditionOf(applied, mapped, teams, entries, players, coverage)
  /\ Ident!EditionIsTheLast' <=>
        EditionOf(applied', mapped', teams', entries', players', coverage')
<1>1. Ident!CompleteCoverageMatrix(applied[Len(applied)])' =
         Ident!CompleteCoverageMatrix(applied'[Len(applied')])
  BY DEF Ident!CompleteCoverageMatrix
<1>2. Ident!EditionIsTheLast <=> EditionOf(applied, mapped, teams, entries, players, coverage)
  BY Zenon DEF Ident!EditionIsTheLast, EditionOf
<1>3. Ident!EditionIsTheLast' <=>
         EditionOf(applied', mapped', teams', entries', players', coverage')
  BY <1>1, Zenon DEF Ident!EditionIsTheLast, EditionOf
<1> QED BY <1>2, <1>3

LEMMA IdentKept ==
  ASSUME Ident!SourceIdentitiesAssumption, IdentInv, [Ident!Next]_(Ident!vars)
  PROVE  IdentInv' /\ Ident!IdentitiesStay
<1>1. ASSUME NEW b \in Bundles, Ident!Apply(b) PROVE IdentInv' /\ Ident!IdentitiesStay
  <2>1. Applying(b)
    BY <1>1 DEF Applying
  <2>2. Ident!IdentitiesStay
    BY <2>1, ApplyKeepsIdentities
  <2>3. PlayerRows' /\ OneForEachReview' /\ OthersStand'
    BY <2>1, PlayersOfApply, TeamsOfApply
  <2>4. IdentInv'
    BY <2>1, <2>3, ApplyKeepsMappings, ApplyKeepsRows, ApplyKeepsReviews, ApplyMakesEdition
       DEF IdentInv
  <2> QED BY <2>2, <2>4
<1>2. CASE UNCHANGED Ident!content
  <2>1. UNCHANGED <<teams, entries, players, mapped, coverage, applied>>
    BY <1>2 DEF Ident!content
  <2>2. Ident!IdentitiesStay
    BY <2>1 DEF Ident!IdentitiesStay, IdentInv, OthersStand
  <2>3. /\ Ident!MappingsStand' /\ RowsOf(teams, OtherTeams)' /\ RowsOf(players, LeaguePlayers)'
        /\ PlayerRows' /\ OneForEachReview' /\ OthersStand' /\ MappedByApplied'
        /\ Ident!OneRowEach'
    BY <2>1 DEF IdentInv, Ident!MappingsStand, RowsOf, PlayerRows, OneForEachReview, OthersStand,
       MappedByApplied, Ident!OneRowEach
  <2>4. \A i, p : Ident!ReviewedLate(i, p)' <=> Ident!ReviewedLate(i, p)
    BY <2>1 DEF Ident!ReviewedLate
  <2>5. \A p : Ident!Canonical(p)' = Ident!Canonical(p)
    BY <2>1 DEF Ident!Canonical
  <2>6. Ident!ReviewedAreOne'
    BY <2>1, <2>4, <2>5 DEF IdentInv, Ident!ReviewedAreOne
  <2>7. \A b : Ident!Replays(b)' <=> Ident!Replays(b)
    BY <2>1, <2>5 DEF Ident!Replays, Ident!WasApplied, Ident!Fits, Ident!PreviewIsClean,
       Ident!Resolved, Ident!MappingsStand, Ident!ReviewFits
  <2>8. Ident!AppliedIsRepeatable'
    BY <2>1, <2>4, <2>7 DEF IdentInv, Ident!AppliedIsRepeatable
  <2>9. Ident!EditionIsTheLast'
    <3>1. Ident!EditionIsTheLast
      BY DEF IdentInv
    <3> QED BY <2>1, <3>1, EditionOfRows
  <2> QED BY <2>2, <2>3, <2>6, <2>8, <2>9 DEF IdentInv
<1>3. ASSUME Ident!Next PROVE UNCHANGED Ident!content \/ \E b \in Bundles : Ident!Apply(b)
  BY <1>3 DEF Ident!Next, Ident!RecordPreview, Ident!Replay, Ident!Fail, Ident!content
<1>4. UNCHANGED Ident!vars => UNCHANGED Ident!content
  BY DEF Ident!vars
<1> QED BY <1>1, <1>2, <1>3, <1>4

LEMMA IdentInvariant == SiteSpec => [](part = "import" => IdentInv)
<1>1. SiteInit => (part = "import" => IdentInv)
  BY SitePartsAssumption, IdentInitial DEF SiteInit
<1>2. (part = "import" => IdentInv) /\ [SiteNext]_siteVars => (part = "import" => IdentInv)'
  BY SitePartsAssumption, PartAtWork, IdentKept
<1> QED BY <1>1, <1>2, PTL DEF SiteSpec

\* From one revision of a bundle to the next identities keep their rows, reviewed players
\* are the rows of Champion Data, what was applied can be applied again, and the edition
\* is that of the last bundle (prisma-writer.ts): for any revisions, teams and players.
THEOREM IdentitiesSettled == SiteSpec => SourcesAgree
<1>1. (part = "import" => IdentInv) /\ [SiteNext]_siteVars =>
         [part = "import" => Ident!SourcesAgreeStep]_siteVars
  BY SitePartsAssumption, PartAtWork, IdentKept DEF Ident!SourcesAgreeStep, IdentInv
<1> QED BY <1>1, IdentInvariant, PTL DEF SiteSpec, SourcesAgree

-----------------------------------------------------------------------------
(* The monitor of the navigation: what a group has                         *)

\* The samples of a group that were clicked are the first n.
Clicks(g, n) ==
    /\ \A s \in history[g] : s.sample \in 1..n
    /\ \A i \in 1..n : \E s \in history[g] : s.sample = i

NoSamples(g) == measured[g].count = 0 /\ history[g] = {}

\* One sample at most was clicked and is not summed up.
GroupCounted(g) ==
    /\ measured[g].count \in 0..Samples
    /\ measured[g].emitted \in 0..measured[g].count
    /\ measured[g].settled \in 0..measured[g].count
    /\ measured[g].sized \in Nat
    /\ \E n \in 0..Samples :
          (n = measured[g].count \/ n = measured[g].count + 1) /\ Clicks(g, n)

\* A group whose sums are full had of each sample what is summed.
GroupEvidenced(g) ==
    /\ measured[g].emitted = measured[g].count =>
          \A s \in history[g] : s.sample <= measured[g].count => s.sent
    /\ measured[g].settled = measured[g].count =>
          \A s \in history[g] : s.sample <= measured[g].count => ~s.underway
    /\ measured[g].sized > 0 => \E s \in history[g] : s.answered

GroupHolds(g) == GroupCounted(g) /\ GroupEvidenced(g)

Clicked == place.stage \in {"destination", "post_ready_observation", "flush"}

\* The sample at hand: the groups before it are full, those after it empty, and what was
\* counted when it was clicked is what it was.
SampleHolds ==
    /\ \A g \in 1..Monitor!LastGroup :
          /\ g < place.group => measured[g].count = Samples
          /\ g > place.group => NoSamples(g)
    /\ place.sample = 0 => NoSamples(place.group)
    /\ place.sample # 0 => measured[place.group].count = place.sample - 1
    /\ Clicks(place.group, IF Clicked /\ place.sample # 0 THEN place.sample
                           ELSE measured[place.group].count)
    /\ Clicked => \A s \in history[place.group] : s.sample = place.sample =>
          /\ evidence.requests > 0 => s.sent
          /\ evidence.settled = evidence.requests => ~s.underway
          /\ evidence.sized > 0 => s.answered

MonitorTyped ==
    /\ place = [step |-> place.step, group |-> place.group, sample |-> place.sample,
                stage |-> place.stage, slow |-> place.slow]
    /\ place.group \in 1..Monitor!LastGroup /\ place.sample \in 0..Samples
    /\ DOMAIN measured = 1..Monitor!LastGroup /\ DOMAIN history = 1..Monitor!LastGroup
    /\ measured = [g \in 1..Monitor!LastGroup |-> measured[g]]
    /\ history = [g \in 1..Monitor!LastGroup |-> history[g]]
    /\ evidence.requests \in Nat /\ evidence.settled \in Nat /\ evidence.sized \in Nat

MonitorInv ==
    /\ MonitorTyped
    /\ \A g \in 1..Monitor!LastGroup : GroupHolds(g)
    /\ place.step \in {"prerequisites", "idle", "contracts"} =>
          /\ place.group = 1 /\ place.sample = 0
          /\ \A g \in 1..Monitor!LastGroup : NoSamples(g)
    /\ place.step = "matrix" => SampleHolds
    /\ place.step = "report" => \A g \in 1..Monitor!LastGroup : measured[g].count = Samples
    /\ exit = 0 => place.step = "ended" /\ \A g \in 1..Monitor!LastGroup : Monitor!Passes(g)

LEMMA SameCountOfMonitor ==
  \A S : Monitor!Cardinality(S) = Cardinality(S) /\ (Monitor!IsFiniteSet(S) <=> IsFiniteSet(S))
BY Zenon DEF Monitor!Cardinality, Cardinality, Monitor!IsFiniteSet, IsFiniteSet

LEMMA GroupsAreSome ==
  ASSUME Monitor!MonitorAssumption
  PROVE  Monitor!LastGroup \in Nat \ {0} /\ Samples \in Nat \ {0} /\ IsFiniteSet(Requests)
<1>1. /\ \E S : Transitions \in Seq(S)
      /\ \E S : Prefetched \in Seq(S)
      /\ Transitions # <<>> /\ Samples \in Nat \ {0} /\ IsFiniteSet(Requests)
  BY Zenon, SameCountOfMonitor DEF Monitor!MonitorAssumption
<1>2. Len(Transitions) \in Nat \ {0} /\ Len(Prefetched) \in Nat
  BY <1>1
<1> DEFINE G(profile, interaction, list) ==
             [i \in 1..Len(list) |->
                [profile |-> profile, interaction |-> interaction, transition |-> list[i]]]
           R(profile, interaction, list) ==
             {[profile |-> profile, interaction |-> interaction, transition |-> list[i]] :
                i \in 1..Len(list)}
           a == G("desktop", "pointer", Transitions)
           b == G("mobile", "touch", Transitions)
           c == G("desktop", "keyboard", Prefetched)
           S == R("desktop", "pointer", Transitions) \cup R("mobile", "touch", Transitions)
                \cup R("desktop", "keyboard", Prefetched)
<1>3. a \in Seq(S) /\ Len(a) = Len(Transitions)
  BY <1>2
<1>4. b \in Seq(S) /\ Len(b) = Len(Transitions)
  BY <1>2
<1>5. c \in Seq(S) /\ Len(c) = Len(Prefetched)
  BY <1>2
<1>6. Monitor!Groups = a \o b \o c
  BY DEF Monitor!Groups
<1> HIDE DEF a, b, c, S
<1>7. Len(a \o b \o c) = Len(a) + Len(b) + Len(c)
  BY <1>3, <1>4, <1>5
<1> QED BY <1>1, <1>2, <1>3, <1>4, <1>5, <1>6, <1>7 DEF Monitor!LastGroup

\* What is counted of the hover is what the sample was.
LEMMA CountsOfHover ==
  ASSUME Monitor!MonitorAssumption
  PROVE  LET sent == Monitor!SentIn("intent")
             counts == Monitor!IntentEvidence
         IN  /\ counts.requests \in Nat /\ counts.settled \in Nat /\ counts.sized \in Nat
             /\ counts.requests > 0 => sent # {}
             /\ counts.settled = counts.requests => sent \ Monitor!Ended(sent) = {}
             /\ counts.sized > 0 => Monitor!SizeKnown(Monitor!Completed(sent)) # {}
<1> DEFINE sent == Monitor!SentIn("intent")
           ended == Monitor!Ended(sent)
           known == Monitor!SizeKnown(Monitor!Completed(sent))
           counts == Monitor!IntentEvidence
<1>1. /\ sent \in SUBSET Requests /\ ended \in SUBSET sent /\ known \in SUBSET Requests
  BY DEF Monitor!SentIn, Monitor!Ended, Monitor!SizeKnown, Monitor!Completed, Monitor!Finished
<1>2. /\ counts.requests = Cardinality(sent) /\ counts.settled = Cardinality(ended)
      /\ counts.sized = Cardinality(known)
  BY SameCountOfMonitor DEF Monitor!IntentEvidence
<1> HIDE DEF sent, ended, known, counts
<1>3. /\ IsFiniteSet(sent) /\ Cardinality(sent) \in Nat
      /\ IsFiniteSet(known) /\ Cardinality(known) \in Nat
  BY <1>1, GroupsAreSome, PartOf
<1>4. IsFiniteSet(ended) /\ Cardinality(ended) \in Nat
  BY <1>1, <1>3, PartOf
<1>5. Cardinality(sent) > 0 => sent # {}
  BY FS_EmptySet
<1>6. Cardinality(known) > 0 => known # {}
  BY FS_EmptySet
<1>7. ASSUME Cardinality(ended) = Cardinality(sent), NEW x \in sent \ ended PROVE FALSE
  <2>1. Cardinality(ended) + 1 <= Cardinality(sent)
    BY <1>1, <1>3, OneMore
  <2> QED BY <1>3, <1>4, <1>7, <2>1
<1> QED BY <1>2, <1>3, <1>4, <1>5, <1>6, <1>7 DEF sent, ended, known, counts

LEMMA MonitorInitial ==
  ASSUME Monitor!MonitorAssumption, Monitor!Init
  PROVE  MonitorInv
<1>1. Monitor!LastGroup \in Nat \ {0} /\ Samples \in Nat \ {0}
  BY GroupsAreSome
<1>2. PICK policy : Monitor!InitWith(policy)
  BY DEF Monitor!Init
<1>3. /\ place = [step |-> "prerequisites", group |-> 1, sample |-> 0, stage |-> "closed",
                  slow |-> FALSE]
      /\ evidence = Monitor!NoEvidence
      /\ measured = [g \in 1..Monitor!LastGroup |-> Monitor!NoSummary]
      /\ history = [g \in 1..Monitor!LastGroup |-> {}]
      /\ exit = 0 - 1
  BY <1>2 DEF Monitor!InitWith
<1>4. MonitorTyped
  BY <1>1, <1>3 DEF MonitorTyped, Monitor!NoEvidence
<1>5. ASSUME NEW g \in 1..Monitor!LastGroup PROVE GroupHolds(g) /\ NoSamples(g)
  <2>1. /\ measured[g].count = 0 /\ measured[g].emitted = 0 /\ measured[g].settled = 0
        /\ measured[g].sized = 0 /\ history[g] = {}
    BY <1>3 DEF Monitor!NoSummary
  <2>2. Clicks(g, 0)
    BY <2>1 DEF Clicks
  <2>3. 0 \in 0..Samples /\ 0 \in 0..0
    BY <1>1
  <2> QED BY <2>1, <2>2, <2>3 DEF GroupHolds, GroupCounted, GroupEvidenced, NoSamples
<1>6. place.step = "prerequisites" /\ place.group = 1 /\ place.sample = 0 /\ exit # 0
  BY <1>3
<1> QED BY <1>4, <1>5, <1>6 DEF MonitorInv

\* Nothing of the groups is touched, and the sample at hand stays as clicked as it is.
LEMMA MonitorStays ==
  ASSUME Monitor!MonitorAssumption, MonitorInv,
         UNCHANGED <<measured, history, evidence, exit>>,
         place' = [step |-> place.step, group |-> place.group, sample |-> place.sample,
                   stage |-> place'.stage, slow |-> place'.slow],
         Clicked' <=> Clicked
  PROVE  MonitorInv'
<1>1. /\ place'.step = place.step /\ place'.group = place.group /\ place'.sample = place.sample
  OBVIOUS
<1>2. MonitorTyped'
  BY <1>1 DEF MonitorInv, MonitorTyped
<1>3. \A g \in 1..Monitor!LastGroup :
        /\ GroupHolds(g) <=> GroupHolds(g)'
        /\ NoSamples(g) <=> NoSamples(g)'
        /\ Monitor!Passes(g) <=> Monitor!Passes(g)'
  BY DEF GroupHolds, GroupCounted, GroupEvidenced, NoSamples, Clicks, Monitor!Passes, Monitor!GroupGates
<1>4. SampleHolds => SampleHolds'
  BY <1>1 DEF SampleHolds, Clicks, NoSamples
<1> QED BY <1>1, <1>2, <1>3, <1>4 DEF MonitorInv

\* The steps before the first sample.
LEMMA MonitorPrepares ==
  ASSUME Monitor!MonitorAssumption, MonitorInv,
         UNCHANGED <<measured, history, evidence, exit>>,
         place.step \in {"prerequisites", "idle", "contracts"},
         place' = [step |-> place'.step, group |-> place.group, sample |-> place.sample,
                   stage |-> place'.stage, slow |-> place'.slow],
         \/ place'.step \in {"idle", "contracts"}
         \/ place'.step = "matrix" /\ place'.stage = "source_navigation"
  PROVE  MonitorInv'
<1>1. place'.group = 1 /\ place'.sample = 0
  BY DEF MonitorInv
<1>2. MonitorTyped'
  BY <1>1 DEF MonitorInv, MonitorTyped
<1>3. \A g \in 1..Monitor!LastGroup : GroupHolds(g)' /\ NoSamples(g)'
  BY DEF MonitorInv, GroupHolds, GroupCounted, GroupEvidenced, NoSamples, Clicks
<1>4. 1 \in 1..Monitor!LastGroup
  BY GroupsAreSome
<1>5. ASSUME place'.stage = "source_navigation" PROVE SampleHolds'
  <2>1. measured'[1].count = 0 /\ history'[1] = {}
    BY <1>3, <1>4 DEF NoSamples
  <2>2. Clicks(1, 0)'
    BY <2>1 DEF Clicks
  <2>3. ~Clicked'
    BY <1>5 DEF Clicked
  <2> QED BY <1>1, <1>3, <1>4, <2>1, <2>2, <2>3 DEF SampleHolds, Clicks
<1>6. exit' # 0
  BY DEF MonitorInv
<1> QED BY <1>1, <1>2, <1>3, <1>5, <1>6 DEF MonitorInv

\* The run is over.
LEMMA MonitorEnds ==
  ASSUME Monitor!MonitorAssumption, MonitorInv,
         UNCHANGED <<measured, history, evidence>>,
         place' = [step |-> "ended", group |-> place.group, sample |-> place.sample,
                   stage |-> place'.stage, slow |-> place'.slow],
         exit' = 0 => \A g \in 1..Monitor!LastGroup : Monitor!Passes(g)
  PROVE  MonitorInv'
<1>2. MonitorTyped'
  BY DEF MonitorInv, MonitorTyped
<1>3. \A g \in 1..Monitor!LastGroup :
        /\ GroupHolds(g) <=> GroupHolds(g)'
        /\ Monitor!Passes(g) <=> Monitor!Passes(g)'
  BY DEF GroupHolds, GroupCounted, GroupEvidenced, Clicks, Monitor!Passes, Monitor!GroupGates
<1> QED BY <1>2, <1>3 DEF MonitorInv

LEMMA MonitorReports ==
  ASSUME Monitor!MonitorAssumption, MonitorInv, Monitor!Report
  PROVE  MonitorInv'
<1>1. /\ UNCHANGED <<measured, history, evidence>> /\ place.step = "report"
      /\ place' = [place EXCEPT !.step = "ended"]
      /\ exit' = 0 => Monitor!Evidence
  BY DEF Monitor!Report
<1>2. place' = [step |-> "ended", group |-> place.group, sample |-> place.sample,
                stage |-> place'.stage, slow |-> place'.slow]
  BY <1>1 DEF MonitorInv, MonitorTyped
<1>3. \A g \in 1..Monitor!LastGroup : measured[g].count > 0
  BY <1>1, GroupsAreSome DEF MonitorInv
<1>4. Monitor!Evidence => \A g \in 1..Monitor!LastGroup : Monitor!Passes(g)
  BY <1>3, Zenon DEF Monitor!Evidence, Monitor!Passes
<1> QED BY <1>1, <1>2, <1>4, MonitorEnds

\* A click: what is sent for the sample, and what of it is under way or answered.
LEMMA MonitorClicks ==
  ASSUME Monitor!MonitorAssumption, MonitorInv, Monitor!Click,
         NEW k, k = place.sample, NEW G, G = place.group
  PROVE  MonitorInv'
<1> DEFINE sent == Monitor!SentIn("intent")
           waiting == sent \ Monitor!Ended(sent) # {}
           some == sent # {}
           known == Monitor!SizeKnown(Monitor!Completed(sent)) # {}
           rec == [sample |-> k, underway |-> waiting, sent |-> some, answered |-> known]
<1>1. /\ UNCHANGED <<measured, exit>> /\ place.step = "matrix"
      /\ place.stage = "navigation_activation"
      /\ place' = [place EXCEPT !.stage = "destination"]
      /\ evidence' = Monitor!IntentEvidence
      /\ k = 0 => history' = history
      /\ k # 0 => history' = [history EXCEPT ![G] = @ \cup {rec}]
  BY DEF Monitor!Click, Monitor!Stage
<1>2. /\ place' = [step |-> "matrix", group |-> G, sample |-> k, stage |-> "destination",
                   slow |-> place.slow]
      /\ G \in 1..Monitor!LastGroup /\ k \in 0..Samples
  BY <1>1 DEF MonitorInv, MonitorTyped
<1>3. Samples \in Nat /\ k \in Nat /\ G \in Int /\ SampleHolds /\ MonitorTyped /\ exit # 0
  BY <1>1, <1>2, GroupsAreSome DEF MonitorInv
<1>4. ~Clicked /\ Clicked'
  BY <1>1, <1>2 DEF Clicked
<1>5. /\ evidence'.requests \in Nat /\ evidence'.settled \in Nat /\ evidence'.sized \in Nat
      /\ evidence'.requests > 0 => some
      /\ evidence'.settled = evidence'.requests => ~waiting
      /\ evidence'.sized > 0 => known
  BY <1>1, CountsOfHover
<1>6. rec.sample = k
  OBVIOUS
<1>7. (rec.sent <=> some) /\ (rec.underway <=> waiting) /\ (rec.answered <=> known)
  BY Zenon
<1> HIDE DEF sent, waiting, some, known, rec
<1>8. MonitorTyped'
  BY <1>1, <1>2, <1>3, <1>5 DEF MonitorTyped
<1>9. /\ \A g \in 1..Monitor!LastGroup : g # G => history'[g] = history[g]
      /\ k = 0 => history'[G] = history[G]
      /\ k # 0 => history'[G] = history[G] \cup {rec}
  BY <1>1, <1>2, <1>3 DEF MonitorTyped
<1>10. \A g \in 1..Monitor!LastGroup : g # G => (GroupHolds(g)' /\ (NoSamples(g) <=> NoSamples(g)'))
  BY <1>1, <1>9 DEF MonitorInv, GroupHolds, GroupCounted, GroupEvidenced, NoSamples, Clicks
<1>11. CASE k = 0
  <2>1. history' = history
    BY <1>1, <1>11
  <2>2. history[G] = {}
    BY <1>2, <1>3, <1>11 DEF SampleHolds, NoSamples
  <2>3. SampleHolds'
    BY <1>1, <1>2, <1>3, <1>4, <1>11, <2>1, <2>2 DEF SampleHolds, Clicks, NoSamples
  <2>4. GroupHolds(G)'
    BY <1>1, <1>2, <2>1 DEF MonitorInv, GroupHolds, GroupCounted, GroupEvidenced, Clicks
  <2> QED BY <1>1, <1>2, <1>3, <1>8, <1>10, <2>3, <2>4 DEF MonitorInv
<1>12. CASE k # 0
  <2>1. measured[G].count = k - 1 /\ Clicks(G, k - 1)
    BY <1>2, <1>3, <1>4, <1>12 DEF SampleHolds
  <2>2. history'[G] = history[G] \cup {rec}
    BY <1>9, <1>12
  <2>3. \A s \in history[G] : s.sample \in 1..(k - 1)
    BY <2>1 DEF Clicks
  <2>4. Clicks(G, k)'
    BY <1>1, <1>2, <1>3, <1>6, <1>12, <2>1, <2>2 DEF Clicks
  <2>5. \A s \in history'[G] : s.sample = k => s = rec
    BY <1>3, <1>6, <2>2, <2>3
  <2>6. \A s \in history'[G] : s.sample <= k - 1 => s \in history[G]
    BY <1>3, <1>6, <2>2, <2>3
  <2>7. GroupHolds(G)
    BY <1>2 DEF MonitorInv
  <2>8. GroupHolds(G)'
    <3>1. measured'[G] = measured[G]
      BY <1>1
    <3>2. GroupEvidenced(G)'
      <4>1. \A s \in history'[G] : s.sample <= measured[G].count => s \in history[G]
        BY <2>1, <2>6
      <4>2. \A s \in history[G] : s \in history'[G]
        BY <2>2
      <4> QED BY <2>7, <3>1, <4>1, <4>2, Zenon DEF GroupHolds, GroupEvidenced
    <3>3. k \in 0..Samples /\ k = measured[G].count + 1
      BY <1>2, <1>3, <2>1
    <3>4. GroupCounted(G)'
      BY <2>4, <2>7, <3>1, <3>3 DEF GroupHolds, GroupCounted, Clicks
    <3> QED BY <3>2, <3>4 DEF GroupHolds
  <2>9. \A s \in history'[G] : s.sample = k =>
           /\ evidence'.requests > 0 => s.sent
           /\ evidence'.settled = evidence'.requests => ~s.underway
           /\ evidence'.sized > 0 => s.answered
    BY <1>5, <1>7, <2>5, Zenon
  <2>10. SampleHolds'
    <3>1. \A g \in 1..Monitor!LastGroup :
            /\ g < place'.group => measured'[g].count = Samples
            /\ g > place'.group => NoSamples(g)'
      BY <1>1, <1>2, <1>3, <1>10 DEF SampleHolds
    <3>2. place'.sample # 0 /\ measured'[place'.group].count = place'.sample - 1
      BY <1>1, <1>2, <1>12, <2>1
    <3>3. Clicks(place.group, place.sample)'
      BY <1>2, <2>4 DEF Clicks
    <3>4. \A s \in history'[place'.group] : s.sample = place'.sample =>
           /\ evidence'.requests > 0 => s.sent
           /\ evidence'.settled = evidence'.requests => ~s.underway
           /\ evidence'.sized > 0 => s.answered
      BY <1>2, <2>9, Zenon
    <3> QED BY <1>4, <3>1, <3>2, <3>3, <3>4 DEF SampleHolds, Clicks
  <2> QED BY <1>1, <1>2, <1>3, <1>8, <1>10, <2>8, <2>10 DEF MonitorInv
<1> QED BY <1>11, <1>12

\* A sample is summed up, unless it is the one that warms up.
LEMMA MonitorSums ==
  ASSUME Monitor!MonitorAssumption, MonitorInv, Monitor!EndSample,
         NEW k, k = place.sample, NEW G, G = place.group
  PROVE  /\ UNCHANGED <<history, exit>> /\ MonitorTyped'
         /\ place.step = "matrix" /\ Clicked /\ ~Clicked'
         /\ place'.step = "matrix" \/ place'.step = "report"
         /\ k < Samples => place'.step = "matrix" /\ place'.group = G /\ place'.sample = k + 1
         /\ k = Samples /\ G < Monitor!LastGroup =>
               place'.step = "matrix" /\ place'.group = G + 1 /\ place'.sample = 0
         /\ k = Samples /\ G = Monitor!LastGroup => place'.step = "report"
         /\ k = 0 => measured' = measured
         /\ \A g \in 1..Monitor!LastGroup : g # G => measured'[g] = measured[g]
         /\ k # 0 =>
               /\ measured'[G].count = measured[G].count + 1
               /\ measured'[G].emitted =
                     measured[G].emitted + IF evidence.requests > 0 THEN 1 ELSE 0
               /\ measured'[G].settled =
                     measured[G].settled +
                        IF evidence.requests > 0 /\ evidence.settled = evidence.requests
                        THEN 1 ELSE 0
               /\ measured'[G].sized = measured[G].sized + evidence.sized
<1>1. /\ UNCHANGED <<history, exit>> /\ place.step = "matrix" /\ place.stage = "flush"
      /\ k = 0 => measured' = measured
      /\ k # 0 => measured' = [measured EXCEPT ![G] = Monitor!Summed(measured[G])]
      /\ place' = Monitor!NextSample /\ evidence' = Monitor!NoEvidence
  BY DEF Monitor!EndSample
<1>2. /\ place = [step |-> "matrix", group |-> G, sample |-> k, stage |-> "flush",
                  slow |-> place.slow]
      /\ G \in 1..Monitor!LastGroup /\ k \in 0..Samples
      /\ Monitor!LastGroup \in Nat /\ Samples \in Nat
  BY <1>1, GroupsAreSome DEF MonitorInv, MonitorTyped
<1>3. place' =
        IF k < Samples
        THEN [step |-> "matrix", group |-> G, sample |-> k + 1, stage |-> "source_navigation",
              slow |-> place'.slow]
        ELSE IF G < Monitor!LastGroup
        THEN [step |-> "matrix", group |-> G + 1, sample |-> 0, stage |-> "source_navigation",
              slow |-> place'.slow]
        ELSE [step |-> "report", group |-> G, sample |-> k, stage |-> "source_navigation",
              slow |-> place'.slow]
  <2>0. PICK w : w = [place EXCEPT !.stage = "source_navigation", !.slow = FALSE]
    OBVIOUS
  <2>1. place' = IF k < Samples THEN [w EXCEPT !.sample = @ + 1]
                 ELSE IF G < Monitor!LastGroup THEN [w EXCEPT !.group = @ + 1, !.sample = 0]
                 ELSE [w EXCEPT !.step = "report"]
    BY <1>1, <2>0, Zenon DEF Monitor!NextSample
  <2>2. w = [step |-> "matrix", group |-> G, sample |-> k, stage |-> "source_navigation",
             slow |-> w.slow]
    <3>1. place = [step |-> place.step, group |-> place.group, sample |-> place.sample,
                   stage |-> place.stage, slow |-> place.slow]
      BY DEF MonitorInv, MonitorTyped
    <3>2. w = [step |-> place.step, group |-> place.group, sample |-> place.sample,
               stage |-> "source_navigation", slow |-> w.slow]
      BY <3>1, <2>0
    <3> QED BY <1>1, <3>2
  <2>3. CASE k < Samples
    <3>1. w.sample = k
      BY <2>2
    <3>2. PICK after : after = k + 1
      OBVIOUS
    <3>3. place' = [w EXCEPT !.sample = after]
      BY <2>1, <2>3, <3>1, <3>2, Zenon
    <3>4. PICK slow : w = [step |-> "matrix", group |-> G, sample |-> k,
                           stage |-> "source_navigation", slow |-> slow]
      BY <2>2, Zenon
    <3>5. place' = [step |-> "matrix", group |-> G, sample |-> after,
                    stage |-> "source_navigation", slow |-> slow]
      BY <3>3, <3>4
    <3>6. place'.slow = slow
      BY <3>5
    <3> QED BY <2>3, <3>2, <3>5, <3>6, Zenon
  <2>4. CASE ~(k < Samples) /\ G < Monitor!LastGroup
    <3>1. w.group = G
      BY <2>2
    <3>2. PICK after : after = G + 1
      OBVIOUS
    <3>3. place' = [w EXCEPT !.group = after, !.sample = 0]
      BY <2>1, <2>4, <3>1, <3>2, Zenon
    <3>4. PICK slow : w = [step |-> "matrix", group |-> G, sample |-> k,
                           stage |-> "source_navigation", slow |-> slow]
      BY <2>2, Zenon
    <3>5. place' = [step |-> "matrix", group |-> after, sample |-> 0,
                    stage |-> "source_navigation", slow |-> slow]
      BY <3>3, <3>4
    <3>6. place'.slow = slow
      BY <3>5
    <3> QED BY <2>4, <3>2, <3>5, <3>6, Zenon
  <2>5. CASE ~(k < Samples) /\ ~(G < Monitor!LastGroup)
    <3>1. place' = [w EXCEPT !.step = "report"]
      BY <2>1, <2>5, Zenon
    <3>2. PICK slow : w = [step |-> "matrix", group |-> G, sample |-> k,
                           stage |-> "source_navigation", slow |-> slow]
      BY <2>2, Zenon
    <3>3. place' = [step |-> "report", group |-> G, sample |-> k,
                    stage |-> "source_navigation", slow |-> slow]
      BY <3>1, <3>2
    <3>4. place'.slow = slow
      BY <3>3
    <3> QED BY <2>5, <3>3, <3>4, Zenon
  <2> QED BY <2>3, <2>4, <2>5
<1>4. DOMAIN measured = 1..Monitor!LastGroup
  BY DEF MonitorInv, MonitorTyped
<1>5. k # 0 => measured'[G] = Monitor!Summed(measured[G])
  BY <1>1, <1>2, <1>4
<1>6. \A g \in 1..Monitor!LastGroup : g # G => measured'[g] = measured[g]
  BY <1>1, <1>4
<1>7. /\ measured' = [g \in 1..Monitor!LastGroup |-> measured'[g]]
      /\ DOMAIN measured' = 1..Monitor!LastGroup
  BY <1>1, <1>4 DEF MonitorInv, MonitorTyped
<1>8. MonitorTyped'
  <2>1. /\ place' = [step |-> place'.step, group |-> place'.group, sample |-> place'.sample,
                     stage |-> place'.stage, slow |-> place'.slow]
        /\ place'.group \in 1..Monitor!LastGroup /\ place'.sample \in 0..Samples
    <3>1. CASE k < Samples
      BY <1>2, <1>3, <3>1
    <3>2. CASE ~(k < Samples) /\ G < Monitor!LastGroup
      BY <1>2, <1>3, <3>2
    <3>3. CASE ~(k < Samples) /\ ~(G < Monitor!LastGroup)
      BY <1>2, <1>3, <3>3
    <3> QED BY <3>1, <3>2, <3>3
  <2>2. /\ evidence'.requests \in Nat /\ evidence'.settled \in Nat /\ evidence'.sized \in Nat
    BY <1>1 DEF Monitor!NoEvidence
  <2>3. /\ DOMAIN history' = 1..Monitor!LastGroup
        /\ history' = [g \in 1..Monitor!LastGroup |-> history'[g]]
    BY <1>1 DEF MonitorInv, MonitorTyped
  <2> QED BY <1>7, <2>1, <2>2, <2>3 DEF MonitorTyped
<1>9. k # 0 =>
        /\ measured'[G].count = measured[G].count + 1
        /\ measured'[G].emitted = measured[G].emitted + IF evidence.requests > 0 THEN 1 ELSE 0
        /\ measured'[G].settled =
              measured[G].settled +
                 IF evidence.requests > 0 /\ evidence.settled = evidence.requests
                 THEN 1 ELSE 0
        /\ measured'[G].sized = measured[G].sized + evidence.sized
  BY <1>5 DEF Monitor!Summed, Monitor!Counted
<1>10. /\ place'.step = "matrix" \/ place'.step = "report"
       /\ k < Samples => place'.step = "matrix" /\ place'.group = G /\ place'.sample = k + 1
       /\ k = Samples /\ G < Monitor!LastGroup =>
             place'.step = "matrix" /\ place'.group = G + 1 /\ place'.sample = 0
       /\ k = Samples /\ G = Monitor!LastGroup => place'.step = "report"
       /\ Clicked /\ ~Clicked'
  BY <1>2, <1>3 DEF Clicked
<1> QED BY <1>1, <1>6, <1>8, <1>9, <1>10

\* The sample that is summed up was clicked, and was what is counted of it.
LEMMA MonitorSumsUp ==
  ASSUME Monitor!MonitorAssumption, MonitorInv, Monitor!EndSample,
         NEW k, k = place.sample, NEW G, G = place.group
  PROVE  /\ G \in 1..Monitor!LastGroup /\ k \in 0..Samples /\ GroupHolds(G)'
         /\ measured'[G].count = k /\ Clicks(G, k)'
<1>1. /\ G \in 1..Monitor!LastGroup /\ k \in 0..Samples /\ k \in Nat /\ Samples \in Nat
      /\ GroupHolds(G)
      /\ evidence.requests \in Nat /\ evidence.settled \in Nat /\ evidence.sized \in Nat
  BY GroupsAreSome DEF MonitorInv, MonitorTyped
<1>2. SampleHolds
  BY MonitorSums DEF MonitorInv
<1>3. CASE k = 0
  <2>1. UNCHANGED <<measured, history>>
    BY <1>3, MonitorSums
  <2>2. measured[G].count = 0 /\ history[G] = {}
    BY <1>2, <1>3 DEF SampleHolds, NoSamples
  <2>3. GroupHolds(G)'
    BY <1>1, <2>1 DEF GroupHolds, GroupCounted, GroupEvidenced, Clicks
  <2>4. Clicks(G, 0)'
    BY <2>1, <2>2 DEF Clicks
  <2> QED BY <1>1, <1>3, <2>1, <2>2, <2>3, <2>4
<1>4. CASE k # 0
  <2>1. /\ measured[G].count = k - 1 /\ Clicks(G, k) /\ Clicked
        /\ measured'[G].count = k /\ history' = history
    BY <1>1, <1>2, <1>4, MonitorSums DEF SampleHolds
  <2>2. \A s \in history[G] : s.sample = k =>
           /\ evidence.requests > 0 => s.sent
           /\ evidence.settled = evidence.requests => ~s.underway
           /\ evidence.sized > 0 => s.answered
    BY <1>2, <2>1, Zenon DEF SampleHolds
  <2>3. \A s \in history[G] :
           s.sample \in 1..k /\ (s.sample <= k => s.sample = k \/ s.sample <= k - 1)
    BY <1>1, <2>1 DEF Clicks
  <2>4. PICK last \in history[G] : last.sample = k
    BY <1>1, <1>4, <2>1 DEF Clicks
  <2>5. /\ measured[G].emitted \in 0..(k - 1) /\ measured[G].settled \in 0..(k - 1)
        /\ measured[G].sized \in Nat
    BY <1>1, <2>1 DEF GroupHolds, GroupCounted
  <2>6. /\ measured'[G].emitted \in 0..k /\ measured'[G].settled \in 0..k
        /\ measured'[G].sized \in Nat
        /\ measured'[G].emitted = k => evidence.requests > 0 /\ measured[G].emitted = k - 1
        /\ measured'[G].settled = k =>
              evidence.settled = evidence.requests /\ measured[G].settled = k - 1
        /\ measured'[G].sized > 0 => evidence.sized > 0 \/ measured[G].sized > 0
    <3> DEFINE addE == IF evidence.requests > 0 THEN 1 ELSE 0
               addS == IF evidence.requests > 0 /\ evidence.settled = evidence.requests
                       THEN 1 ELSE 0
    <3>1. /\ measured'[G].emitted = measured[G].emitted + addE
          /\ measured'[G].settled = measured[G].settled + addS
          /\ measured'[G].sized = measured[G].sized + evidence.sized
      BY <1>4, MonitorSums
    <3>2. /\ addE \in {0, 1} /\ addS \in {0, 1}
          /\ addE = 1 => evidence.requests > 0
          /\ addS = 1 => evidence.settled = evidence.requests
      OBVIOUS
    <3> HIDE DEF addE, addS
    <3>3. \A e, d : e \in 0..(k - 1) /\ d \in {0, 1} =>
             e + d \in 0..k /\ (e + d = k => d = 1 /\ e = k - 1)
      BY <1>1, <1>4
    <3>4. \A e, d : e \in Nat /\ d \in Nat =>
             e + d \in Nat /\ (e + d > 0 => e > 0 \/ d > 0)
      OBVIOUS
    <3>5. measured'[G].sized \in Nat /\ (measured'[G].sized > 0 => evidence.sized > 0 \/ measured[G].sized > 0)
      BY <1>1, <2>5, <3>1, <3>4
    <3>6. /\ measured'[G].emitted \in 0..k
          /\ measured'[G].emitted = k => addE = 1 /\ measured[G].emitted = k - 1
      BY <2>5, <3>1, <3>2, <3>3
    <3>7. /\ measured'[G].settled \in 0..k
          /\ measured'[G].settled = k => addS = 1 /\ measured[G].settled = k - 1
      BY <2>5, <3>1, <3>2, <3>3
    <3> QED BY <3>2, <3>5, <3>6, <3>7, Zenon
  <2>7. Clicks(G, k)'
    BY <2>1 DEF Clicks
  <2>8. GroupCounted(G)'
    BY <1>1, <2>1, <2>6, <2>7 DEF GroupCounted, Clicks
  <2>9. GroupEvidenced(G)
    BY <1>1 DEF GroupHolds
  <2>10. GroupEvidenced(G)'
    <3>1. ASSUME measured'[G].emitted = measured'[G].count, NEW s \in history[G],
                 s.sample <= measured'[G].count
          PROVE  s.sent
      BY <2>1, <2>2, <2>3, <2>6, <2>9, <3>1, Zenon DEF GroupEvidenced
    <3>2. ASSUME measured'[G].settled = measured'[G].count, NEW s \in history[G],
                 s.sample <= measured'[G].count
          PROVE  ~s.underway
      BY <2>1, <2>2, <2>3, <2>6, <2>9, <3>2, Zenon DEF GroupEvidenced
    <3>3. ASSUME measured'[G].sized > 0 PROVE \E s \in history[G] : s.answered
      BY <2>2, <2>4, <2>6, <2>9, <3>3, Zenon DEF GroupEvidenced
    <3> QED BY <2>1, <3>1, <3>2, <3>3, Zenon DEF GroupEvidenced
  <2> QED BY <1>1, <2>1, <2>7, <2>8, <2>10 DEF GroupHolds
<1> QED BY <1>3, <1>4

LEMMA MonitorEndsSample ==
  ASSUME Monitor!MonitorAssumption, MonitorInv, Monitor!EndSample,
         NEW k, k = place.sample, NEW G, G = place.group
  PROVE  MonitorInv'
<1>1. /\ G \in 1..Monitor!LastGroup /\ k \in 0..Samples /\ k \in Nat /\ Samples \in Nat \ {0}
      /\ Monitor!LastGroup \in Nat
  BY GroupsAreSome DEF MonitorInv, MonitorTyped
<1>2. SampleHolds
  BY MonitorSums DEF MonitorInv
<1>3. GroupHolds(G)' /\ measured'[G].count = k /\ Clicks(G, k)'
  BY MonitorSumsUp
<1>4. \A g \in 1..Monitor!LastGroup : g # G =>
         /\ measured'[g] = measured[g] /\ history'[g] = history[g]
         /\ GroupHolds(g)' /\ (NoSamples(g) => NoSamples(g)')
  BY MonitorSums DEF MonitorInv, GroupHolds, GroupCounted, GroupEvidenced, NoSamples, Clicks
<1>5. \A g \in 1..Monitor!LastGroup : GroupHolds(g)'
  BY <1>3, <1>4
<1>6. \A g \in 1..Monitor!LastGroup :
         /\ g < G => measured'[g].count = Samples
         /\ g > G => NoSamples(g)'
  BY <1>1, <1>2, <1>4 DEF SampleHolds
<1>7. exit' # 0
  BY MonitorSums DEF MonitorInv
<1>8. CASE k < Samples
  <2>1. place'.step = "matrix" /\ place'.group = G /\ place'.sample = k + 1 /\ ~Clicked'
    BY <1>8, MonitorSums
  <2>2. Clicks(place.group, measured[place.group].count)'
    BY <1>3, <2>1 DEF Clicks
  <2>3. SampleHolds'
    BY <1>1, <1>3, <1>6, <2>1, <2>2 DEF SampleHolds
  <2> QED BY <1>5, <1>7, <2>1, <2>3, MonitorSums DEF MonitorInv
<1>9. CASE k = Samples /\ G < Monitor!LastGroup
  <2>1. place'.step = "matrix" /\ place'.group = G + 1 /\ place'.sample = 0 /\ ~Clicked'
    BY <1>9, MonitorSums
  <2>2. G + 1 \in 1..Monitor!LastGroup /\ G + 1 > G
    BY <1>1, <1>9
  <2>3. NoSamples(G + 1)'
    BY <1>6, <2>2
  <2>4. measured'[G + 1].count = 0 /\ history'[G + 1] = {}
    BY <2>3 DEF NoSamples
  <2>5. Clicks(place.group, measured[place.group].count)' /\ NoSamples(place.group)'
    BY <2>1, <2>4 DEF Clicks, NoSamples
  <2>6. \A g \in 1..Monitor!LastGroup :
         /\ g < G + 1 => measured'[g].count = Samples
         /\ g > G + 1 => NoSamples(g)'
    BY <1>1, <1>3, <1>6, <1>9
  <2>7. SampleHolds'
    BY <1>1, <2>1, <2>5, <2>6 DEF SampleHolds
  <2> QED BY <1>5, <1>7, <2>1, <2>7, MonitorSums DEF MonitorInv
<1>10. CASE k = Samples /\ G = Monitor!LastGroup
  <2>1. \A g \in 1..Monitor!LastGroup : measured'[g].count = Samples
    BY <1>1, <1>3, <1>6, <1>10
  <2> QED BY <1>5, <1>7, <1>10, <2>1, MonitorSums DEF MonitorInv
<1> QED BY <1>1, <1>8, <1>9, <1>10

LEMMA MonitorKept ==
  ASSUME Monitor!MonitorAssumption, MonitorInv, [Monitor!Next]_(Monitor!monitorVars)
  PROVE  MonitorInv'
<1>1. place = [step |-> place.step, group |-> place.group, sample |-> place.sample,
               stage |-> place.stage, slow |-> place.slow]
  BY DEF MonitorInv, MonitorTyped
<1>2. CASE UNCHANGED (Monitor!monitorVars)
  <2>1. UNCHANGED <<place, measured, history, evidence, exit>>
    BY <1>2 DEF Monitor!monitorVars
  <2> QED BY <1>1, <2>1, MonitorStays DEF Clicked
<1>3. CASE Monitor!Browser \/ Monitor!ObserveIdle \/ Monitor!HoverConstrained
  <2>1. UNCHANGED <<place, measured, history, evidence, exit>>
    BY <1>3, Zenon DEF Monitor!Browser, Monitor!ObserveIdle, Monitor!HoverConstrained, Monitor!Send,
         Monitor!Abort, Monitor!RequestFails, Monitor!Finish, Monitor!FinishBadly, Monitor!Size,
         Monitor!SizeFails, Monitor!Fault, Monitor!PageOnly
  <2> QED BY <1>1, <2>1, MonitorStays DEF Clicked
<1>4. CASE Monitor!Prerequisites \/ Monitor!MeasureIdle
  <2>1. /\ UNCHANGED <<measured, history, evidence, exit>>
        /\ place.step \in {"prerequisites", "idle"}
        /\ \E step \in {"idle", "contracts"} : place' = [place EXCEPT !.step = step]
    BY <1>4 DEF Monitor!Prerequisites, Monitor!MeasureIdle
  <2> QED BY <1>1, <2>1, MonitorPrepares
<1>5. CASE Monitor!MeasureContract
  <2>1. /\ UNCHANGED <<measured, history, evidence, exit>> /\ place.step = "contracts"
        /\ \/ place' = place
           \/ place' = [place EXCEPT !.step = "matrix", !.stage = "source_navigation"]
    BY <1>5 DEF Monitor!MeasureContract
  <2> QED BY <1>1, <2>1, MonitorPrepares
<1>6. CASE Monitor!ShowSource \/ Monitor!SettleIntent
  <2>1. /\ UNCHANGED <<measured, history, evidence, exit>>
        /\ place.stage \in {"source_navigation", "intent_settlement"}
        /\ \E to \in {"intent_settlement", "navigation_activation"} :
              place' = [place EXCEPT !.stage = to]
    BY <1>6 DEF Monitor!ShowSource, Monitor!SettleIntent, Monitor!Stage
  <2> QED BY <1>1, <2>1, MonitorStays DEF Clicked
<1>7. CASE Monitor!Arrive \/ Monitor!ArriveLate \/ Monitor!ObserveReady
  <2>1. /\ UNCHANGED <<measured, history, evidence, exit>>
        /\ place.stage \in {"destination", "post_ready_observation"}
        /\ \/ place' = [place EXCEPT !.stage = "post_ready_observation"]
           \/ place' = [place EXCEPT !.stage = "post_ready_observation", !.slow = TRUE]
           \/ place' = [place EXCEPT !.stage = "flush"]
    BY <1>7 DEF Monitor!Arrive, Monitor!ArriveLate, Monitor!ObserveReady, Monitor!Stage
  <2>2. /\ place' = [step |-> place.step, group |-> place.group, sample |-> place.sample,
                     stage |-> place'.stage, slow |-> place'.slow]
        /\ place'.stage \in {"post_ready_observation", "flush"}
    BY <1>1, <2>1
  <2> QED BY <2>1, <2>2, MonitorStays DEF Clicked
<1>8. CASE Monitor!Fail
  <2>1. /\ UNCHANGED <<measured, history, evidence>> /\ exit' = 1
        /\ place' = [place EXCEPT !.step = "ended"]
    BY <1>8 DEF Monitor!Fail, Monitor!EndWithError
  <2> QED BY <1>1, <2>1, MonitorEnds
<1> QED BY <1>2, <1>3, <1>4, <1>5, <1>6, <1>7, <1>8, MonitorClicks, MonitorEndsSample,
           MonitorReports DEF Monitor!Next

\* A group that passes has all its samples: those that were clicked.
LEMMA PassingIsEvidenced ==
  ASSUME Monitor!MonitorAssumption, MonitorInv,
         NEW g \in 1..Monitor!LastGroup, Monitor!Passes(g)
  PROVE  /\ {s.sample : s \in history[g]} = 1..Samples
         /\ Monitor!Required(Monitor!Groups[g]) =>
              /\ \A s \in history[g] : s.sent /\ ~s.underway
              /\ \E s \in history[g] : s.answered
<1>1. /\ GroupCounted(g) /\ GroupEvidenced(g) /\ Samples \in Nat
  BY GroupsAreSome DEF MonitorInv, GroupHolds
<1>2. measured[g].count \in 0..Samples
  BY <1>1 DEF GroupCounted
<1> DEFINE intent == /\ measured[g].emitted = measured[g].count
                     /\ measured[g].settled = measured[g].count
                     /\ measured[g].completed > 0
                     /\ measured[g].sized = measured[g].completed
           full == measured[g].count >= Samples
           clean == measured[g].faults = 0 /\ measured[g].errors = 0
           fetched == Monitor!Required(Monitor!Groups[g]) => intent
           timely == Monitor!Required(Monitor!Groups[g]) => measured[g].late = 0
           gates == [samples |-> full, errors |-> clean, intent |-> fetched, late |-> timely]
<1>3. Monitor!GroupGates(g) = gates
  BY Zenon DEF Monitor!GroupGates
<1> HIDE DEF intent, full, clean, fetched, timely
<1>4. "samples" \in DOMAIN gates /\ "intent" \in DOMAIN gates
  OBVIOUS
<1>5. (gates.samples <=> full) /\ (gates.intent <=> fetched)
  BY Zenon
<1> HIDE DEF gates
<1>6. gates["samples"] /\ gates["intent"]
  BY <1>3, <1>4, Zenon DEF Monitor!Passes
<1> USE DEF intent, full, fetched
<1>7. measured[g].count >= Samples /\ (Monitor!Required(Monitor!Groups[g]) => intent)
  BY <1>5, <1>6, Zenon
<1>8. measured[g].count = Samples
  BY <1>1, <1>2, <1>7
<1>9. Clicks(g, Samples)
  BY <1>1, <1>8 DEF GroupCounted, Clicks
<1>10. {s.sample : s \in history[g]} = 1..Samples
  BY <1>9 DEF Clicks
<1>11. ASSUME Monitor!Required(Monitor!Groups[g])
       PROVE  /\ \A s \in history[g] : s.sent /\ ~s.underway
              /\ \E s \in history[g] : s.answered
  <2>1. /\ measured[g].emitted = measured[g].count /\ measured[g].settled = measured[g].count
        /\ measured[g].sized > 0
    BY <1>7, <1>11
  <2>2. \A s \in history[g] : s.sample <= measured[g].count
    BY <1>1, <1>8, <1>9 DEF Clicks
  <2> QED BY <1>1, <2>1, <2>2, Zenon DEF GroupEvidenced
<1> QED BY <1>10, <1>11, Zenon

LEMMA MonitorEvidenced ==
  ASSUME Monitor!MonitorAssumption, MonitorInv
  PROVE  Monitor!SuccessIsEvidenced
<1>1. exit = 0 => \A g \in 1..Monitor!LastGroup : Monitor!Passes(g)
  BY DEF MonitorInv
<1> QED BY <1>1, PassingIsEvidenced, Zenon DEF Monitor!SuccessIsEvidenced

LEMMA MonitorInvariant == SiteSpec => [](part = "monitor" => MonitorInv)
<1>1. SiteInit => (part = "monitor" => MonitorInv)
  BY SitePartsAssumption, MonitorInitial DEF SiteInit
<1>2. (part = "monitor" => MonitorInv) /\ [SiteNext]_siteVars => (part = "monitor" => MonitorInv)'
  BY SitePartsAssumption, PartAtWork, MonitorKept
<1> QED BY <1>1, <1>2, PTL DEF SiteSpec

-----------------------------------------------------------------------------
(* The timing: the time attributed to phases                               *)

LEMMA SameCountOfTiming ==
  \A S : Timing!Cardinality(S) = Cardinality(S) /\ (Timing!IsFiniteSet(S) <=> IsFiniteSet(S))
BY Zenon DEF Timing!Cardinality, Cardinality, Timing!IsFiniteSet, IsFiniteSet

UnionBegin(phases) == [rest |-> phases, union |-> [started |-> 0, ended |-> 0, total |-> 0]]

UnionStep(r) ==
    [rest |-> r.rest \ {Timing!First(r.rest)},
     union |-> Timing!Extend(r.union, Timing!First(r.rest))]

IsRun(f, phases, N) ==
    f = [n \in 0..N |-> IF n = 0 THEN UnionBegin(phases) ELSE UnionStep(f[n - 1])]

LEMMA RunsExist ==
  ASSUME NEW phases, NEW N \in Nat
  PROVE  \E f : IsRun(f, phases, N)
<1> DEFINE bad == {n \in Nat : ~ \E f : IsRun(f, phases, n)}
<1>1. SUFFICES ASSUME bad # {} PROVE FALSE
  BY <1>1
<1>2. PICK m \in bad : \A k \in bad : m <= k
  BY <1>1, LeastNumber
<1>3. m \in Nat /\ ~ \E f : IsRun(f, phases, m)
  BY <1>2
<1>4. CASE m = 0
  <2> DEFINE f == [n \in 0..0 |-> UnionBegin(phases)]
  <2>1. f = [n \in 0..0 |-> IF n = 0 THEN UnionBegin(phases) ELSE UnionStep(f[n - 1])]
    OBVIOUS
  <2>2. IsRun(f, phases, m)
    BY <1>4, <2>1 DEF IsRun
  <2> QED BY <1>3, <2>2
<1>5. CASE m # 0
  <2>1. m - 1 \in Nat /\ m - 1 \notin bad
    BY <1>2, <1>3, <1>5
  <2>2. PICK f : IsRun(f, phases, m - 1)
    BY <2>1
  <2>3. \A n \in 0..(m - 1) :
           f[n] = IF n = 0 THEN UnionBegin(phases) ELSE UnionStep(f[n - 1])
    BY <2>2, Zenon DEF IsRun
  <2> DEFINE g == [n \in 0..m |-> IF n = m THEN UnionStep(f[m - 1]) ELSE f[n]]
  <2>4. \A n \in 0..m : g[n] = IF n = m THEN UnionStep(f[m - 1]) ELSE f[n]
    OBVIOUS
  <2>5. g = [n \in 0..m |-> g[n]]
    OBVIOUS
  <2> HIDE DEF g
  <2>6. ASSUME NEW n \in 0..m
        PROVE  g[n] = IF n = 0 THEN UnionBegin(phases) ELSE UnionStep(g[n - 1])
    <3>1. CASE n = m
      <4>1. n # 0 /\ m - 1 \in 0..m /\ m - 1 # m /\ n - 1 = m - 1
        BY <1>3, <1>5, <3>1
      <4>2. g[m - 1] = f[m - 1] /\ g[n] = UnionStep(f[m - 1])
        BY <2>4, <3>1, <4>1
      <4> QED BY <4>1, <4>2
    <3>2. CASE n # m /\ n = 0
      BY <1>3, <2>1, <2>3, <2>4, <3>2
    <3>3. CASE n # m /\ n # 0
      <4>1. n \in 0..(m - 1) /\ n - 1 \in 0..m /\ n - 1 # m
        BY <1>3, <3>3
      <4>2. g[n] = f[n] /\ g[n - 1] = f[n - 1] /\ f[n] = UnionStep(f[n - 1])
        BY <2>3, <2>4, <3>3, <4>1
      <4> QED BY <3>3, <4>2
    <3> QED BY <3>1, <3>2, <3>3
  <2>7. IsRun(g, phases, m)
    BY <2>5, <2>6, Zenon DEF IsRun
  <2> QED BY <1>3, <2>7
<1> QED BY <1>3, <1>4, <1>5

LEMMA UnionIsRun ==
  ASSUME NEW phases, NEW N \in Nat, Timing!Cardinality(phases) = N
  PROVE  \E f : IsRun(f, phases, N) /\ Timing!Union(phases) = f[N].union
<1> DEFINE f == CHOOSE h : IsRun(h, phases, N)
<1>1. IsRun(f, phases, N)
  BY RunsExist
<1>2. Timing!Union(phases) = f[N].union
  BY DEF Timing!Union, IsRun, UnionBegin, UnionStep
<1> QED BY <1>1, <1>2

\* The earliest phase is one of them, and no other starts before it.
LEMMA FirstIsEarliest ==
  ASSUME NEW S, S # {}, \A p \in S : p.started \in Nat /\ p.ended \in Nat
  PROVE  Timing!First(S) \in S /\ \A q \in S : Timing!First(S).started <= q.started
<1>1. {p.started : p \in S} \in SUBSET Nat /\ {p.started : p \in S} # {}
  OBVIOUS
<1>2. PICK a \in {p.started : p \in S} : \A b \in {p.started : p \in S} : a <= b
  BY <1>1, LeastNumber
<1> DEFINE T == {p \in S : p.started = a}
<1>3. {p.ended : p \in T} \in SUBSET Nat /\ {p.ended : p \in T} # {}
  BY <1>2
<1>4. PICK c \in {p.ended : p \in T} : \A b \in {p.ended : p \in T} : c <= b
  BY <1>3, LeastNumber
<1>5. PICK x \in T : x.ended = c
  BY <1>4
<1>6. ASSUME NEW q \in S PROVE Timing!Earlier(x, q)
  <2>1. a <= q.started /\ a \in Nat /\ q.started \in Nat /\ x.started = a
    BY <1>2, <1>5
  <2>2. q.started = a => c <= q.ended
    BY <1>4
  <2> QED BY <1>5, <2>1, <2>2 DEF Timing!Earlier
<1>7. Timing!First(S) \in S /\ \A q \in S : Timing!Earlier(Timing!First(S), q)
  <2>1. x \in S /\ \A q \in S : Timing!Earlier(x, q)
    BY <1>5, <1>6
  <2> QED BY <2>1, Zenon DEF Timing!First
<1> QED BY <1>7 DEF Timing!Earlier

Below(B, x) == {b \in B : b < x}

\* The busy ticks before those of an interval, and the interval, are busy ticks before its end.
LEMMA BusyGrows ==
  ASSUME NEW B \in SUBSET Nat, IsFiniteSet(B), NEW s \in Nat, NEW e \in Nat, s <= e,
         s..(e - 1) \subseteq B, NEW x \in Nat, e <= x
  PROVE  Cardinality(Below(B, s)) + (e - s) <= Cardinality(Below(B, x))
<1> DEFINE low == Below(B, s)
           high == Below(B, x)
<1> USE DEF Below
<1>1. IsFiniteSet(low) /\ IsFiniteSet(high) /\ Cardinality(low) \in Nat /\ Cardinality(high) \in Nat
  BY PartOf
<1>2. IsFiniteSet(s..(e - 1)) /\ Cardinality(s..(e - 1)) = e - s
  <2>1. s \in Int /\ e - 1 \in Int
    OBVIOUS
  <2>2. /\ IsFiniteSet(s..(e - 1))
        /\ Cardinality(s..(e - 1)) = IF s > e - 1 THEN 0 ELSE (e - 1) - s + 1
    BY <2>1, FS_Interval
  <2> QED BY <2>2
<1>3. low \cap s..(e - 1) = {}
  OBVIOUS
<1>4. Cardinality(low \cup s..(e - 1)) = Cardinality(low) + (e - s)
  <2>1. Cardinality(low \cap s..(e - 1)) = 0
    BY <1>3, FS_EmptySet
  <2>2. Cardinality(low \cup s..(e - 1)) =
          Cardinality(low) + Cardinality(s..(e - 1)) - Cardinality(low \cap s..(e - 1))
    BY <1>1, <1>2, FS_Union
  <2> HIDE DEF low
  <2> QED BY <1>1, <1>2, <2>1, <2>2
<1>5. (low \cup s..(e - 1)) \in SUBSET high
  <2>1. ASSUME NEW k \in low PROVE k \in high
    OBVIOUS
  <2>2. ASSUME NEW k \in s..(e - 1) PROVE k \in high
    OBVIOUS
  <2> QED BY <2>1, <2>2
<1>6. Cardinality(low \cup s..(e - 1)) <= Cardinality(high)
  BY <1>1, <1>5, PartOf
<1> QED BY <1>4, <1>6

\* What is left comes later; the interval that grows is busy, as much of the total was
\* before it.
UnionHolds(u, B, d) ==
    /\ u = [started |-> u.started, ended |-> u.ended, total |-> u.total]
    /\ u.started \in Nat /\ u.ended \in 0..d /\ u.total \in Nat
    /\ u.started..(u.ended - 1) \subseteq B
    /\ u.total <= Cardinality(Below(B, u.started))

RunHolds(r, phases, B, d) ==
    /\ r.rest \subseteq phases
    /\ UnionHolds(r.union, B, d)
    /\ \A q \in r.rest : r.union.started <= q.started

ArePhases(phases, B, d) ==
    /\ B \in SUBSET Nat /\ IsFiniteSet(B) /\ d \in Nat
    /\ \A p \in phases : /\ p.started \in Nat /\ p.ended \in 0..d /\ p.started <= p.ended
                         /\ p.started..(p.ended - 1) \subseteq B

Ticks(B, d) == B \in SUBSET Nat /\ IsFiniteSet(B) /\ d \in Nat

LEMMA UnionExtends ==
  ASSUME NEW B, NEW d, Ticks(B, d),
         NEW s \in Nat, NEW e \in 0..d, NEW total \in Nat,
         NEW a \in Nat, NEW c \in 0..d, a <= c, s <= a,
         s..(e - 1) \subseteq B, a..(c - 1) \subseteq B,
         total <= Cardinality(Below(B, s)),
         NEW u, u = [started |-> s, ended |-> e, total |-> total],
         NEW p, p.started = a, p.ended = c,
         NEW v, v = Timing!Extend(u, p)
  PROVE  UnionHolds(v, B, d) /\ v.started <= a
<1> USE DEF Ticks
<1>1. /\ Cardinality(Below(B, s)) \in Nat /\ Cardinality(Below(B, a)) \in Nat
      /\ Cardinality(Below(B, s)) <= Cardinality(Below(B, a))
  <2>1. Below(B, a) \in SUBSET B
    BY DEF Below
  <2>2. ASSUME NEW k \in Below(B, s) PROVE k \in Below(B, a)
    BY DEF Below
  <2>3. Below(B, s) \in SUBSET Below(B, a)
    BY <2>2
  <2> QED BY <2>1, <2>3, PartOf
<1>2. u.started = s /\ u.ended = e /\ u.total = total
  OBVIOUS
<1>3. CASE e <= s
  <2>1. v = [started |-> a, ended |-> c, total |-> total]
    BY <1>2, <1>3 DEF Timing!Extend
  <2>2. v.started = a /\ v.ended = c /\ v.total = total
    BY <2>1
  <2>3. total <= Cardinality(Below(B, a)) /\ a <= a
    BY <1>1
  <2> QED BY <2>1, <2>2, <2>3 DEF UnionHolds
<1>4. CASE ~(e <= s) /\ a <= e
  <2>1. v = [started |-> s, ended |-> IF c > e THEN c ELSE e, total |-> total]
    BY <1>4 DEF Timing!Extend
  <2>2. s..((IF c > e THEN c ELSE e) - 1) \subseteq B
    <3>1. ASSUME NEW k \in s..((IF c > e THEN c ELSE e) - 1) PROVE k \in B
      <4>1. k \in s..(e - 1) \/ k \in a..(c - 1)
        BY <1>4
      <4> QED BY <4>1
    <3> QED BY <3>1
  <2>3. v.started = s /\ v.ended = (IF c > e THEN c ELSE e) /\ v.total = total
    BY <2>1
  <2>4. (IF c > e THEN c ELSE e) \in 0..d
    OBVIOUS
  <2> QED BY <2>1, <2>2, <2>3, <2>4 DEF UnionHolds
<1>5. CASE ~(e <= s) /\ ~(a <= e)
  <2>1. v = [started |-> a, ended |-> c, total |-> total + e - s]
    BY <1>2, <1>5 DEF Timing!Extend
  <2>2. Cardinality(Below(B, s)) + (e - s) <= Cardinality(Below(B, a))
    <3>1. s <= e /\ e <= a /\ e \in Nat
      BY <1>5
    <3> QED BY <3>1, BusyGrows
  <2>3. total + e - s \in Nat /\ total + e - s <= Cardinality(Below(B, a))
    BY <1>1, <1>5, <2>2
  <2>4. v.started = a /\ v.ended = c /\ v.total = total + e - s
    BY <2>1
  <2>5. a <= a
    OBVIOUS
  <2> QED BY <2>1, <2>3, <2>4, <2>5 DEF UnionHolds
<1> QED BY <1>3, <1>4, <1>5

LEMMA UnionStepHolds ==
  ASSUME NEW phases, NEW B, NEW d, ArePhases(phases, B, d),
         NEW r, RunHolds(r, phases, B, d), r.rest # {},
         NEW p, p = Timing!First(r.rest), NEW w, w = UnionStep(r)
  PROVE  RunHolds(w, phases, B, d) /\ p \in r.rest /\ w.rest = r.rest \ {p}
<1>1. p \in r.rest /\ \A q \in r.rest : p.started <= q.started
  BY FirstIsEarliest DEF RunHolds, ArePhases
<1>2. /\ p.started \in Nat /\ p.ended \in 0..d /\ p.started <= p.ended
      /\ p.started..(p.ended - 1) \subseteq B /\ r.union.started <= p.started
  BY <1>1 DEF RunHolds, UnionHolds, ArePhases
<1>0. Ticks(B, d)
  BY DEF ArePhases, Ticks
<1>3. w.rest = r.rest \ {p} /\ w.union = Timing!Extend(r.union, p)
  BY DEF UnionStep
<1>4. PICK v : v = w.union
  OBVIOUS
<1>5. UnionHolds(v, B, d) /\ v.started <= p.started
  <2>1. PICK s, e, total, a, c, u :
           /\ s = r.union.started /\ e = r.union.ended /\ total = r.union.total
           /\ a = p.started /\ c = p.ended /\ u = r.union
    OBVIOUS
  <2>2. /\ s \in Nat /\ e \in 0..d /\ total \in Nat /\ s..(e - 1) \subseteq B
        /\ total <= Cardinality(Below(B, s))
        /\ u = [started |-> s, ended |-> e, total |-> total]
    BY <2>1 DEF RunHolds, UnionHolds
  <2>3. a \in Nat /\ c \in 0..d /\ a <= c /\ s <= a /\ a..(c - 1) \subseteq B
    BY <1>2, <2>1
  <2>4. v = Timing!Extend(u, p)
    BY <1>3, <1>4, <2>1
  <2>5. p.started = a /\ p.ended = c
    BY <2>1
  <2>6. v.started <= a
    BY <1>0, <2>2, <2>3, <2>4, <2>5, UnionExtends
  <2> QED BY <1>0, <2>2, <2>3, <2>4, <2>5, <2>6, UnionExtends
<1>6. \A q \in w.rest : v.started <= q.started
  BY <1>1, <1>2, <1>3, <1>5 DEF RunHolds, UnionHolds, ArePhases
<1>7. w.rest \subseteq phases
  BY <1>3 DEF RunHolds
<1> QED BY <1>1, <1>3, <1>4, <1>5, <1>6, <1>7 DEF RunHolds

LEMMA RunIsHeld ==
  ASSUME NEW phases, IsFiniteSet(phases), NEW B, NEW d, ArePhases(phases, B, d),
         NEW N \in Nat, N = Cardinality(phases), NEW f, IsRun(f, phases, N)
  PROVE  RunHolds(f[N], phases, B, d)
<1>1. \A n \in 0..N : f[n] = IF n = 0 THEN UnionBegin(phases) ELSE UnionStep(f[n - 1])
  BY Zenon DEF IsRun
<1> DEFINE Holds(n) ==
             /\ RunHolds(f[n], phases, B, d)
             /\ IsFiniteSet(f[n].rest) /\ Cardinality(f[n].rest) = N - n
           bad == {n \in 0..N : ~Holds(n)}
<1>2. Holds(0)
  <2>1. f[0] = UnionBegin(phases)
    BY <1>1
  <2>2. /\ f[0].rest = phases /\ f[0].union = [started |-> 0, ended |-> 0, total |-> 0]
    BY <2>1 DEF UnionBegin
  <2>3. Cardinality(Below(B, 0)) \in Nat
    BY PartOf DEF Below, ArePhases
  <2> QED BY <2>2, <2>3 DEF RunHolds, UnionHolds, ArePhases
<1>3. ASSUME NEW n \in 1..N, Holds(n - 1) PROVE Holds(n)
  <2>1. PICK r : r = f[n - 1]
    OBVIOUS
  <2>2. PICK w : w = f[n]
    OBVIOUS
  <2>3. w = UnionStep(r)
    BY <1>1, <2>1, <2>2
  <2>4. RunHolds(r, phases, B, d) /\ IsFiniteSet(r.rest) /\ Cardinality(r.rest) = N - (n - 1)
    BY <1>3, <2>1
  <2>5. r.rest # {}
    <3>1. N - (n - 1) # 0
      OBVIOUS
    <3> QED BY <2>4, <3>1, FS_EmptySet
  <2>6. PICK p : p = Timing!First(r.rest)
    OBVIOUS
  <2>7. RunHolds(w, phases, B, d) /\ p \in r.rest /\ w.rest = r.rest \ {p}
    BY <2>3, <2>4, <2>5, <2>6, UnionStepHolds
  <2>8. IsFiniteSet(w.rest) /\ Cardinality(w.rest) = (N - (n - 1)) - 1
    BY <2>4, <2>7, FS_RemoveElement
  <2> QED BY <2>2, <2>7, <2>8
<1> HIDE DEF Holds
<1>4. bad = {}
  <2>1. SUFFICES ASSUME bad # {} PROVE FALSE
    BY <2>1
  <2>2. bad \in SUBSET Nat
    OBVIOUS
  <2>3. PICK m \in bad : \A k \in bad : m <= k
    BY <2>1, <2>2, LeastNumber
  <2>4. m \in 1..N
    BY <1>2, <2>3
  <2>5. m - 1 \in 0..N /\ m - 1 \notin bad
    BY <2>2, <2>3, <2>4
  <2> QED BY <1>3, <2>3, <2>4, <2>5
<1>5. N \in 0..N
  OBVIOUS
<1> QED BY <1>4, <1>5 DEF Holds

\* Time in phases that overlap counts once: no more is attributed than was spent in one.
LEMMA AttributedIsBusy ==
  ASSUME Timing!TimingAssumption, NEW t \in Tokens
  PROVE  /\ Timing!Attributed(t) \in Nat /\ Timing!Busy(t) \in Nat /\ t.duration \in Nat
         /\ Timing!Attributed(t) <= Timing!Busy(t)
<1> DEFINE d == t.duration
           P == Timing!Noted(t)
           B == {tick \in 0..(d - 1) : \E p \in t.phases : p.started <= tick /\ tick < p.ended}
<1>1. /\ d \in Nat /\ IsFiniteSet(t.phases)
      /\ \A p \in t.phases : p.started \in Nat /\ p.ended \in Nat /\ p.started <= p.ended
  BY SameCountOfTiming DEF Timing!TimingAssumption
<1> HIDE DEF d
<1>2. IsFiniteSet(B) /\ B \in SUBSET Nat /\ Timing!Busy(t) = Cardinality(B) /\ Cardinality(B) \in Nat
  <2>1. IsFiniteSet(0..(d - 1))
    BY <1>1, FS_Interval
  <2>2. B \in SUBSET (0..(d - 1))
    OBVIOUS
  <2>3. Timing!Busy(t) = Cardinality(B)
    BY SameCountOfTiming DEF Timing!Busy, d
  <2> QED BY <1>1, <2>1, <2>2, <2>3, PartOf
<1>3. P \in SUBSET t.phases /\ \A p \in P : p.ended <= d
  BY DEF Timing!Noted, d
<1>4. IsFiniteSet(P) /\ Cardinality(P) \in Nat
  BY <1>1, <1>3, PartOf
<1>5. ArePhases(P, B, d)
  <2>1. ASSUME NEW p \in P
        PROVE  /\ p.started \in Nat /\ p.ended \in 0..d /\ p.started <= p.ended
               /\ p.started..(p.ended - 1) \subseteq B
    <3>1. p \in t.phases /\ p.started \in Nat /\ p.ended \in 0..d /\ p.started <= p.ended
      BY <1>1, <1>3
    <3>2. ASSUME NEW k \in p.started..(p.ended - 1) PROVE k \in B
      BY <1>1, <3>1
    <3> QED BY <3>1, <3>2
  <2> HIDE DEF P, B
  <2> QED BY <1>1, <1>2, <2>1 DEF ArePhases
<1> HIDE DEF P, B
<1>6. PICK N \in Nat : N = Cardinality(P)
  BY <1>4
<1>7. PICK f : IsRun(f, P, N) /\ Timing!Union(P) = f[N].union
  BY <1>6, UnionIsRun, SameCountOfTiming
<1>8. RunHolds(f[N], P, B, d)
  BY <1>1, <1>2, <1>4, <1>5, <1>6, <1>7, RunIsHeld
<1>9. PICK u : u = Timing!Union(P)
  OBVIOUS
<1>10. /\ u.started \in Nat /\ u.ended \in 0..d /\ u.total \in Nat
       /\ u.started..(u.ended - 1) \subseteq B
       /\ u.total <= Cardinality(Below(B, u.started))
  BY <1>7, <1>8, <1>9 DEF RunHolds, UnionHolds
<1> DEFINE length == u.total + IF u.ended > u.started THEN u.ended - u.started ELSE 0
<1>11. length \in Nat /\ length <= Cardinality(B)
  <2>1. /\ Cardinality(Below(B, u.started)) \in Nat
        /\ Cardinality(Below(B, u.started)) <= Cardinality(B)
    BY <1>2, PartOf DEF Below
  <2>2. CASE u.ended > u.started
    <3>1. u.started <= u.ended /\ u.ended <= u.ended /\ u.ended \in Nat
      BY <1>1, <1>10, <2>2
    <3>2. Cardinality(Below(B, u.started)) + (u.ended - u.started)
             <= Cardinality(Below(B, u.ended))
      BY <1>2, <1>10, <3>1, BusyGrows
    <3>3. /\ Cardinality(Below(B, u.ended)) \in Nat
          /\ Cardinality(Below(B, u.ended)) <= Cardinality(B)
      BY <1>2, PartOf DEF Below
    <3> QED BY <1>2, <1>10, <2>1, <2>2, <3>1, <3>2, <3>3
  <2>3. CASE ~(u.ended > u.started)
    BY <1>2, <1>10, <2>1, <2>3
  <2> QED BY <2>2, <2>3
<1>12. Timing!Attributed(t) = IF length < d THEN length ELSE d
  BY <1>9 DEF Timing!Attributed, P, d
<1> HIDE DEF length
<1> QED BY <1>1, <1>2, <1>11, <1>12 DEF d

-----------------------------------------------------------------------------
(* The timing: the lines of what was read                                  *)

WithoutReturn(s) == IF s # <<>> /\ s[Len(s)] = CR THEN SubSeq(s, 1, Len(s) - 1) ELSE s

FeedsOf(r) == {0} \cup {i \in DOMAIN r : r[i] = LF}

\* The lines of the module, as a function of what was read.
LineOf(r, i) ==
    LET ends == {j \in FeedsOf(r) : j > i}
        last == IF ends = {} THEN Len(r) ELSE Timing!Min(ends) - 1
        cut == IF ends # {} /\ last > i /\ r[last] = CR THEN last - 1 ELSE last
    IN SubSeq(r, i + 1, cut)

LEMMA LinesOfRead ==
  /\ Timing!Feeds = FeedsOf(read)
  /\ \A i : Timing!LineAfter(i) = LineOf(read, i)
BY Zenon DEF Timing!Feeds, Timing!LineAfter, FeedsOf, LineOf

LEMMA FeedsAreNumbers ==
  ASSUME NEW S, NEW r \in Seq(S)
  PROVE  FeedsOf(r) \in SUBSET (0..Len(r)) /\ 0 \in FeedsOf(r) /\ Len(r) \in Nat
BY DEF FeedsOf

LEMMA FeedsOfMore ==
  ASSUME NEW S, NEW r \in Seq(S), NEW b \in S, NEW s, s = Append(r, b)
  PROVE  FeedsOf(s) = IF b = LF THEN FeedsOf(r) \cup {Len(r) + 1} ELSE FeedsOf(r)
<1>1. /\ s \in Seq(S) /\ Len(s) = Len(r) + 1 /\ s[Len(r) + 1] = b
      /\ \A i \in 1..Len(r) : s[i] = r[i]
      /\ DOMAIN s = 1..(Len(r) + 1) /\ DOMAIN r = 1..Len(r) /\ Len(r) \in Nat
  OBVIOUS
<1> QED BY <1>1 DEF FeedsOf

LEMMA PartsOfMore ==
  ASSUME NEW S, NEW r \in Seq(S), NEW b \in S, NEW s, s = Append(r, b),
         NEW i \in 1..(Len(r) + 1)
  PROVE  /\ \A j \in 0..Len(r) : SubSeq(s, i, j) = SubSeq(r, i, j)
         /\ SubSeq(s, i, Len(s)) = Append(SubSeq(r, i, Len(r)), b)
<1>1. /\ s \in Seq(S) /\ Len(s) = Len(r) + 1 /\ s[Len(r) + 1] = b /\ Len(r) \in Nat
      /\ \A k \in 1..Len(r) : s[k] = r[k]
  OBVIOUS
<1>2. ASSUME NEW j \in 0..Len(r) PROVE SubSeq(s, i, j) = SubSeq(r, i, j)
  BY <1>1
<1>3. SubSeq(s, i, Len(s)) = Append(SubSeq(r, i, Len(r)), b)
  BY <1>1
<1> QED BY <1>2, <1>3

LEMMA LineBetween ==
  ASSUME NEW S, NEW r \in Seq(S), NEW i \in FeedsOf(r), NEW j \in FeedsOf(r), i < j,
         \A k \in FeedsOf(r) : k <= i \/ k >= j
  PROVE  LineOf(r, i) = WithoutReturn(SubSeq(r, i + 1, j - 1))
<1>1. FeedsOf(r) \in SUBSET (0..Len(r)) /\ i \in Nat /\ j \in Nat /\ Len(r) \in Nat /\ j <= Len(r)
  BY FeedsAreNumbers
<1> DEFINE ends == {k \in FeedsOf(r) : k > i}
           part_1 == SubSeq(r, i + 1, j - 1)
<1>2. j \in ends /\ \A k \in ends : j <= k
  BY <1>1
<1>3. Timing!Min(ends) = j
  <2>1. \A x \in ends : (\A y \in ends : x <= y) => x = j
    BY <1>1, <1>2
  <2> HIDE DEF ends
  <2> QED BY <1>2, <2>1, Zenon DEF Timing!Min
<1>4. ends # {}
  BY <1>2
<1>5. LineOf(r, i) =
        SubSeq(r, i + 1, IF j - 1 > i /\ r[j - 1] = CR THEN j - 1 - 1 ELSE j - 1)
  BY <1>3, <1>4 DEF LineOf
<1>6. /\ part_1 \in Seq(S) /\ Len(part_1) = j - 1 - i /\ (part_1 # <<>> <=> j - 1 > i)
      /\ \A k \in 1..(j - 1 - i) : part_1[k] = r[k + i]
  <2>1. /\ part_1 = [k \in 1..((j - 1) - (i + 1) + 1) |-> r[k + (i + 1) - 1]]
        /\ \A k \in 1..(j - 1 - i) : k + (i + 1) - 1 \in 1..Len(r)
    BY <1>1
  <2>2. part_1 \in Seq(S) /\ Len(part_1) = j - 1 - i
    BY <1>1
  <2>3. \A k \in 1..(j - 1 - i) : part_1[k] = r[k + i]
    BY <1>1
  <2>4. part_1 # <<>> <=> Len(part_1) > 0
    <3> HIDE DEF part_1
    <3> QED BY <2>2
  <2> QED BY <1>1, <2>2, <2>3, <2>4
<1>7. CASE j - 1 > i /\ r[j - 1] = CR
  <2>1. part_1 # <<>> /\ part_1[Len(part_1)] = CR
    BY <1>1, <1>6, <1>7
  <2>2. SubSeq(part_1, 1, Len(part_1) - 1) = SubSeq(r, i + 1, j - 1 - 1)
    BY <1>1, <1>6, <1>7
  <2> QED BY <1>5, <1>7, <2>1, <2>2 DEF WithoutReturn
<1>8. CASE ~(j - 1 > i /\ r[j - 1] = CR)
  <2>1. ~(part_1 # <<>> /\ part_1[Len(part_1)] = CR)
    BY <1>1, <1>6, <1>8
  <2> HIDE DEF part_1
  <2>2. WithoutReturn(part_1) = part_1
    BY <2>1 DEF WithoutReturn
  <2> QED BY <1>5, <1>8, <2>2 DEF part_1
<1> QED BY <1>7, <1>8

LEMMA LineAtEnd ==
  ASSUME NEW S, NEW r \in Seq(S), NEW i \in FeedsOf(r), \A k \in FeedsOf(r) : k <= i
  PROVE  LineOf(r, i) = SubSeq(r, i + 1, Len(r))
<1>1. {k \in FeedsOf(r) : k > i} = {}
  <2>1. FeedsOf(r) \in SUBSET (0..Len(r)) /\ Len(r) \in Nat
    BY FeedsAreNumbers
  <2> QED BY <2>1
<1> QED BY <1>1 DEF LineOf

\* The lines before the last line feed are not touched by what is read after it.
LEMMA LinesStay ==
  ASSUME NEW S, NEW r \in Seq(S), NEW b \in S, NEW s, s = Append(r, b),
         NEW last \in FeedsOf(r), NEW i \in FeedsOf(r), i < last
  PROVE  LineOf(s, i) = LineOf(r, i)
<1>1. FeedsOf(r) \in SUBSET (0..Len(r)) /\ i \in Nat /\ last \in Nat /\ Len(r) \in Nat
  BY FeedsAreNumbers
<1> DEFINE ends == {k \in FeedsOf(r) : k > i}
<1>2. ends \in SUBSET Nat /\ ends # {}
  BY <1>1
<1>3. PICK j \in ends : \A k \in ends : j <= k
  BY <1>2, LeastNumber
<1>4. /\ j \in FeedsOf(r) /\ i < j /\ \A k \in FeedsOf(r) : k <= i \/ k >= j
  BY <1>1, <1>3
<1>5. LineOf(r, i) = WithoutReturn(SubSeq(r, i + 1, j - 1))
  BY <1>4, LineBetween
<1>6. s \in Seq(S) /\ FeedsOf(s) \subseteq FeedsOf(r) \cup {Len(r) + 1} /\ FeedsOf(r) \subseteq FeedsOf(s)
  <2>1. s \in Seq(S)
    OBVIOUS
  <2>2. FeedsOf(s) = FeedsOf(r) \/ FeedsOf(s) = FeedsOf(r) \cup {Len(r) + 1}
    BY FeedsOfMore
  <2> QED BY <2>1, <2>2
<1>7. \A k \in FeedsOf(s) : k <= i \/ k >= j
  BY <1>1, <1>4, <1>6
<1>8. LineOf(s, i) = WithoutReturn(SubSeq(s, i + 1, j - 1))
  BY <1>4, <1>6, <1>7, LineBetween
<1>9. i + 1 \in 1..(Len(r) + 1) /\ j - 1 \in 0..Len(r)
  BY <1>1, <1>4
<1>10. SubSeq(s, i + 1, j - 1) = SubSeq(r, i + 1, j - 1)
  BY <1>9, PartsOfMore
<1> QED BY <1>5, <1>8, <1>10

-----------------------------------------------------------------------------
(* The timing: what a line adds                                            *)

TimedGroups == DOMAIN Timing!NoSamples

SumsTyped(s) ==
    /\ s = [parsed |-> s.parsed, valid |-> s.valid, success |-> s.success, error |-> s.error,
            invalid |-> s.invalid, ignored |-> s.ignored, outcomeInvalid |-> s.outcomeInvalid,
            coverageInvalid |-> s.coverageInvalid, stored |-> s.stored]
    /\ s.parsed \in Nat /\ s.valid \in Nat /\ s.success \in Nat /\ s.error \in Nat
    /\ s.invalid \in Nat /\ s.ignored \in Nat /\ s.outcomeInvalid \in Nat
    /\ s.coverageInvalid \in Nat /\ s.stored \in Nat

KeptTyped(k) ==
    /\ k = [all |-> k.all, successful |-> k.successful, covered |-> k.covered,
            attributed |-> k.attributed, parts |-> k.parts]
    /\ k.successful \in [TimedGroups -> Nat] /\ k.covered \in [TimedGroups -> Nat]
    /\ k.attributed \in [TimedGroups -> Nat]

\* What a parsed line adds to the counters: it is valid, invalid or ignored, but for an
\* operation without an outcome.
AddsUp(s, u) ==
    /\ SumsTyped(u) /\ u.parsed = s.parsed
    /\ u.valid + u.invalid + u.ignored + s.outcomeInvalid =
          s.valid + s.invalid + s.ignored + u.outcomeInvalid + 1
    /\ u.valid + s.success + s.error >= s.valid + u.success + u.error
    /\ u.invalid >= s.invalid /\ u.coverageInvalid >= s.coverageInvalid

IsSuccess(t) == t.event = "operation" /\ t.outcome = "success"

\* A sample is kept of an operation that succeeded, and of no other.
KeepsNone(s, u, kept) ==
    /\ kept.successful = samples.successful /\ kept.covered = samples.covered
    /\ kept.attributed = samples.attributed

KeepsOne(s, u, kept, t) ==
    /\ kept.successful = [samples.successful EXCEPT ![t.group] = @ + 1]
    /\ u.coverageInvalid = s.coverageInvalid =>
          /\ kept.covered = [samples.covered EXCEPT ![t.group] = @ + 1]
          /\ kept.attributed =
                [samples.attributed EXCEPT ![t.group] =
                   @ + IF Timing!WellAttributed(t) THEN 1 ELSE 0]

Keeps(s, u, kept, t) ==
    /\ KeptTyped(kept)
    /\ u.invalid = s.invalid =>
          IF IsSuccess(t) THEN KeepsOne(s, u, kept, t) ELSE KeepsNone(s, u, kept)

LEMMA InvalidAddsUp ==
  ASSUME NEW s, SumsTyped(s), NEW u, u = Timing!Invalid(s)
  PROVE  AddsUp(s, u) /\ u.invalid # s.invalid
<1>1. u = [parsed |-> s.parsed, valid |-> s.valid, success |-> s.success, error |-> s.error,
           invalid |-> s.invalid + 1, ignored |-> s.ignored,
           outcomeInvalid |-> s.outcomeInvalid, coverageInvalid |-> s.coverageInvalid,
           stored |-> s.stored]
  BY DEF SumsTyped, Timing!Invalid
<1>2. /\ u.parsed = s.parsed /\ u.valid = s.valid /\ u.success = s.success
      /\ u.error = s.error /\ u.invalid = s.invalid + 1 /\ u.ignored = s.ignored
      /\ u.outcomeInvalid = s.outcomeInvalid /\ u.coverageInvalid = s.coverageInvalid
      /\ u.stored = s.stored
  BY <1>1
<1>3. SumsTyped(u)
  BY <1>1, <1>2 DEF SumsTyped
<1> QED BY <1>2, <1>3 DEF AddsUp, SumsTyped

\* Each counter of a valid operation or phase; the samples stored are not bounded here.
LEMMA ValidAddsUp ==
  ASSUME NEW s, SumsTyped(s), NEW u,
         NEW success \in {0, 1}, NEW error \in {0, 1}, NEW uncovered \in {0, 1},
         success + error <= 1, NEW stored \in Nat,
         u = [parsed |-> s.parsed, valid |-> s.valid + 1, success |-> s.success + success,
              error |-> s.error + error, invalid |-> s.invalid, ignored |-> s.ignored,
              outcomeInvalid |-> s.outcomeInvalid,
              coverageInvalid |-> s.coverageInvalid + uncovered, stored |-> stored]
  PROVE  AddsUp(s, u) /\ u.coverageInvalid = s.coverageInvalid + uncovered
<1>2. /\ u.parsed = s.parsed /\ u.valid = s.valid + 1 /\ u.success = s.success + success
      /\ u.error = s.error + error /\ u.invalid = s.invalid /\ u.ignored = s.ignored
      /\ u.outcomeInvalid = s.outcomeInvalid
      /\ u.coverageInvalid = s.coverageInvalid + uncovered /\ u.stored = stored
  OBVIOUS
<1>3. u = [parsed |-> u.parsed, valid |-> u.valid, success |-> u.success, error |-> u.error,
           invalid |-> u.invalid, ignored |-> u.ignored, outcomeInvalid |-> u.outcomeInvalid,
           coverageInvalid |-> u.coverageInvalid, stored |-> u.stored]
  OBVIOUS
<1>4. SumsTyped(u)
  BY <1>2, <1>3 DEF SumsTyped
<1> QED BY <1>2, <1>4 DEF AddsUp, SumsTyped

LEMMA Results ==
  /\ Timing!Limit.limit
  /\ \A u, k : Timing!Result(u, k).sums = u /\ Timing!Result(u, k).samples = k
  /\ \A u, k : ~Timing!Result(u, k).limit
<1>1. Timing!Limit.limit
  BY Zenon DEF Timing!Limit
<1>2. \A u, k : Timing!Result(u, k).sums = u /\ Timing!Result(u, k).samples = k
  BY DEF Timing!Result
<1>3. \A u, k : ~Timing!Result(u, k).limit
  BY Zenon DEF Timing!Result
<1> QED BY <1>1, <1>2, <1>3

LEMMA OperationAdds ==
  ASSUME NEW s, SumsTyped(s), KeptTyped(samples), NEW t \in Tokens, t.event = "operation",
         t.outcome \in {"success", "error", "missing"},
         NEW out, out = Timing!AddOperation(s, t), ~out.limit
  PROVE  AddsUp(s, out.sums) /\ Keeps(s, out.sums, out.samples, t)
<1>0. PICK valid, all, success, successful, covered, missing, error, uncovered, stored :
        /\ valid = [s EXCEPT !.valid = @ + 1, !.stored = @ + 1]
        /\ all = [samples EXCEPT !.all[t.group] = @ + 1]
        /\ success = [valid EXCEPT !.success = @ + 1, !.stored = @ + 1]
        /\ successful = [all EXCEPT !.successful[t.group] = @ + 1]
        /\ covered = [successful EXCEPT !.covered[t.group] = @ + 1,
                        !.attributed[t.group] = @ + IF Timing!WellAttributed(t) THEN 1 ELSE 0]
        /\ missing = [valid EXCEPT !.outcomeInvalid = @ + 1]
        /\ error = [valid EXCEPT !.error = @ + 1]
        /\ uncovered = [success EXCEPT !.coverageInvalid = @ + 1]
        /\ stored = [success EXCEPT !.stored = @ + 1]
  BY Zenon
<1>1. \/ out = Timing!Result(Timing!Invalid(s), samples)
      \/ t.outcome = "missing" /\ out = Timing!Result(Timing!Invalid(missing), all)
      \/ t.outcome = "error" /\ out = Timing!Result(error, all)
      \/ t.outcome = "success" /\ out = Timing!Result(uncovered, successful)
      \/ t.outcome = "success" /\ out = Timing!Result(stored, covered)
  <2>1. out = IF Timing!IsFull(samples.all, t.group)
              THEN Timing!Result(Timing!Invalid(s), samples)
              ELSE IF Timing!IsTooMuch(samples.all, t.group, valid.stored) THEN Timing!Limit
              ELSE IF t.outcome = "missing" THEN Timing!Result(Timing!Invalid(missing), all)
              ELSE IF t.outcome = "error" THEN Timing!Result(error, all)
              ELSE IF success.stored > MaxSamples THEN Timing!Limit
              ELSE IF ~Timing!HasCoverage(t) THEN Timing!Result(uncovered, successful)
              ELSE IF success.stored + 1 > MaxSamples THEN Timing!Limit
              ELSE Timing!Result(stored, covered)
    <3> DEFINE v == [s EXCEPT !.valid = @ + 1, !.stored = @ + 1]
               a == [samples EXCEPT !.all[t.group] = @ + 1]
               c == [v EXCEPT !.success = @ + 1, !.stored = @ + 1]
               l == [a EXCEPT !.successful[t.group] = @ + 1]
               o == [l EXCEPT !.covered[t.group] = @ + 1,
                        !.attributed[t.group] = @ + IF Timing!WellAttributed(t) THEN 1 ELSE 0]
               m == [v EXCEPT !.outcomeInvalid = @ + 1]
               e == [v EXCEPT !.error = @ + 1]
               u == [c EXCEPT !.coverageInvalid = @ + 1]
               z == [c EXCEPT !.stored = @ + 1]
    <3>1. out = IF Timing!IsFull(samples.all, t.group)
                THEN Timing!Result(Timing!Invalid(s), samples)
                ELSE IF Timing!IsTooMuch(samples.all, t.group, v.stored) THEN Timing!Limit
                ELSE IF t.outcome = "missing" THEN Timing!Result(Timing!Invalid(m), a)
                ELSE IF t.outcome = "error" THEN Timing!Result(e, a)
                ELSE IF c.stored > MaxSamples THEN Timing!Limit
                ELSE IF ~Timing!HasCoverage(t) THEN Timing!Result(u, l)
                ELSE IF c.stored + 1 > MaxSamples THEN Timing!Limit
                ELSE Timing!Result(z, o)
      BY Zenon DEF Timing!AddOperation
    <3>2. v = valid /\ a = all
      BY <1>0, Zenon
    <3>3. c = success /\ l = successful
      BY <1>0, <3>2, Zenon
    <3>4. o = covered /\ m = missing /\ e = error /\ u = uncovered /\ z = stored
      BY <1>0, <3>2, <3>3, Zenon
    <3> HIDE DEF v, a, c, l, o, m, e, u, z
    <3> QED BY <3>1, <3>2, <3>3, <3>4, Zenon
  <2>2. out # Timing!Limit
    BY Results, Zenon
  <2> QED BY <2>1, <2>2
<1>2. t.group \in TimedGroups
  BY DEF TimedGroups, Timing!NoSamples
<1>3. /\ valid = [parsed |-> s.parsed, valid |-> s.valid + 1, success |-> s.success,
                  error |-> s.error, invalid |-> s.invalid, ignored |-> s.ignored,
                  outcomeInvalid |-> s.outcomeInvalid, coverageInvalid |-> s.coverageInvalid,
                  stored |-> s.stored + 1]
  BY <1>0 DEF SumsTyped
<1>4. PICK k : k = samples
  OBVIOUS
<1>5. /\ k = [all |-> k.all, successful |-> k.successful, covered |-> k.covered,
              attributed |-> k.attributed, parts |-> k.parts]
      /\ k.successful \in [TimedGroups -> Nat] /\ k.covered \in [TimedGroups -> Nat]
      /\ k.attributed \in [TimedGroups -> Nat]
  BY <1>4 DEF KeptTyped
<1>6. /\ KeptTyped(all) /\ all.successful = k.successful /\ all.covered = k.covered
      /\ all.attributed = k.attributed
  <2>1. PICK a : a = [k.all EXCEPT ![t.group] = @ + 1]
    OBVIOUS
  <2>2. all = [all |-> a, successful |-> k.successful, covered |-> k.covered,
               attributed |-> k.attributed, parts |-> k.parts]
    BY <1>0, <1>4, <1>5, <2>1
  <2>3. all.all = a /\ all.parts = k.parts /\ all.successful = k.successful /\ all.covered = k.covered
        /\ all.attributed = k.attributed
    BY <2>2
  <2> QED BY <1>5, <2>2, <2>3 DEF KeptTyped
<1>7. /\ KeptTyped(successful)
      /\ successful.successful = [k.successful EXCEPT ![t.group] = @ + 1]
      /\ successful.covered = k.covered /\ successful.attributed = k.attributed
  <2>1. PICK a : a = [k.successful EXCEPT ![t.group] = @ + 1]
    OBVIOUS
  <2>2. a \in [TimedGroups -> Nat]
    BY <1>2, <1>5, <2>1
  <2>3. successful = [all |-> all.all, successful |-> a, covered |-> k.covered,
                      attributed |-> k.attributed, parts |-> all.parts]
    BY <1>0, <1>6, <2>1 DEF KeptTyped
  <2>4. successful.all = all.all /\ successful.parts = all.parts /\ successful.successful = a
        /\ successful.covered = k.covered /\ successful.attributed = k.attributed
    BY <2>3
  <2> QED BY <1>5, <2>1, <2>2, <2>3, <2>4 DEF KeptTyped
<1>8. /\ KeptTyped(covered)
      /\ covered.successful = [k.successful EXCEPT ![t.group] = @ + 1]
      /\ covered.covered = [k.covered EXCEPT ![t.group] = @ + 1]
      /\ covered.attributed =
            [k.attributed EXCEPT ![t.group] = @ + IF Timing!WellAttributed(t) THEN 1 ELSE 0]
  <2>1. PICK a, b : /\ a = [k.covered EXCEPT ![t.group] = @ + 1]
                    /\ b = [k.attributed EXCEPT ![t.group] =
                              @ + IF Timing!WellAttributed(t) THEN 1 ELSE 0]
    OBVIOUS
  <2>2. a \in [TimedGroups -> Nat] /\ b \in [TimedGroups -> Nat]
    BY <1>2, <1>5, <2>1
  <2>3. covered = [all |-> successful.all, successful |-> successful.successful,
                   covered |-> a, attributed |-> b, parts |-> successful.parts]
    BY <1>0, <1>7, <2>1 DEF KeptTyped
  <2>4. covered.all = successful.all /\ covered.parts = successful.parts
        /\ covered.successful = successful.successful
        /\ covered.covered = a /\ covered.attributed = b
    BY <2>3
  <2> QED BY <1>7, <2>1, <2>2, <2>3, <2>4 DEF KeptTyped
<1>9. Keeps(s, Timing!Invalid(s), samples, t) /\ AddsUp(s, Timing!Invalid(s))
  BY InvalidAddsUp DEF Keeps
<1>10. ASSUME t.outcome = "missing"
       PROVE  AddsUp(s, Timing!Invalid(missing)) /\ Keeps(s, Timing!Invalid(missing), all, t)
  <2>1. PICK u : u = Timing!Invalid(missing)
    OBVIOUS
  <2>2. missing = [parsed |-> s.parsed, valid |-> s.valid + 1, success |-> s.success,
             error |-> s.error, invalid |-> s.invalid, ignored |-> s.ignored,
             outcomeInvalid |-> s.outcomeInvalid + 1, coverageInvalid |-> s.coverageInvalid,
             stored |-> s.stored + 1]
    BY <1>0, <1>3
  <2>3. u = [parsed |-> s.parsed, valid |-> s.valid + 1, success |-> s.success,
             error |-> s.error, invalid |-> s.invalid + 1, ignored |-> s.ignored,
             outcomeInvalid |-> s.outcomeInvalid + 1, coverageInvalid |-> s.coverageInvalid,
             stored |-> s.stored + 1]
    BY <2>1, <2>2 DEF Timing!Invalid
  <2>4. /\ u.parsed = s.parsed /\ u.valid = s.valid + 1 /\ u.success = s.success
        /\ u.error = s.error /\ u.invalid = s.invalid + 1 /\ u.ignored = s.ignored
        /\ u.outcomeInvalid = s.outcomeInvalid + 1 /\ u.coverageInvalid = s.coverageInvalid
        /\ u.stored = s.stored + 1
    BY <2>3
  <2>5. SumsTyped(u)
    BY <2>3, <2>4 DEF SumsTyped
  <2>6. AddsUp(s, u) /\ u.invalid # s.invalid
    BY <2>4, <2>5 DEF AddsUp, SumsTyped
  <2> QED BY <1>6, <2>1, <2>6 DEF Keeps
<1>11. ASSUME t.outcome = "error"
       PROVE  AddsUp(s, error) /\ Keeps(s, error, all, t)
  <2>1. error = [parsed |-> s.parsed, valid |-> s.valid + 1, success |-> s.success + 0,
              error |-> s.error + 1, invalid |-> s.invalid, ignored |-> s.ignored,
              outcomeInvalid |-> s.outcomeInvalid,
              coverageInvalid |-> s.coverageInvalid + 0, stored |-> s.stored + 1]
    <3>1. error = [parsed |-> s.parsed, valid |-> s.valid + 1, success |-> s.success,
                error |-> s.error + 1, invalid |-> s.invalid, ignored |-> s.ignored,
                outcomeInvalid |-> s.outcomeInvalid,
                coverageInvalid |-> s.coverageInvalid, stored |-> s.stored + 1]
      BY <1>0, <1>3
    <3>2. s.success + 0 = s.success /\ s.error + 0 = s.error /\ s.coverageInvalid + 0 = s.coverageInvalid
      BY DEF SumsTyped
    <3> QED BY <3>1, <3>2, Zenon
  <2>2. AddsUp(s, error)
    BY <2>1, ValidAddsUp DEF SumsTyped
  <2>3. ~IsSuccess(t) /\ KeepsNone(s, error, all)
    BY <1>4, <1>6, <1>11 DEF IsSuccess, KeepsNone
  <2> QED BY <1>6, <2>2, <2>3 DEF Keeps
<1>12. success = [parsed |-> s.parsed, valid |-> s.valid + 1, success |-> s.success + 1,
              error |-> s.error, invalid |-> s.invalid, ignored |-> s.ignored,
              outcomeInvalid |-> s.outcomeInvalid,
              coverageInvalid |-> s.coverageInvalid, stored |-> s.stored + 1 + 1]
  BY <1>0, <1>3
<1>13. ASSUME t.outcome = "success"
       PROVE  AddsUp(s, uncovered) /\ Keeps(s, uncovered, successful, t)
  <2>1. uncovered = [parsed |-> s.parsed, valid |-> s.valid + 1, success |-> s.success + 1,
              error |-> s.error + 0, invalid |-> s.invalid, ignored |-> s.ignored,
              outcomeInvalid |-> s.outcomeInvalid,
              coverageInvalid |-> s.coverageInvalid + 1, stored |-> s.stored + 1 + 1]
    <3>1. uncovered = [parsed |-> s.parsed, valid |-> s.valid + 1, success |-> s.success + 1,
                error |-> s.error, invalid |-> s.invalid, ignored |-> s.ignored,
                outcomeInvalid |-> s.outcomeInvalid,
                coverageInvalid |-> s.coverageInvalid + 1, stored |-> s.stored + 1 + 1]
      BY <1>0, <1>12
    <3>2. s.success + 0 = s.success /\ s.error + 0 = s.error /\ s.coverageInvalid + 0 = s.coverageInvalid
      BY DEF SumsTyped
    <3> QED BY <3>1, <3>2, Zenon
  <2>2. AddsUp(s, uncovered) /\ uncovered.coverageInvalid # s.coverageInvalid
    <3>1. AddsUp(s, uncovered) /\ uncovered.coverageInvalid = s.coverageInvalid + 1
      BY <2>1, ValidAddsUp DEF SumsTyped
    <3> QED BY <3>1 DEF SumsTyped
  <2>3. IsSuccess(t) /\ KeepsOne(s, uncovered, successful, t)
    BY <1>4, <1>7, <1>13, <2>2 DEF IsSuccess, KeepsOne
  <2> QED BY <1>7, <2>2, <2>3 DEF Keeps
<1>14. ASSUME t.outcome = "success"
       PROVE  AddsUp(s, stored) /\ Keeps(s, stored, covered, t)
  <2>1. stored = [parsed |-> s.parsed, valid |-> s.valid + 1, success |-> s.success + 1,
              error |-> s.error + 0, invalid |-> s.invalid, ignored |-> s.ignored,
              outcomeInvalid |-> s.outcomeInvalid,
              coverageInvalid |-> s.coverageInvalid + 0, stored |-> s.stored + 1 + 1 + 1]
    <3>1. stored = [parsed |-> s.parsed, valid |-> s.valid + 1, success |-> s.success + 1,
                error |-> s.error, invalid |-> s.invalid, ignored |-> s.ignored,
                outcomeInvalid |-> s.outcomeInvalid,
                coverageInvalid |-> s.coverageInvalid, stored |-> s.stored + 1 + 1 + 1]
      BY <1>0, <1>12
    <3>2. s.success + 0 = s.success /\ s.error + 0 = s.error /\ s.coverageInvalid + 0 = s.coverageInvalid
      BY DEF SumsTyped
    <3> QED BY <3>1, <3>2, Zenon
  <2>2. AddsUp(s, stored)
    BY <2>1, ValidAddsUp DEF SumsTyped
  <2>3. IsSuccess(t) /\ KeepsOne(s, stored, covered, t)
    BY <1>4, <1>8, <1>14, <2>2 DEF IsSuccess, KeepsOne
  <2> QED BY <1>8, <2>2, <2>3 DEF Keeps
<1>15. \A u, k_1 : out = Timing!Result(u, k_1) => out.sums = u /\ out.samples = k_1
  BY Results
<1> QED BY <1>1, <1>9, <1>10, <1>11, <1>13, <1>14, <1>15

\* A line with nothing to say adds nothing; any other is counted once.
LEMMA LineAdds ==
  ASSUME Timing!TimingAssumption, SumsTyped(sums), KeptTyped(samples), NEW line,
         NEW out, out = Timing!AddLine(line), ~out.limit
  PROVE  /\ Timing!Marks(line) = {} => out.sums = sums /\ out.samples = samples
         /\ Timing!Marks(line) # {} =>
               \E s : /\ SumsTyped(s) /\ s.parsed = sums.parsed + 1
                      /\ s.valid = sums.valid /\ s.success = sums.success
                      /\ s.error = sums.error /\ s.invalid = sums.invalid
                      /\ s.ignored = sums.ignored /\ s.outcomeInvalid = sums.outcomeInvalid
                      /\ s.coverageInvalid = sums.coverageInvalid
                      /\ AddsUp(s, out.sums)
                      /\ Timing!Said(line) \in Tokens
                      /\ Keeps(s, out.sums, out.samples, Timing!Said(line))
<1>0. PICK s : s = [sums EXCEPT !.parsed = @ + 1]
  OBVIOUS
<1>1. s = [parsed |-> sums.parsed + 1, valid |-> sums.valid, success |-> sums.success,
           error |-> sums.error, invalid |-> sums.invalid, ignored |-> sums.ignored,
           outcomeInvalid |-> sums.outcomeInvalid, coverageInvalid |-> sums.coverageInvalid,
           stored |-> sums.stored]
  BY <1>0 DEF SumsTyped
<1>2. /\ s.parsed = sums.parsed + 1 /\ s.valid = sums.valid /\ s.success = sums.success
      /\ s.error = sums.error /\ s.invalid = sums.invalid /\ s.ignored = sums.ignored
      /\ s.outcomeInvalid = sums.outcomeInvalid /\ s.coverageInvalid = sums.coverageInvalid
      /\ s.stored = sums.stored
  BY <1>1
<1>3. SumsTyped(s)
  BY <1>1, <1>2 DEF SumsTyped
<1>4. PICK t : t = Timing!Said(line)
  OBVIOUS
<1>5. Timing!Marks(line) # {} => t \in Tokens
  BY <1>4 DEF Timing!Marks, Timing!Said
<1>6. PICK ignored, other, kept :
        /\ ignored = [s EXCEPT !.ignored = @ + 1]
        /\ other = [s EXCEPT !.valid = @ + 1, !.stored = @ + 1]
        /\ kept = [samples EXCEPT !.parts[t.event][t.group] = @ + 1]
  OBVIOUS
<1>7. out = IF scan.lines + 1 > MaxLines THEN Timing!Limit
            ELSE IF Timing!Marks(line) = {} THEN Timing!Result(sums, samples)
            ELSE IF ~Timing!IsJson(line) \/ t.event = "malformed"
            THEN Timing!Result(Timing!Invalid(s), samples)
            ELSE IF t.event = "other" THEN Timing!Result(ignored, samples)
            ELSE IF t.event \in Timing!PartEvents
            THEN IF Timing!IsFull(samples.parts[t.event], t.group)
                 THEN Timing!Result(Timing!Invalid(s), samples)
                 ELSE IF Timing!IsTooMuch(samples.parts[t.event], t.group, other.stored)
                 THEN Timing!Limit ELSE Timing!Result(other, kept)
            ELSE Timing!AddOperation(s, t)
  <2> DEFINE x == [sums EXCEPT !.parsed = @ + 1]
             g == [x EXCEPT !.ignored = @ + 1]
             v == [x EXCEPT !.valid = @ + 1, !.stored = @ + 1]
             d == Timing!Said(line)
             p == [samples EXCEPT !.parts[d.event][d.group] = @ + 1]
  <2>1. out = IF scan.lines + 1 > MaxLines THEN Timing!Limit
              ELSE IF Timing!Marks(line) = {} THEN Timing!Result(sums, samples)
              ELSE IF ~Timing!IsJson(line) \/ d.event = "malformed"
              THEN Timing!Result(Timing!Invalid(x), samples)
              ELSE IF d.event = "other" THEN Timing!Result(g, samples)
              ELSE IF d.event \in Timing!PartEvents
              THEN IF Timing!IsFull(samples.parts[d.event], d.group)
                   THEN Timing!Result(Timing!Invalid(x), samples)
                   ELSE IF Timing!IsTooMuch(samples.parts[d.event], d.group, v.stored)
                   THEN Timing!Limit ELSE Timing!Result(v, p)
              ELSE Timing!AddOperation(x, d)
    BY Zenon DEF Timing!AddLine, Timing!AddOther
  <2>2. x = s
    BY <1>0, Zenon
  <2>3. g = ignored /\ v = other /\ d = t
    BY <1>4, <1>6, <2>2, Zenon
  <2>4. p = kept
    BY <1>6, <2>3, Zenon
  <2> HIDE DEF x, g, v, d, p
  <2> QED BY <2>1, <2>2, <2>3, <2>4, Zenon
<1>8. out # Timing!Limit
  BY Results, Zenon
<1>9. CASE Timing!Marks(line) = {}
  <2>1. out = Timing!Result(sums, samples)
    BY <1>7, <1>8, <1>9
  <2> QED BY <1>9, <2>1, Results
<1>10. CASE Timing!Marks(line) # {}
  <2>1. \/ out = Timing!Result(Timing!Invalid(s), samples)
        \/ t.event = "other" /\ out = Timing!Result(ignored, samples)
        \/ t.event \in Timing!PartEvents /\ out = Timing!Result(other, kept)
        \/ t.event \notin {"malformed", "other"} \cup Timing!PartEvents
           /\ out = Timing!AddOperation(s, t)
    BY <1>7, <1>8, <1>10
  <2>2. AddsUp(s, out.sums) /\ Keeps(s, out.sums, out.samples, t)
    <3>1. CASE out = Timing!Result(Timing!Invalid(s), samples)
      <4>1. out.sums = Timing!Invalid(s) /\ out.samples = samples
        BY <3>1, Results
      <4> QED BY <1>3, <4>1, InvalidAddsUp DEF Keeps
    <3>2. CASE t.event = "other" /\ out = Timing!Result(ignored, samples)
      <4>1. out.sums = ignored /\ out.samples = samples
        BY <3>2, Results
      <4>2. ignored = [parsed |-> s.parsed, valid |-> s.valid, success |-> s.success,
                 error |-> s.error, invalid |-> s.invalid, ignored |-> s.ignored + 1,
                 outcomeInvalid |-> s.outcomeInvalid, coverageInvalid |-> s.coverageInvalid,
                 stored |-> s.stored]
        BY <1>1, <1>2, <1>6
      <4>3. /\ ignored.parsed = s.parsed /\ ignored.valid = s.valid
            /\ ignored.success = s.success /\ ignored.error = s.error
            /\ ignored.invalid = s.invalid /\ ignored.ignored = s.ignored + 1
            /\ ignored.outcomeInvalid = s.outcomeInvalid
            /\ ignored.coverageInvalid = s.coverageInvalid /\ ignored.stored = s.stored
        BY <4>2
      <4>4. SumsTyped(ignored)
        BY <1>3, <4>2, <4>3 DEF SumsTyped
      <4>5. AddsUp(s, ignored)
        BY <1>3, <4>3, <4>4 DEF AddsUp, SumsTyped
      <4>6. ~IsSuccess(t) /\ KeepsNone(s, ignored, samples)
        BY <3>2 DEF IsSuccess, KeepsNone
      <4> QED BY <4>1, <4>5, <4>6 DEF Keeps
    <3>3. CASE t.event \in Timing!PartEvents /\ out = Timing!Result(other, kept)
      <4>1. out.sums = other /\ out.samples = kept
        BY <3>3, Results
      <4>2. other = [parsed |-> s.parsed, valid |-> s.valid + 1, success |-> s.success,
                 error |-> s.error, invalid |-> s.invalid, ignored |-> s.ignored,
                 outcomeInvalid |-> s.outcomeInvalid, coverageInvalid |-> s.coverageInvalid,
                 stored |-> s.stored + 1]
        BY <1>1, <1>2, <1>6
      <4>3. /\ other.parsed = s.parsed /\ other.valid = s.valid + 1
            /\ other.success = s.success /\ other.error = s.error
            /\ other.invalid = s.invalid /\ other.ignored = s.ignored
            /\ other.outcomeInvalid = s.outcomeInvalid
            /\ other.coverageInvalid = s.coverageInvalid /\ other.stored = s.stored + 1
        BY <4>2
      <4>4. SumsTyped(other)
        BY <1>3, <4>2, <4>3 DEF SumsTyped
      <4>5. AddsUp(s, other)
        BY <1>3, <4>3, <4>4 DEF AddsUp, SumsTyped
      <4>6. KeptTyped(kept) /\ KeepsNone(s, other, kept)
        <5>1. PICK q : q = [samples.parts EXCEPT ![t.event][t.group] = @ + 1]
          OBVIOUS
        <5>2. kept = [all |-> samples.all, successful |-> samples.successful,
                      covered |-> samples.covered, attributed |-> samples.attributed,
                      parts |-> q]
          BY <1>6, <5>1 DEF KeptTyped
        <5>3. /\ kept.successful = samples.successful /\ kept.covered = samples.covered
              /\ kept.attributed = samples.attributed /\ kept.all = samples.all
              /\ kept.parts = q
          BY <5>2
        <5> QED BY <5>2, <5>3 DEF KeptTyped, KeepsNone
      <4>7. ~IsSuccess(t)
        BY <3>3 DEF IsSuccess, Timing!PartEvents
      <4> QED BY <4>1, <4>5, <4>6, <4>7 DEF Keeps
    <3>4. CASE /\ t.event \notin {"malformed", "other"} \cup Timing!PartEvents
               /\ out = Timing!AddOperation(s, t)
      <4>1. t \in Tokens /\ t.event = "operation" /\ t.outcome \in {"success", "error", "missing"}
        BY <1>5, <1>10, <3>4 DEF Timing!TimingAssumption
      <4> QED BY <1>3, <3>4, <4>1, OperationAdds
    <3> QED BY <2>1, <3>1, <3>2, <3>3, <3>4
  <2> QED BY <1>2, <1>3, <1>4, <1>5, <1>10, <2>2
<1> QED BY <1>9, <1>10

-----------------------------------------------------------------------------
(* The timing: every line is counted                                       *)

SpokenOf(r) == {i \in FeedsOf(r) : Timing!Marks(LineOf(r, i)) # {}}

SuccessesOf(r, C, g) ==
    {i \in C : IsSuccess(Timing!Said(LineOf(r, i))) /\ Timing!Said(LineOf(r, i)).group = g}

WellOf(r, C, g) ==
    {i \in SuccessesOf(r, C, g) : Timing!WellAttributed(Timing!Said(LineOf(r, i)))}

KeptAgree(r, C, s, k) ==
    s.invalid = 0 => \A g \in TimedGroups :
       /\ k.successful[g] = Cardinality(SuccessesOf(r, C, g))
       /\ s.coverageInvalid = 0 =>
             /\ k.covered[g] = Cardinality(SuccessesOf(r, C, g))
             /\ k.attributed[g] = Cardinality(WellOf(r, C, g))

\* The counters and the samples are those of the lines after the positions of C.
CountsAgree(r, C, s, k) ==
    /\ SumsTyped(s) /\ KeptTyped(k)
    /\ IsFiniteSet(C) /\ s.parsed = Cardinality(C)
    /\ s.valid + s.invalid + s.ignored = s.parsed + s.outcomeInvalid
    /\ s.valid >= s.success + s.error
    /\ KeptAgree(r, C, s, k)

LEMMA CountsStay ==
  ASSUME NEW r, NEW r_1, NEW C, \A i \in C : LineOf(r_1, i) = LineOf(r, i),
         NEW s, NEW k, CountsAgree(r, C, s, k)
  PROVE  CountsAgree(r_1, C, s, k)
<1>1. \A g : SuccessesOf(r_1, C, g) = SuccessesOf(r, C, g)
  BY DEF SuccessesOf
<1>2. \A g : WellOf(r_1, C, g) = WellOf(r, C, g)
  BY <1>1 DEF WellOf, SuccessesOf
<1> QED BY <1>1, <1>2 DEF CountsAgree, KeptAgree

LEMMA SuccessesOfMore ==
  ASSUME NEW r, NEW C, IsFiniteSet(C), NEW i, i \notin C, NEW D, D = C \cup {i}, NEW g,
         NEW t, t = Timing!Said(LineOf(r, i))
  PROVE  /\ IsFiniteSet(SuccessesOf(r, C, g)) /\ IsFiniteSet(WellOf(r, C, g))
         /\ Cardinality(SuccessesOf(r, C, g)) \in Nat /\ Cardinality(WellOf(r, C, g)) \in Nat
         /\ ~(IsSuccess(t) /\ t.group = g) =>
               /\ SuccessesOf(r, D, g) = SuccessesOf(r, C, g)
               /\ WellOf(r, D, g) = WellOf(r, C, g)
         /\ IsSuccess(t) /\ t.group = g =>
               /\ Cardinality(SuccessesOf(r, D, g)) = Cardinality(SuccessesOf(r, C, g)) + 1
               /\ Cardinality(WellOf(r, D, g)) =
                     Cardinality(WellOf(r, C, g)) + IF Timing!WellAttributed(t) THEN 1 ELSE 0
<1>1. SuccessesOf(r, C, g) \in SUBSET C /\ WellOf(r, C, g) \in SUBSET C
  BY DEF SuccessesOf, WellOf
<1>2. /\ IsFiniteSet(SuccessesOf(r, C, g)) /\ IsFiniteSet(WellOf(r, C, g))
      /\ Cardinality(SuccessesOf(r, C, g)) \in Nat /\ Cardinality(WellOf(r, C, g)) \in Nat
  BY <1>1, PartOf
<1>3. ASSUME ~(IsSuccess(t) /\ t.group = g)
      PROVE  /\ SuccessesOf(r, D, g) = SuccessesOf(r, C, g)
             /\ WellOf(r, D, g) = WellOf(r, C, g)
  <2>1. SuccessesOf(r, D, g) = SuccessesOf(r, C, g)
    BY <1>3 DEF SuccessesOf
  <2> QED BY <2>1 DEF WellOf
<1>4. ASSUME IsSuccess(t), t.group = g
      PROVE  /\ Cardinality(SuccessesOf(r, D, g)) = Cardinality(SuccessesOf(r, C, g)) + 1
             /\ Cardinality(WellOf(r, D, g)) =
                   Cardinality(WellOf(r, C, g)) + IF Timing!WellAttributed(t) THEN 1 ELSE 0
  <2>1. SuccessesOf(r, D, g) = SuccessesOf(r, C, g) \cup {i} /\ i \notin SuccessesOf(r, C, g)
    BY <1>4 DEF SuccessesOf
  <2>2. /\ WellOf(r, D, g) = IF Timing!WellAttributed(t) THEN WellOf(r, C, g) \cup {i}
                             ELSE WellOf(r, C, g)
        /\ i \notin WellOf(r, C, g)
    BY <2>1 DEF WellOf
  <2>3. Cardinality(SuccessesOf(r, D, g)) = Cardinality(SuccessesOf(r, C, g)) + 1
    BY <1>2, <2>1, FS_AddElement
  <2>4. CASE Timing!WellAttributed(t)
    BY <1>2, <2>2, <2>3, <2>4, FS_AddElement, Zenon
  <2>5. CASE ~Timing!WellAttributed(t)
    BY <1>2, <2>2, <2>3, <2>5
  <2> QED BY <2>4, <2>5
<1> QED BY <1>2, <1>3, <1>4

LEMMA LineCounts ==
  ASSUME Timing!TimingAssumption, NEW r, NEW C, CountsAgree(r, C, sums, samples),
         NEW i, i \notin C, NEW out, out = Timing!AddLine(LineOf(r, i)), ~out.limit,
         Timing!Marks(LineOf(r, i)) # {}
  PROVE  CountsAgree(r, C \cup {i}, out.sums, out.samples)
<1>1. PICK line, t, D : line = LineOf(r, i) /\ t = Timing!Said(line) /\ D = C \cup {i}
  OBVIOUS
<1>2. SumsTyped(sums) /\ KeptTyped(samples)
  BY DEF CountsAgree
<1>3. PICK s : /\ SumsTyped(s) /\ s.parsed = sums.parsed + 1
               /\ s.valid = sums.valid /\ s.success = sums.success
               /\ s.error = sums.error /\ s.invalid = sums.invalid
               /\ s.ignored = sums.ignored /\ s.outcomeInvalid = sums.outcomeInvalid
               /\ s.coverageInvalid = sums.coverageInvalid
               /\ AddsUp(s, out.sums)
               /\ t \in Tokens
               /\ Keeps(s, out.sums, out.samples, t)
  BY <1>1, <1>2, LineAdds
<1>4. PICK u, k : u = out.sums /\ k = out.samples
  OBVIOUS
<1>5. SumsTyped(u) /\ KeptTyped(k)
  BY <1>3, <1>4 DEF AddsUp, Keeps
<1>6. IsFiniteSet(D) /\ u.parsed = Cardinality(D)
  <2>1. IsFiniteSet(C) /\ Cardinality(C) \in Nat /\ sums.parsed = Cardinality(C)
    BY PartOf DEF CountsAgree
  <2>2. IsFiniteSet(D) /\ Cardinality(D) = Cardinality(C) + 1
    BY <1>1, <2>1, FS_AddElement
  <2> QED BY <1>3, <1>4, <2>1, <2>2 DEF AddsUp
<1>7. /\ u.valid + u.invalid + u.ignored = u.parsed + u.outcomeInvalid
      /\ u.valid >= u.success + u.error
  <2>1. /\ u.valid \in Nat /\ u.invalid \in Nat /\ u.ignored \in Nat /\ u.parsed \in Nat
        /\ u.outcomeInvalid \in Nat /\ u.success \in Nat /\ u.error \in Nat
    BY <1>5 DEF SumsTyped
  <2>2. /\ sums.valid \in Nat /\ sums.invalid \in Nat /\ sums.ignored \in Nat
        /\ sums.parsed \in Nat /\ sums.outcomeInvalid \in Nat /\ sums.success \in Nat
        /\ sums.error \in Nat
    BY <1>2 DEF SumsTyped
  <2>3. /\ u.parsed = sums.parsed + 1
        /\ u.valid + u.invalid + u.ignored + sums.outcomeInvalid =
              sums.valid + sums.invalid + sums.ignored + u.outcomeInvalid + 1
        /\ u.valid + sums.success + sums.error >= sums.valid + u.success + u.error
    BY <1>3, <1>4 DEF AddsUp
  <2>4. /\ sums.valid + sums.invalid + sums.ignored = sums.parsed + sums.outcomeInvalid
        /\ sums.valid >= sums.success + sums.error
    BY DEF CountsAgree
  <2> QED BY <2>1, <2>2, <2>3, <2>4
<1>8. ASSUME u.invalid = 0, NEW g \in TimedGroups
      PROVE  /\ k.successful[g] = Cardinality(SuccessesOf(r, D, g))
             /\ u.coverageInvalid = 0 =>
                   /\ k.covered[g] = Cardinality(SuccessesOf(r, D, g))
                   /\ k.attributed[g] = Cardinality(WellOf(r, D, g))
  <2>1. sums.invalid = 0 /\ u.invalid = s.invalid
    BY <1>3, <1>4, <1>8 DEF AddsUp, SumsTyped
  <2>2. u.coverageInvalid = 0 => sums.coverageInvalid = 0 /\ u.coverageInvalid = s.coverageInvalid
    BY <1>3, <1>4, <1>5 DEF AddsUp, SumsTyped
  <2>3. /\ samples.successful[g] = Cardinality(SuccessesOf(r, C, g))
        /\ sums.coverageInvalid = 0 =>
              /\ samples.covered[g] = Cardinality(SuccessesOf(r, C, g))
              /\ samples.attributed[g] = Cardinality(WellOf(r, C, g))
    BY <2>1 DEF CountsAgree, KeptAgree
  <2>4. IF IsSuccess(t) THEN KeepsOne(s, u, k, t) ELSE KeepsNone(s, u, k)
    BY <1>3, <1>4, <2>1 DEF Keeps
  <2>5. IsFiniteSet(C)
    BY DEF CountsAgree
  <2>6. t = Timing!Said(LineOf(r, i))
    BY <1>1
  <2>7. CASE ~(IsSuccess(t) /\ t.group = g)
    <3>1. /\ SuccessesOf(r, D, g) = SuccessesOf(r, C, g)
          /\ WellOf(r, D, g) = WellOf(r, C, g)
      BY <1>1, <2>5, <2>6, <2>7, SuccessesOfMore
    <3>2. /\ k.successful[g] = samples.successful[g]
          /\ u.coverageInvalid = s.coverageInvalid =>
                k.covered[g] = samples.covered[g] /\ k.attributed[g] = samples.attributed[g]
      <4>1. CASE IsSuccess(t)
        BY <1>2, <2>4, <2>7, <4>1 DEF KeepsOne, KeptTyped
      <4>2. CASE ~IsSuccess(t)
        BY <2>4, <4>2 DEF KeepsNone
      <4> QED BY <4>1, <4>2
    <3> QED BY <2>2, <2>3, <3>1, <3>2
  <2>8. CASE IsSuccess(t) /\ t.group = g
    <3>1. /\ Cardinality(SuccessesOf(r, D, g)) = Cardinality(SuccessesOf(r, C, g)) + 1
          /\ Cardinality(WellOf(r, D, g)) =
                Cardinality(WellOf(r, C, g)) + IF Timing!WellAttributed(t) THEN 1 ELSE 0
      BY <1>1, <2>5, <2>6, <2>8, SuccessesOfMore
    <3>2. /\ k.successful[g] = samples.successful[g] + 1
          /\ u.coverageInvalid = s.coverageInvalid =>
                /\ k.covered[g] = samples.covered[g] + 1
                /\ k.attributed[g] =
                      samples.attributed[g] + IF Timing!WellAttributed(t) THEN 1 ELSE 0
      BY <1>2, <2>4, <2>8 DEF KeepsOne, KeptTyped
    <3> QED BY <2>2, <2>3, <3>1, <3>2
  <2> QED BY <2>7, <2>8
<1>9. CountsAgree(r, D, u, k)
  BY <1>5, <1>6, <1>7, <1>8 DEF CountsAgree, KeptAgree
<1> QED BY <1>1, <1>4, <1>9

-----------------------------------------------------------------------------
(* The timing: what was read and is not a line yet                         *)

Alphabet == Tokens \cup {CR, LF}

LastFeed(r, last) == last \in FeedsOf(r) /\ \A k \in FeedsOf(r) : k <= last

Rest(r, last) == SubSeq(r, last + 1, Len(r))

\* As operators of their own: the provers keep what a lemma says of them.
More(s, b) == Append(s, b)

SpokenBefore(r, last) == {i \in SpokenOf(r) : i < last}

ScanTyped ==
    scan = [line |-> scan.line, cr |-> scan.cr, lines |-> scan.lines, state |-> scan.state]

\* After the last line feed is what is kept, and a carriage return at its end is kept back.
ReadsOn(last) ==
    /\ LastFeed(read, last)
    /\ Timing!Pending = Rest(read, last)
    /\ scan.line = WithoutReturn(Timing!Pending)
    /\ CountsAgree(read, SpokenBefore(read, last), sums, samples)

TimingInv ==
    /\ read \in Seq(Alphabet)
    /\ ScanTyped
    /\ scan.state \in {"reading", "done", "limit", "error"}
    /\ scan.state = "reading" => \E last : ReadsOn(last)
    /\ scan.state = "done" => CountsAgree(read, SpokenOf(read), sums, samples)

\* The line after the last line feed is counted, if it says something.
LEMMA SpokenWithLast ==
  ASSUME NEW S, NEW r \in Seq(S), NEW last, LastFeed(r, last)
  PROVE  /\ last \notin SpokenBefore(r, last)
         /\ SpokenOf(r) = IF Timing!Marks(LineOf(r, last)) = {} THEN SpokenBefore(r, last)
                          ELSE SpokenBefore(r, last) \cup {last}
<1>1. FeedsOf(r) \in SUBSET (0..Len(r)) /\ last \in FeedsOf(r) /\ \A k \in FeedsOf(r) : k <= last
  BY FeedsAreNumbers DEF LastFeed
<1>2. last \notin SpokenBefore(r, last)
  BY <1>1 DEF SpokenBefore
<1>3. \A i \in SpokenOf(r) : i = last \/ i \in SpokenBefore(r, last)
  BY <1>1 DEF SpokenBefore, SpokenOf
<1>4. SpokenBefore(r, last) \subseteq SpokenOf(r)
  BY DEF SpokenBefore
<1>5. last \in SpokenOf(r) <=> Timing!Marks(LineOf(r, last)) # {}
  BY <1>1 DEF SpokenOf
<1>6. SpokenOf(r) = IF Timing!Marks(LineOf(r, last)) = {} THEN SpokenBefore(r, last)
                   ELSE SpokenBefore(r, last) \cup {last}
  <2>1. CASE Timing!Marks(LineOf(r, last)) = {}
    <3>1. SpokenOf(r) = SpokenBefore(r, last)
      BY <1>3, <1>4, <1>5, <2>1
    <3> QED BY <2>1, <3>1
  <2>2. CASE Timing!Marks(LineOf(r, last)) # {}
    <3>1. SpokenOf(r) = SpokenBefore(r, last) \cup {last}
      BY <1>3, <1>4, <1>5, <2>2
    <3> QED BY <2>2, <3>1
  <2> QED BY <2>1, <2>2
<1> QED BY <1>2, <1>6

\* A line feed ends the line at hand; the lines before are the same.
LEMMA SpokenWithFeed ==
  ASSUME NEW r \in Seq(Alphabet), NEW last, LastFeed(r, last), NEW s, s = More(r, LF)
  PROVE  /\ s \in Seq(Alphabet) /\ LastFeed(s, Len(s)) /\ Rest(s, Len(s)) = <<>>
         /\ LineOf(s, last) = WithoutReturn(Rest(r, last))
         /\ \A i \in SpokenBefore(r, last) : LineOf(s, i) = LineOf(r, i)
         /\ SpokenBefore(s, Len(s)) =
               IF Timing!Marks(LineOf(s, last)) = {} THEN SpokenBefore(r, last)
               ELSE SpokenBefore(r, last) \cup {last}
<1>1. /\ FeedsOf(r) \in SUBSET (0..Len(r)) /\ Len(r) \in Nat /\ last \in FeedsOf(r)
      /\ \A k \in FeedsOf(r) : k <= last
  BY FeedsAreNumbers DEF LastFeed
<1> USE DEF Rest, More
<1>2. LF \in Alphabet /\ s \in Seq(Alphabet) /\ Len(s) = Len(r) + 1
  <2>1. LF \in Alphabet
    BY DEF Alphabet
  <2> QED BY <2>1
<1>3. FeedsOf(s) = FeedsOf(r) \cup {Len(r) + 1}
  BY <1>2, FeedsOfMore
<1>4. LastFeed(s, Len(s)) /\ SubSeq(s, Len(s) + 1, Len(s)) = <<>>
  <2>1. LastFeed(s, Len(s))
    BY <1>1, <1>2, <1>3 DEF LastFeed
  <2>2. SubSeq(s, Len(s) + 1, Len(s)) = <<>>
    BY <1>1, <1>2
  <2> QED BY <2>1, <2>2
<1>5. LineOf(s, last) = WithoutReturn(SubSeq(r, last + 1, Len(r)))
  <2>0. PICK feed : feed = Len(r) + 1
    OBVIOUS
  <2>1. /\ last \in FeedsOf(s) /\ feed \in FeedsOf(s) /\ last < feed
        /\ \A k \in FeedsOf(s) : k <= last \/ k >= feed
    BY <1>1, <1>3, <2>0
  <2>2. LineOf(s, last) = WithoutReturn(SubSeq(s, last + 1, feed - 1))
    BY <1>2, <2>1, LineBetween
  <2>3. feed - 1 = Len(r) /\ last + 1 \in 1..(Len(r) + 1) /\ Len(r) \in 0..Len(r)
    BY <1>1, <2>0
  <2>4. SubSeq(s, last + 1, Len(r)) = SubSeq(r, last + 1, Len(r))
    BY <1>2, <2>3, PartsOfMore
  <2> QED BY <2>2, <2>3, <2>4
<1>6. \A i \in FeedsOf(r) : i < last => LineOf(s, i) = LineOf(r, i)
  BY <1>1, <1>2, LinesStay
<1>7. \A i : i \in SpokenBefore(s, Len(s)) <=>
         \/ i \in SpokenBefore(r, last)
         \/ i = last /\ Timing!Marks(LineOf(s, last)) # {}
  <2>1. ASSUME NEW i \in SpokenBefore(s, Len(s))
        PROVE  \/ i \in SpokenBefore(r, last)
               \/ i = last /\ Timing!Marks(LineOf(s, last)) # {}
    BY <1>1, <1>2, <1>3, <1>6 DEF SpokenBefore, SpokenOf
  <2>2. ASSUME NEW i \in SpokenBefore(r, last) PROVE i \in SpokenBefore(s, Len(s))
    BY <1>1, <1>2, <1>3, <1>6 DEF SpokenBefore, SpokenOf
  <2>3. ASSUME Timing!Marks(LineOf(s, last)) # {} PROVE last \in SpokenBefore(s, Len(s))
    BY <1>1, <1>2, <1>3, <2>3 DEF SpokenBefore, SpokenOf
  <2> QED BY <2>1, <2>2, <2>3
<1>8. \A i \in SpokenBefore(r, last) : LineOf(s, i) = LineOf(r, i)
  BY <1>6 DEF SpokenBefore, SpokenOf
<1>9. SpokenBefore(s, Len(s)) =
         IF Timing!Marks(LineOf(s, last)) = {} THEN SpokenBefore(r, last)
         ELSE SpokenBefore(r, last) \cup {last}
  BY <1>7
<1> QED BY <1>2, <1>4, <1>5, <1>8, <1>9

\* Any other byte goes on with it.
LEMMA SpokenWithByte ==
  ASSUME NEW r \in Seq(Alphabet), NEW last, LastFeed(r, last), NEW b \in Alphabet, b # LF,
         NEW s, s = More(r, b)
  PROVE  /\ s \in Seq(Alphabet) /\ LastFeed(s, last)
         /\ Rest(s, last) = More(Rest(r, last), b)
         /\ SpokenBefore(s, last) = SpokenBefore(r, last)
         /\ \A i \in SpokenBefore(r, last) : LineOf(s, i) = LineOf(r, i)
<1>1. /\ FeedsOf(r) \in SUBSET (0..Len(r)) /\ Len(r) \in Nat /\ last \in FeedsOf(r)
      /\ \A k \in FeedsOf(r) : k <= last
  BY FeedsAreNumbers DEF LastFeed
<1> USE DEF Rest, More
<1>2. s \in Seq(Alphabet)
  OBVIOUS
<1>3. FeedsOf(s) = FeedsOf(r)
  BY <1>2, FeedsOfMore
<1>4. LastFeed(s, last)
  BY <1>3 DEF LastFeed
<1>5. last + 1 \in 1..(Len(r) + 1)
  BY <1>1
<1>6. SubSeq(s, last + 1, Len(s)) = Append(SubSeq(r, last + 1, Len(r)), b)
  BY <1>5, PartsOfMore
<1>7. \A i \in FeedsOf(r) : i < last => LineOf(s, i) = LineOf(r, i)
  BY <1>1, LinesStay
<1>8. \A i \in SpokenBefore(r, last) : LineOf(s, i) = LineOf(r, i)
  BY <1>7 DEF SpokenBefore, SpokenOf
<1>9. SpokenBefore(s, last) = SpokenBefore(r, last)
  BY <1>3, <1>7 DEF SpokenBefore, SpokenOf
<1> QED BY <1>2, <1>4, <1>6, <1>8, <1>9

LEMMA PendingAfter ==
  /\ \A l, n, st : scan' = [line |-> l, cr |-> FALSE, lines |-> n, state |-> st] =>
        Timing!Pending' = l
  /\ \A l, n, st : scan' = [line |-> l, cr |-> TRUE, lines |-> n, state |-> st] =>
        Timing!Pending' = More(l, CR)
<1>1. ASSUME NEW l, NEW n, NEW st, scan' = [line |-> l, cr |-> FALSE, lines |-> n, state |-> st]
      PROVE  Timing!Pending' = l
  <2>1. ~scan'.cr /\ scan'.line = l
    BY <1>1, Zenon
  <2> QED BY <2>1 DEF Timing!Pending
<1>2. ASSUME NEW l, NEW n, NEW st, scan' = [line |-> l, cr |-> TRUE, lines |-> n, state |-> st]
      PROVE  Timing!Pending' = More(l, CR)
  <2>1. scan'.cr /\ scan'.line = l
    BY <1>2, Zenon
  <2> QED BY <2>1, Zenon DEF Timing!Pending, More
<1> QED BY <1>1, <1>2

LEMMA TimingInitial ==
  ASSUME Timing!TimingAssumption, Timing!Init
  PROVE  TimingInv
<1>1. /\ read = <<>>
      /\ scan = [line |-> <<>>, cr |-> FALSE, lines |-> 0, state |-> "reading"]
      /\ sums = [parsed |-> 0, valid |-> 0, success |-> 0, error |-> 0, invalid |-> 0,
                 ignored |-> 0, outcomeInvalid |-> 0, coverageInvalid |-> 0, stored |-> 0]
      /\ samples = [all |-> Timing!NoSamples, successful |-> Timing!NoSamples,
                    covered |-> Timing!NoSamples, attributed |-> Timing!NoSamples,
                    parts |-> [kind \in Timing!PartEvents |-> Timing!NoSamples]]
  BY DEF Timing!Init
<1>2. read \in Seq(Alphabet) /\ scan.state = "reading" /\ scan.line = <<>>
  BY <1>1
<1>3. ScanTyped
  BY <1>1, Zenon DEF ScanTyped
<1>4. Timing!Pending = <<>>
  <2>1. ~scan.cr
    BY <1>1, Zenon
  <2> QED BY <1>2, <2>1 DEF Timing!Pending
<1>5. LastFeed(read, 0) /\ Rest(read, 0) = <<>> /\ SpokenBefore(read, 0) = {}
  <2>1. FeedsOf(read) = {0}
    BY <1>1 DEF FeedsOf
  <2>2. LastFeed(read, 0)
    BY <2>1 DEF LastFeed
  <2>3. SpokenBefore(read, 0) = {}
    BY <2>1 DEF SpokenBefore, SpokenOf
  <2>4. Rest(read, 0) = <<>>
    BY <1>1 DEF Rest
  <2> QED BY <2>2, <2>3, <2>4
<1>6. scan.line = WithoutReturn(Timing!Pending)
  BY <1>2, <1>4 DEF WithoutReturn
<1>7. CountsAgree(read, {}, sums, samples)
  <2>1. /\ sums.parsed = 0 /\ sums.valid = 0 /\ sums.success = 0 /\ sums.error = 0
        /\ sums.invalid = 0 /\ sums.ignored = 0 /\ sums.outcomeInvalid = 0
        /\ sums.coverageInvalid = 0 /\ sums.stored = 0
    BY <1>1
  <2>2. SumsTyped(sums)
    BY <1>1, <2>1 DEF SumsTyped
  <2>3. /\ samples.successful = Timing!NoSamples /\ samples.covered = Timing!NoSamples
        /\ samples.attributed = Timing!NoSamples /\ samples.all = Timing!NoSamples
    BY <1>1
  <2>4. Timing!NoSamples = [g \in TimedGroups |-> 0]
    BY DEF TimedGroups, Timing!NoSamples
  <2>5. KeptTyped(samples)
    <3>1. Timing!NoSamples \in [TimedGroups -> Nat]
      BY <2>4
    <3> QED BY <1>1, <2>3, <3>1 DEF KeptTyped
  <2>6. IsFiniteSet({}) /\ Cardinality({}) = 0
    BY FS_EmptySet
  <2>7. \A g : SuccessesOf(read, {}, g) = {} /\ WellOf(read, {}, g) = {}
    BY DEF SuccessesOf, WellOf
  <2>8. KeptAgree(read, {}, sums, samples)
    BY <2>3, <2>4, <2>6, <2>7 DEF KeptAgree
  <2> QED BY <2>1, <2>2, <2>5, <2>6, <2>8 DEF CountsAgree
<1>8. ReadsOn(0)
  BY <1>4, <1>5, <1>6, <1>7 DEF ReadsOn
<1> QED BY <1>2, <1>3, <1>8 DEF TimingInv

\* Once it has stopped without a summary, nothing has to hold.
LEMMA Stopped ==
  ASSUME ScanTyped, read' \in Seq(Alphabet), NEW state \in {"limit", "error"}, Timing!Stop(state)
  PROVE  TimingInv'
<1>1. scan' = [scan EXCEPT !.state = state]
  BY DEF Timing!Stop
<1>2. scan' = [line |-> scan'.line, cr |-> scan'.cr, lines |-> scan'.lines,
               state |-> scan'.state] /\ scan'.state = state
  BY <1>1 DEF ScanTyped
<1> QED BY <1>2 DEF TimingInv, ScanTyped

\* What a line that is emitted makes of the counters of the lines before it.
LEMMA Emitted ==
  ASSUME Timing!TimingAssumption, NEW line, NEW state \in {"reading", "done"},
         Timing!Emit(line, state), NEW r, NEW C, NEW i, i \notin C, line = LineOf(r, i),
         CountsAgree(r, C, sums, samples)
  PROVE  /\ ScanTyped' /\ Timing!Pending' = <<>> /\ scan'.line = <<>>
         /\ scan'.state \in {state, "limit"}
         /\ scan'.state # "limit" =>
               CountsAgree(r, IF Timing!Marks(line) = {} THEN C ELSE C \cup {i}, sums', samples')
<1>1. PICK out : out = Timing!AddLine(line)
  OBVIOUS
<1>2. /\ scan' = [line |-> <<>>, cr |-> FALSE, lines |-> scan.lines + 1,
                  state |-> IF out.limit THEN "limit" ELSE state]
      /\ sums' = out.sums /\ samples' = out.samples
  BY <1>1, Zenon DEF Timing!Emit
<1>3. ScanTyped' /\ Timing!Pending' = <<>>
  <2>1. ScanTyped'
    BY <1>2, Zenon DEF ScanTyped
  <2> QED BY <1>2, <2>1, PendingAfter
<1>4. scan'.line = <<>> /\ scan'.state = IF out.limit THEN "limit" ELSE state
  BY <1>2, Zenon
<1>5. SumsTyped(sums) /\ KeptTyped(samples)
  BY DEF CountsAgree
<1>6. ASSUME scan'.state # "limit"
      PROVE  CountsAgree(r, IF Timing!Marks(line) = {} THEN C ELSE C \cup {i}, sums', samples')
  <2>1. ~out.limit
    BY <1>4, <1>6, Zenon
  <2>2. CASE Timing!Marks(line) = {}
    <3>1. out.sums = sums /\ out.samples = samples
      BY <1>1, <1>5, <2>1, <2>2, LineAdds
    <3> QED BY <1>2, <2>2, <3>1
  <2>3. CASE Timing!Marks(line) # {}
    <3>1. CountsAgree(r, C \cup {i}, out.sums, out.samples)
      BY <1>1, <2>1, <2>3, LineCounts
    <3> QED BY <1>2, <2>3, <3>1
  <2> QED BY <2>2, <2>3
<1>7. scan'.state \in {state, "limit"}
  <2>1. CASE out.limit
    BY <1>4, <2>1, Zenon
  <2>2. CASE ~out.limit
    BY <1>4, <2>2, Zenon
  <2> QED BY <2>1, <2>2
<1> QED BY <1>3, <1>4, <1>6, <1>7

LEMMA ReturnIsCut ==
  ASSUME NEW S, NEW s \in Seq(S), NEW b \in S
  PROVE  WithoutReturn(More(s, b)) = IF b = CR THEN s ELSE More(s, b)
<1> DEFINE t == Append(s, b)
<1>1. /\ t \in Seq(S) /\ Len(t) = Len(s) + 1 /\ t[Len(t)] = b /\ t # <<>> /\ Len(s) \in Nat
      /\ \A k \in 1..Len(s) : t[k] = s[k]
  OBVIOUS
<1>2. SubSeq(t, 1, Len(t) - 1) = s
  <2>1. SubSeq(t, 1, Len(s)) = s
    BY <1>1
  <2> QED BY <1>1, <2>1
<1> HIDE DEF t
<1>3. WithoutReturn(t) = IF b = CR THEN s ELSE t
  BY <1>1, <1>2 DEF WithoutReturn
<1> QED BY <1>3 DEF t, More

\* The scanner keeps what it has not counted yet.
LEMMA KeepsOnReading ==
  ASSUME Timing!TimingAssumption, TimingInv, scan.state = "reading", NEW b \in Alphabet, b # LF,
         read' = More(read, b), NEW l, NEW c \in BOOLEAN, Timing!Keep(l, c),
         IF b = CR THEN c /\ l = Timing!Pending ELSE ~c /\ l = More(Timing!Pending, b)
  PROVE  TimingInv'
<1>1. read \in Seq(Alphabet) /\ ScanTyped /\ read' \in Seq(Alphabet)
  BY DEF TimingInv, More
<1>2. CASE Len(l) > MaxLineBytes
  <2>1. Timing!Stop("limit")
    BY <1>2, Zenon DEF Timing!Keep
  <2> QED BY <1>1, <2>1, Stopped
<1>3. CASE ~(Len(l) > MaxLineBytes)
  <2>1. scan' = [scan EXCEPT !.line = l, !.cr = c] /\ UNCHANGED <<sums, samples>>
    BY <1>3, Zenon DEF Timing!Keep
  <2>2. scan' = [line |-> l, cr |-> c, lines |-> scan.lines, state |-> "reading"]
    BY <1>1, <2>1, Zenon DEF ScanTyped
  <2>3. ScanTyped' /\ scan'.state = "reading" /\ scan'.line = l
    BY <2>2, Zenon DEF ScanTyped
  <2>4. PICK last : ReadsOn(last)
    BY DEF TimingInv
  <2>5. /\ LastFeed(read, last) /\ Timing!Pending = Rest(read, last)
        /\ CountsAgree(read, SpokenBefore(read, last), sums, samples)
    BY <2>4 DEF ReadsOn
  <2>6. PICK q, r, p : q = read /\ r = More(q, b) /\ p = Timing!Pending
    OBVIOUS
  <2>7. /\ LastFeed(r, last) /\ Rest(r, last) = More(p, b)
        /\ SpokenBefore(r, last) = SpokenBefore(read, last)
        /\ \A i \in SpokenBefore(read, last) : LineOf(r, i) = LineOf(read, i)
    <3>1. q \in Seq(Alphabet) /\ LastFeed(q, last) /\ p = Rest(q, last)
      BY <1>1, <2>5, <2>6
    <3>2. /\ LastFeed(r, last)
          /\ Rest(r, last) = More(Rest(q, last), b)
          /\ SpokenBefore(r, last) = SpokenBefore(q, last)
          /\ \A i \in SpokenBefore(q, last) : LineOf(r, i) = LineOf(q, i)
      BY <2>6, <3>1, SpokenWithByte
    <3> QED BY <2>6, <3>1, <3>2
  <2>8. Timing!Pending' = More(p, b)
    <3>1. CASE b = CR
      <4>1. c = TRUE /\ l = p
        BY <2>6, <3>1
      <4> QED BY <2>2, <3>1, <4>1, PendingAfter
    <3>2. CASE b # CR
      <4>1. c = FALSE /\ l = More(p, b)
        BY <2>6, <3>2
      <4> QED BY <2>2, <4>1, PendingAfter
    <3> QED BY <3>1, <3>2
  <2>9. p \in Seq(Alphabet)
    <3>1. last \in 0..Len(read)
      BY <1>1, <2>5, FeedsAreNumbers DEF LastFeed
    <3>2. \A i \in (last + 1)..Len(read) : read[i] \in Alphabet
      BY <1>1, <3>1
    <3> QED BY <1>1, <2>5, <2>6, <3>1, <3>2 DEF Rest
  <2>10. scan'.line = WithoutReturn(More(p, b))
    BY <2>3, <2>6, <2>9, ReturnIsCut
  <2>11. CountsAgree(r, SpokenBefore(r, last), sums', samples')
    <3>1. CountsAgree(r, SpokenBefore(read, last), sums, samples)
      BY <2>5, <2>7, CountsStay
    <3> QED BY <2>1, <2>7, <3>1
  <2>12. ReadsOn(last)'
    BY <2>6, <2>7, <2>8, <2>10, <2>11 DEF ReadsOn
  <2> QED BY <1>1, <2>3, <2>12 DEF TimingInv
<1> QED BY <1>2, <1>3

LEMMA FeedEndsLine ==
  ASSUME Timing!TimingAssumption, TimingInv, scan.state = "reading",
         read' = More(read, LF), Timing!Emit(scan.line, "reading")
  PROVE  TimingInv'
<1>1. read \in Seq(Alphabet) /\ LF \in Alphabet /\ read' \in Seq(Alphabet)
  BY DEF TimingInv, Alphabet, More
<1>2. PICK last : ReadsOn(last)
  BY DEF TimingInv
<1>3. /\ LastFeed(read, last) /\ Timing!Pending = Rest(read, last)
      /\ scan.line = WithoutReturn(Timing!Pending)
      /\ CountsAgree(read, SpokenBefore(read, last), sums, samples)
  BY <1>2 DEF ReadsOn
<1>4. PICK q, r, line, C : q = read /\ r = More(q, LF) /\ line = scan.line
                           /\ C = SpokenBefore(q, last)
  OBVIOUS
<1>5. /\ LastFeed(r, Len(r)) /\ Rest(r, Len(r)) = <<>>
      /\ LineOf(r, last) = line
      /\ \A i \in C : LineOf(r, i) = LineOf(read, i)
      /\ SpokenBefore(r, Len(r)) =
            IF Timing!Marks(line) = {} THEN C ELSE C \cup {last}
  <2>1. q \in Seq(Alphabet) /\ LastFeed(q, last)
        /\ line = WithoutReturn(Rest(q, last))
    BY <1>1, <1>3, <1>4
  <2>2. /\ LastFeed(r, Len(r)) /\ Rest(r, Len(r)) = <<>>
        /\ LineOf(r, last) = WithoutReturn(Rest(q, last))
        /\ \A i \in SpokenBefore(q, last) : LineOf(r, i) = LineOf(q, i)
        /\ SpokenBefore(r, Len(r)) =
              IF Timing!Marks(LineOf(r, last)) = {} THEN SpokenBefore(q, last)
              ELSE SpokenBefore(q, last) \cup {last}
    BY <1>1, <1>4, <2>1, SpokenWithFeed
  <2> QED BY <1>4, <2>1, <2>2
<1>6. CountsAgree(r, C, sums, samples)
  BY <1>3, <1>4, <1>5, CountsStay
<1>7. last \notin C
  BY <1>1, <1>3, <1>4, SpokenWithLast
<1>8. /\ ScanTyped' /\ Timing!Pending' = <<>> /\ scan'.line = <<>>
      /\ scan'.state \in {"reading", "limit"}
      /\ scan'.state # "limit" =>
            CountsAgree(r, IF Timing!Marks(line) = {} THEN C ELSE C \cup {last}, sums', samples')
  BY <1>4, <1>5, <1>6, <1>7, Emitted
<1>9. ASSUME scan'.state = "reading" PROVE \E x : ReadsOn(x)'
  <2>1. CountsAgree(r, SpokenBefore(r, Len(r)), sums', samples')
    BY <1>5, <1>8, <1>9
  <2>2. scan'.line = WithoutReturn(<<>>)
    BY <1>8 DEF WithoutReturn
  <2>3. PICK n : n = Len(r)
    OBVIOUS
  <2>4. ReadsOn(n)'
    BY <1>4, <1>5, <1>8, <2>1, <2>2, <2>3 DEF ReadsOn
  <2> QED BY <2>4
<1> QED BY <1>1, <1>8, <1>9 DEF TimingInv

LEMMA InputEnds ==
  ASSUME Timing!TimingAssumption, TimingInv, Timing!EndOfInput
  PROVE  TimingInv'
<1>1. read \in Seq(Alphabet) /\ read' = read /\ scan.state = "reading" /\ ScanTyped
  BY DEF TimingInv, Timing!EndOfInput
<1>2. PICK last : ReadsOn(last)
  BY <1>1 DEF TimingInv
<1>3. PICK q, p, C : q = read /\ p = Timing!Pending /\ C = SpokenBefore(q, last)
  OBVIOUS
<1>4. /\ LastFeed(q, last) /\ p = Rest(q, last) /\ CountsAgree(q, C, sums, samples)
      /\ q \in Seq(Alphabet)
  BY <1>1, <1>2, <1>3 DEF ReadsOn
<1>5. LineOf(q, last) = p
  BY <1>4, LineAtEnd DEF LastFeed, Rest
<1>6. last \notin C /\ SpokenOf(q) = IF Timing!Marks(p) = {} THEN C ELSE C \cup {last}
  BY <1>3, <1>4, <1>5, SpokenWithLast
<1>7. CASE Timing!Stop("limit")
  BY <1>1, <1>7, Stopped
<1>8. CASE p = <<>> /\ Timing!Stop("done")
  <2>1. scan' = [scan EXCEPT !.state = "done"] /\ UNCHANGED <<sums, samples>>
    BY <1>8 DEF Timing!Stop
  <2>2. scan' = [line |-> scan'.line, cr |-> scan'.cr, lines |-> scan'.lines,
                 state |-> scan'.state] /\ scan'.state = "done"
    BY <1>1, <2>1 DEF ScanTyped
  <2>3. Timing!Marks(p) = {}
    BY <1>8 DEF Timing!Marks
  <2>4. CountsAgree(q, SpokenOf(q), sums', samples')
    BY <1>4, <1>6, <2>1, <2>3
  <2> QED BY <1>1, <1>3, <2>2, <2>4 DEF TimingInv, ScanTyped
<1>9. CASE Timing!Emit(p, "done")
  <2>1. /\ ScanTyped' /\ scan'.state \in {"done", "limit"}
        /\ scan'.state # "limit" =>
              CountsAgree(q, IF Timing!Marks(p) = {} THEN C ELSE C \cup {last}, sums', samples')
    BY <1>4, <1>5, <1>6, <1>9, Emitted
  <2>2. scan'.state = "done" => CountsAgree(q, SpokenOf(q), sums', samples')
    BY <1>6, <2>1
  <2> QED BY <1>1, <1>3, <2>1, <2>2 DEF TimingInv
<1> QED BY <1>3, <1>7, <1>8, <1>9, Zenon DEF Timing!EndOfInput, Timing!LastLine

LEMMA TimingKept ==
  ASSUME Timing!TimingAssumption, TimingInv, [Timing!Next]_(Timing!timingVars)
  PROVE  TimingInv'
<1>1. CR # LF /\ CR \notin Tokens /\ LF \notin Tokens /\ CR \in Alphabet /\ LF \in Alphabet
  BY DEF Timing!TimingAssumption, Alphabet
<1>2. ScanTyped /\ read \in Seq(Alphabet)
  BY DEF TimingInv
<1>3. ASSUME NEW b \in Alphabet, Timing!Byte(b) PROVE TimingInv'
  <2>1. scan.state = "reading" /\ read' = More(read, b) /\ read' \in Seq(Alphabet)
    BY <1>2, <1>3 DEF Timing!Byte, More
  <2>2. CASE Timing!Stop("limit")
    BY <1>2, <2>1, <2>2, Stopped
  <2>3. CASE b = LF /\ Timing!Emit(scan.line, "reading")
    BY <2>1, <2>3, FeedEndsLine
  <2>4. CASE b = CR /\ Timing!Keep(Timing!Pending, TRUE)
    BY <1>1, <2>1, <2>4, KeepsOnReading
  <2>5. CASE b # LF /\ b # CR /\ Timing!Keep(More(Timing!Pending, b), FALSE)
    BY <2>1, <2>5, KeepsOnReading
  <2> QED BY <1>3, <2>2, <2>3, <2>4, <2>5, Zenon DEF Timing!Byte, More
<1>4. CASE Timing!EndOfInput
  BY <1>4, InputEnds
<1>5. CASE Timing!SourceFails
  <2>1. read' \in Seq(Alphabet) /\ Timing!Stop("error")
    BY <1>2, <1>5 DEF Timing!SourceFails
  <2> QED BY <1>2, <2>1, Stopped
<1>6. CASE UNCHANGED Timing!timingVars
  <2>1. read' = read /\ scan' = scan /\ sums' = sums /\ samples' = samples
    BY <1>6 DEF Timing!timingVars
  <2> QED BY <2>1 DEF TimingInv, ScanTyped, ReadsOn, Timing!Pending
<1> QED BY <1>3, <1>4, <1>5, <1>6, Zenon DEF Timing!Next, Alphabet

LEMMA TimingInvariant == SiteSpec => [](part = "timing" => TimingInv)
<1>1. SiteInit => (part = "timing" => TimingInv)
  BY SitePartsAssumption, TimingInitial DEF SiteInit
<1>2. (part = "timing" => TimingInv) /\ [SiteNext]_siteVars => (part = "timing" => TimingInv)'
  BY SitePartsAssumption, PartAtWork, TimingKept
<1> QED BY <1>1, <1>2, PTL DEF SiteSpec

LEMMA TimingCounted ==
  ASSUME TimingInv
  PROVE  Timing!EveryLineIsCounted
<1>1. SUFFICES ASSUME scan.state = "done"
               PROVE  /\ sums.parsed = Timing!Cardinality(Timing!Spoken)
                      /\ sums.valid + sums.invalid + sums.ignored
                            = sums.parsed + sums.outcomeInvalid
                      /\ sums.valid >= sums.success + sums.error
  BY DEF Timing!EveryLineIsCounted
<1>2. CountsAgree(read, SpokenOf(read), sums, samples)
  BY <1>1 DEF TimingInv
<1>3. Timing!Spoken = SpokenOf(read)
  BY LinesOfRead DEF Timing!Spoken, SpokenOf
<1>4. Timing!Cardinality(SpokenOf(read)) = Cardinality(SpokenOf(read))
  BY SameCountOfTiming, Zenon
<1> QED BY <1>2, <1>3, <1>4 DEF CountsAgree

\* What the gate of a summary asks for holds of the log itself.
LEMMA GateAsks ==
  ASSUME Timing!GateIsSatisfied, KeptTyped(samples), NEW g \in TimedGroups
  PROVE  /\ sums.invalid = 0 /\ sums.coverageInvalid = 0
         /\ samples.successful[g] > 0 => samples.successful[g] >= MinSamples
         /\ samples.covered[g] > 0 => 100 * samples.attributed[g] >= 95 * samples.covered[g]
<1>1. DOMAIN samples.successful = TimedGroups /\ DOMAIN samples.covered = TimedGroups
  BY DEF KeptTyped
<1>2. /\ sums.invalid = 0 /\ sums.coverageInvalid = 0
      /\ \A x \in {x \in DOMAIN samples.successful : samples.successful[x] > 0} :
            samples.successful[x] >= MinSamples
      /\ \A x \in {x \in DOMAIN samples.covered : samples.covered[x] > 0} :
            100 * samples.attributed[x] >= 95 * samples.covered[x]
  BY Zenon DEF Timing!GateIsSatisfied
<1> QED BY <1>1, <1>2

LEMMA TimingEarned ==
  ASSUME Timing!TimingAssumption, TimingInv
  PROVE  Timing!GateIsEarned
<1> DEFINE busy(i) == LET t == Timing!Said(Timing!LineAfter(i))
                      IN  100 * Timing!Busy(t) >= 95 * t.duration
<1>1. SUFFICES ASSUME Timing!GateIsSatisfied,
                      NEW g \in DOMAIN Timing!NoSamples, Timing!Succeeded(g) # {}
               PROVE  /\ Timing!Cardinality(Timing!Succeeded(g)) >= MinSamples
                      /\ 100 * Timing!Cardinality({i \in Timing!Succeeded(g) : busy(i)})
                            >= 95 * Timing!Cardinality(Timing!Succeeded(g))
  BY Zenon DEF Timing!GateIsEarned
<1>2. scan.state = "done"
  BY <1>1, Zenon DEF Timing!GateIsSatisfied
<1>3. CountsAgree(read, SpokenOf(read), sums, samples)
  BY <1>2 DEF TimingInv
<1>4. g \in TimedGroups
  BY <1>1 DEF Timing!NoSamples, TimedGroups
<1> DEFINE S == SuccessesOf(read, SpokenOf(read), g)
           W == WellOf(read, SpokenOf(read), g)
           B == {i \in Timing!Succeeded(g) : busy(i)}
<1>5. Timing!Succeeded(g) = S
  <2>1. Timing!Spoken = SpokenOf(read)
    BY LinesOfRead DEF Timing!Spoken, SpokenOf
  <2>2. \A i : i \in Timing!Succeeded(g) <=> i \in S
    BY <2>1, LinesOfRead DEF Timing!Succeeded, SuccessesOf, IsSuccess
  <2> QED BY <2>2
<1>6. W \in SUBSET B
  <2>1. ASSUME NEW i \in W PROVE i \in B
    <3>1. PICK t : t = Timing!Said(LineOf(read, i))
      OBVIOUS
    <3>2. i \in S /\ Timing!WellAttributed(t) /\ i \in SpokenOf(read)
      BY <2>1, <3>1 DEF WellOf, SuccessesOf
    <3>3. t \in Tokens
      <4>1. PICK line : line = LineOf(read, i)
        OBVIOUS
      <4>2. Timing!Marks(line) # {} /\ t = Timing!Said(line)
        BY <3>1, <3>2, <4>1 DEF SpokenOf
      <4> QED BY <4>2 DEF Timing!Said, Timing!Marks
    <3>4. /\ Timing!Attributed(t) \in Nat /\ Timing!Busy(t) \in Nat /\ t.duration \in Nat
          /\ Timing!Attributed(t) <= Timing!Busy(t)
      BY <3>3, AttributedIsBusy
    <3>5. 100 * Timing!Attributed(t) >= 95 * t.duration
      BY <3>2 DEF Timing!WellAttributed
    <3>6. 100 * Timing!Busy(t) >= 95 * t.duration
      BY <3>4, <3>5
    <3>7. busy(i)
      BY <3>1, <3>6, LinesOfRead, Zenon
    <3> HIDE DEF busy
    <3> QED BY <1>5, <3>2, <3>7
  <2> QED BY <2>1
<1>7. IsFiniteSet(S) /\ Cardinality(S) \in Nat /\ B \in SUBSET S /\ S # {}
  <2>1. IsFiniteSet(SpokenOf(read)) /\ S \in SUBSET SpokenOf(read)
    BY <1>3 DEF CountsAgree, SuccessesOf
  <2> HIDE DEF busy
  <2> QED BY <1>1, <1>5, <2>1, PartOf
<1> HIDE DEF S, W, B, busy
<1>8. /\ Cardinality(W) \in Nat /\ Cardinality(B) \in Nat /\ Cardinality(W) <= Cardinality(B)
      /\ Cardinality(S) > 0
  <2>1. IsFiniteSet(B)
    BY <1>7, FS_Subset
  <2>2. Cardinality(W) <= Cardinality(B) /\ IsFiniteSet(W)
    BY <1>6, <2>1, FS_Subset
  <2> QED BY <1>7, <2>1, <2>2, FS_CardinalityType, FS_EmptySet
<1>9. /\ sums.invalid = 0 /\ sums.coverageInvalid = 0
      /\ samples.successful[g] > 0 => samples.successful[g] >= MinSamples
      /\ samples.covered[g] > 0 => 100 * samples.attributed[g] >= 95 * samples.covered[g]
  BY <1>1, <1>3, <1>4, GateAsks DEF CountsAgree
<1>10. /\ samples.successful[g] = Cardinality(S) /\ samples.covered[g] = Cardinality(S)
       /\ samples.attributed[g] = Cardinality(W)
  BY <1>3, <1>4, <1>9 DEF CountsAgree, KeptAgree, S, W
<1>11. Cardinality(S) >= MinSamples /\ 100 * Cardinality(W) >= 95 * Cardinality(S)
  BY <1>8, <1>9, <1>10
<1>12. 100 * Cardinality(B) >= 95 * Cardinality(S)
  BY <1>7, <1>8, <1>11
<1>13. Timing!Cardinality(S) = Cardinality(S) /\ Timing!Cardinality(B) = Cardinality(B)
  BY SameCountOfTiming, Zenon
<1> QED BY <1>5, <1>11, <1>12, <1>13 DEF B

\* What is said of the performance was measured: a monitored run that ends well has
\* its evidence (monitor-navigation-performance.ts), every line of the timing log is
\* accounted for (summarize-server-timing.ts) and the gate is satisfied by time spent
\* in phases, whatever the log and however long (server-timing.ts).
THEOREM MeasurementsEarned == SiteSpec => []MeasurementsAreEarned
<1>1. (part = "monitor" => MonitorInv) /\ (part = "timing" => TimingInv)
        => MeasurementsAreEarned
  BY SitePartsAssumption, MonitorEvidenced, TimingCounted, TimingEarned
     DEF MeasurementsAreEarned
<1> QED BY <1>1, MonitorInvariant, TimingInvariant, PTL

=============================================================================
