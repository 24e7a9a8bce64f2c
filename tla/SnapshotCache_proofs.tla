------------------------ MODULE SnapshotCache_proofs ------------------------
(***************************************************************************)
(* Proofs about the analytics epoch and the snapshots computed under it,   *)
(* for any matches, values, requests and number of transactions.           *)
(***************************************************************************)
EXTENDS SnapshotCache, TLAPS

-----------------------------------------------------------------------------
(* The database                                                            *)

\* The writers keep the types of the tables.
LEMMA WriteKeepsTypes ==
    ASSUME DatabaseTypeOK, Write
    PROVE  DatabaseTypeOK'
<1> USE RowsAssumption
<1>1. ASSUME NEW a, Commit(a)
      PROVE  epoch' \in Nat \ {0} /\ commits' \in 0 .. MaxCommits /\ version' \in [Parts -> 0 .. commits']
  <2>1. commits' \in 0 .. MaxCommits /\ epoch' \in Nat \ {0}
    BY <1>1 DEF Commit, DatabaseTypeOK
  <2>2. ASSUME NEW p \in Parts
        PROVE  (IF views'[p] # views[p] THEN commits + 1 ELSE version[p]) \in 0 .. commits'
    BY <1>1 DEF Commit, DatabaseTypeOK
  <2> QED BY <2>1, <2>2, <1>1 DEF Commit
<1>2. CASE \E m \in Matches : \E new \in MatchRow \cup {NoRow} : WriteMatch(m, new)
  <2>1. PICK m \in Matches, new \in MatchRow \cup {NoRow} : WriteMatch(m, new)
    BY <1>2
  <2>2. match' \in [Matches -> MatchRow \cup {NoRow}]
    BY <2>1 DEF WriteMatch, DatabaseTypeOK
  <2>3. coverage' \in [Matches \cup {Edition} -> Coverage \cup {NoRow}]
    BY <2>1 DEF WriteMatch, DatabaseTypeOK
  <2>4. slotted' \subseteq Existing'
    BY <2>1 DEF WriteMatch, DatabaseTypeOK, Existing
  <2> QED BY <1>1, <2>1, <2>2, <2>3, <2>4 DEF WriteMatch, DatabaseTypeOK
<1>3. CASE \E m \in Matches : \E new \in Values \cup {NoRow} : WriteStats(m, new)
  <2>1. PICK m \in Matches, new \in Values \cup {NoRow} : WriteStats(m, new)
    BY <1>3
  <2> QED BY <1>1, <2>1 DEF WriteStats, DatabaseTypeOK, Existing
<1>4. CASE \E m \in Matches : WriteSlots(m)
  <2>1. PICK m \in Matches : WriteSlots(m)
    BY <1>4
  <2> QED BY <1>1, <2>1 DEF WriteSlots, DatabaseTypeOK, Existing
<1>5. CASE \E owner \in Matches \cup {Edition}, new \in Coverage \cup {NoRow} : WriteCoverage(owner, new)
  <2>1. PICK owner \in Matches \cup {Edition}, new \in Coverage \cup {NoRow} : WriteCoverage(owner, new)
    BY <1>5
  <2> QED BY <1>1, <2>1 DEF WriteCoverage, DatabaseTypeOK, Existing
<1>6. CASE WriteImport
  BY <1>1, <1>6 DEF WriteImport, DatabaseTypeOK, Existing
<1>7. CASE WriteStructure
  <2>1. structure' \in Structure
    <3>1. structure \in Structure
      BY DEF DatabaseTypeOK
    <3>2. ASSUME NEW f \in {"published", "entered", "stageOpen"}, structure' = [structure EXCEPT ![f] = ~@]
          PROVE  structure' \in Structure
      <4>1. CASE f = "published"
        BY <3>1, <3>2, <4>1 DEF Structure
      <4>2. CASE f = "entered"
        BY <3>1, <3>2, <4>2 DEF Structure
      <4>3. CASE f = "stageOpen"
        BY <3>1, <3>2, <4>3 DEF Structure
      <4> QED BY <4>1, <4>2, <4>3
    <3>3. ASSUME NEW f \in {"label", "people"}, NEW v \in Values, structure' = [structure EXCEPT ![f] = v]
          PROVE  structure' \in Structure
      <4>1. CASE f = "label"
        BY <3>1, <3>3, <4>1 DEF Structure
      <4>2. CASE f = "people"
        BY <3>1, <3>3, <4>2 DEF Structure
      <4> QED BY <4>1, <4>2
    <3> QED BY <1>7, <3>2, <3>3 DEF WriteStructure
  <2> QED BY <1>1, <1>7, <2>1 DEF WriteStructure, DatabaseTypeOK, Existing
<1> QED BY <1>2, <1>3, <1>4, <1>5, <1>6, <1>7 DEF Write

\* Without an official match every view of the edition is empty.
LEMMA NothingToShow ==
    ASSUME EligibleMatches = {}
    PROVE  views = [editions |-> {}, facts |-> {}, people |-> {}, matches |-> {}, teams |-> {}]
BY DEF views, Facts, Listed, Visible

\* A change that no official match, structure or gate sees shows in no view.
LEMMA UnseenChange ==
    ASSUME structure' = structure,
           EligibleMatches' = EligibleMatches,
           \A m \in EligibleMatches : /\ match'[m] = match[m]
                                      /\ stats'[m] = stats[m]
                                      /\ CoverageOf(m)' = CoverageOf(m),
           Gated => FixtureComplete' = FixtureComplete
    PROVE  views' = views
<1>1. Visible' = Visible
  BY DEF Visible
<1>2. Public' = Public
  BY DEF Public
<1>3. WithBoxScore' = WithBoxScore
  BY <1>2 DEF WithBoxScore, Public
<1>4. Facts' = Facts
  <2>1. {<<m, match[m].staged, stats[m]>> : m \in WithBoxScore}'
          = {<<m, match[m].staged, stats[m]>> : m \in WithBoxScore}
    BY <1>3 DEF WithBoxScore, Public
  <2> QED BY <1>1, <2>1 DEF Facts, Listed
<1>5. {<<m, match[m].score>> : m \in Public}' = {<<m, match[m].score>> : m \in Public}
  BY <1>2 DEF Public
<1> QED BY <1>1, <1>4, <1>5 DEF views, Listed

\* The conditions of the triggers cover what the views read.
LEMMA QuietWritesAreUnseen ==
    ASSUME DatabaseTypeOK, Write, epoch' = epoch
    PROVE  views' = views
<1> USE RowsAssumption
<1>1. ASSUME NEW a \in BOOLEAN, Commit(a)
      PROVE  ~a
  BY <1>1 DEF Commit, DatabaseTypeOK
<1>2. ASSUME NEW m \in Matches, NEW new \in MatchRow \cup {NoRow}, WriteMatch(m, new)
      PROVE  views' = views
  <2>1. ~MatchTrigger(match[m], new)
    BY <1>1, <1>2 DEF WriteMatch, MatchTrigger, Eligible, DatabaseTypeOK, MatchRow
  <2>2. /\ m \notin EligibleMatches
        /\ EligibleMatches' = EligibleMatches
    BY <1>2, <2>1 DEF WriteMatch, MatchTrigger, EligibleMatches, DatabaseTypeOK
  <2>3. \A n \in Matches \ {m} : /\ match'[n] = match[n]
                                 /\ stats'[n] = stats[n]
                                 /\ CoverageOf(n)' = CoverageOf(n)
    BY <1>2 DEF WriteMatch, CoverageOf, DatabaseTypeOK
  <2>4. Gated => FixtureComplete' = FixtureComplete
    <3> SUFFICES ASSUME Gated PROVE FixtureComplete' = FixtureComplete
      OBVIOUS
    <3>1. match[m] # NoRow /\ new # NoRow /\ match[m].staged = new.staged
      BY <2>1 DEF MatchTrigger
    <3>2. Existing' = Existing /\ Staged' = Staged /\ slotted' = slotted
      BY <1>2, <3>1 DEF WriteMatch, Existing, Staged, DatabaseTypeOK
    <3> QED BY <1>2, <3>2 DEF FixtureComplete, WriteMatch
  <2>5. EligibleMatches \subseteq Matches \ {m}
    BY <2>2 DEF EligibleMatches
  <2> QED BY <1>2, <2>2, <2>3, <2>4, <2>5, UnseenChange DEF WriteMatch
<1>3. ASSUME NEW m \in Matches, NEW new, WriteStats(m, new)
      PROVE  views' = views
  <2>1. m \notin EligibleMatches
    BY <1>1, <1>3 DEF WriteStats, StatsTrigger, EligibleMatches, Eligible, DatabaseTypeOK, MatchRow
  <2>2. EligibleMatches' = EligibleMatches /\ EligibleMatches \subseteq Matches
    BY <1>3 DEF WriteStats, EligibleMatches
  <2>3. \A n \in EligibleMatches : match'[n] = match[n] /\ stats'[n] = stats[n]
    BY <1>3, <2>1, <2>2 DEF WriteStats, DatabaseTypeOK
  <2>4. \A n \in EligibleMatches : CoverageOf(n)' = CoverageOf(n)
    BY <1>3 DEF WriteStats, CoverageOf
  <2>5. FixtureComplete' = FixtureComplete
    BY <1>3 DEF WriteStats, FixtureComplete, Existing, Staged
  <2> QED BY <1>3, <2>2, <2>3, <2>4, <2>5, UnseenChange DEF WriteStats
<1>4. ASSUME NEW owner \in Matches \cup {Edition}, NEW new, WriteCoverage(owner, new)
      PROVE  views' = views
  <2>1. \A n \in EligibleMatches : owner # n /\ owner # Edition
    BY <1>1, <1>4 DEF WriteCoverage, CoverageTrigger
  <2>2. EligibleMatches' = EligibleMatches /\ EligibleMatches \subseteq Matches
    BY <1>4 DEF WriteCoverage, EligibleMatches
  <2>3. \A n \in EligibleMatches : match'[n] = match[n] /\ stats'[n] = stats[n]
    BY <1>4 DEF WriteCoverage
  <2>4. \A n \in EligibleMatches : CoverageOf(n)' = CoverageOf(n)
    BY <1>4, <2>1, <2>2 DEF WriteCoverage, CoverageOf, DatabaseTypeOK
  <2>5. FixtureComplete' = FixtureComplete
    BY <1>4 DEF WriteCoverage, FixtureComplete, Existing, Staged
  <2> QED BY <1>4, <2>2, <2>3, <2>4, <2>5, UnseenChange DEF WriteCoverage
<1>5. CASE WriteImport
  <2>1. EligibleMatches = {}
    BY <1>1, <1>5 DEF WriteImport, ImportTrigger
  <2>2. EligibleMatches' = {}
    BY <1>5, <2>1 DEF WriteImport, EligibleMatches
  <2>3. views = [editions |-> {}, facts |-> {}, people |-> {}, matches |-> {}, teams |-> {}]
    BY <2>1, NothingToShow
  <2>4. views' = [editions |-> {}, facts |-> {}, people |-> {}, matches |-> {}, teams |-> {}]
    BY <2>2 DEF views, Facts, Listed, Visible
  <2> QED BY <2>3, <2>4
<1>6. ASSUME NEW m \in Matches, WriteSlots(m) PROVE FALSE
  BY <1>1, <1>6 DEF WriteSlots
<1>7. CASE WriteStructure
  BY <1>1, <1>7 DEF WriteStructure
<1> QED BY <1>2, <1>3, <1>4, <1>5, <1>6, <1>7 DEF Write

\* What a transaction does to the epoch and to the commits that readers see.
LEMMA TransactionAdvances ==
    ASSUME DatabaseTypeOK, Write
    PROVE  /\ epoch' >= epoch
           /\ epoch' = epoch => version' = version
           /\ \A p \in Parts : version'[p] >= version[p]
<1>1. PICK a \in BOOLEAN : Commit(a)
  <2>1. ASSUME NEW m \in Matches, NEW new, WriteMatch(m, new)
        PROVE  \E a \in BOOLEAN : Commit(a)
    <3>1. MatchTrigger(match[m], new) \in BOOLEAN
      BY DEF MatchTrigger
    <3> QED BY <2>1, <3>1 DEF WriteMatch
  <2>2. ASSUME NEW m \in Matches, NEW new, WriteStats(m, new)
        PROVE  \E a \in BOOLEAN : Commit(a)
    <3>1. StatsTrigger(m) \in BOOLEAN
      BY DEF StatsTrigger, Eligible
    <3> QED BY <2>2, <3>1 DEF WriteStats
  <2>3. ASSUME NEW owner, NEW new, WriteCoverage(owner, new)
        PROVE  \E a \in BOOLEAN : Commit(a)
    <3>1. CoverageTrigger(owner) \in BOOLEAN
      BY DEF CoverageTrigger
    <3> QED BY <2>3, <3>1 DEF WriteCoverage
  <2>4. WriteImport => \E a \in BOOLEAN : Commit(a)
    BY DEF WriteImport, ImportTrigger
  <2>5. WriteStructure \/ (\E m \in Matches : WriteSlots(m)) => \E a \in BOOLEAN : Commit(a)
    BY DEF WriteStructure, WriteSlots
  <2> QED BY <2>1, <2>2, <2>3, <2>4, <2>5 DEF Write
<1>2. epoch' >= epoch
  BY <1>1 DEF Commit, DatabaseTypeOK
<1>3. ASSUME epoch' = epoch PROVE version' = version
  <2>1. views' = views
    BY <1>3, QuietWritesAreUnseen
  <2> QED BY <1>1, <2>1 DEF Commit, DatabaseTypeOK
<1>4. \A p \in Parts : version'[p] >= version[p]
  BY <1>1 DEF Commit, DatabaseTypeOK
<1> QED BY <1>2, <1>3, <1>4

-----------------------------------------------------------------------------
(* Types                                                                   *)

\* The database starts in its types.
LEMMA DatabaseInitTypes ==
    ASSUME DatabaseInit
    PROVE  DatabaseTypeOK
<1> USE RowsAssumption
<1> PICK v \in Values, played \in Starts :
        /\ match = [m \in Matches |-> [official |-> m \in played, score |-> v, staged |-> TRUE]]
        /\ slotted = Matches
        /\ stats = [m \in Matches |-> IF m \in played THEN v ELSE NoRow]
        /\ coverage = [owner \in Matches \cup {Edition} |->
                         IF owner = Edition THEN "AVAILABLE" ELSE NoRow]
        /\ imported = TRUE
        /\ structure = [published |-> TRUE, entered |-> TRUE, stageOpen |-> TRUE,
                        label |-> v, people |-> v]
        /\ epoch = 1
        /\ commits = 0
        /\ version = [p \in Parts |-> 0]
  BY DEF DatabaseInit
<1>1. match \in [Matches -> MatchRow]
  BY DEF MatchRow
<1>2. slotted \subseteq Existing
  BY <1>1 DEF Existing
<1>3. /\ stats \in [Matches -> Values \cup {NoRow}]
      /\ coverage \in [Matches \cup {Edition} -> Coverage \cup {NoRow}]
  BY DEF Coverage
<1>4. structure \in Structure
  BY DEF Structure
<1> QED BY <1>1, <1>2, <1>3, <1>4 DEF DatabaseTypeOK

\* What a query is answered with, and what a request or a flight holds, is known.
LEMMA KnownParts ==
    ASSUME DatabaseTypeOK
    PROVE  /\ Unread \in Known
           /\ \A p \in Parts : version[p] \in Known /\ version[p] # Unread
           /\ version \in [Parts -> Known]
           /\ Nothing \in [Parts -> Known]
           /\ "editions" \in Parts
           /\ Idle \in RequestSet /\ Failed \in RequestSet
           /\ epoch \in Nat
BY RowsAssumption DEF DatabaseTypeOK, Known, Unread, Nothing, Parts, Idle, Failed, RequestSet

\* Joining a flight keeps the types of the requests and the flights.
LEMMA JoinKeepsTypes ==
    ASSUME TypeOK, NEW r \in Requests,
           NEW pc \in {"editions", "waiting"}, NEW key \in KeySet, Join(r, pc, key)
    PROVE  TypeOK'
<1>1. request' \in [Requests -> RequestSet]
  BY DEF Join, TypeOK, RequestSet
<1>2. [key |-> key, pc |-> "lookup", got |-> request[r].got]
        \in [key : KeySet, pc : {"lookup", "load"}, got : [Parts -> Known]]
  BY DEF TypeOK, RequestSet
<1>3. flights' \subseteq [key : KeySet, pc : {"lookup", "load"}, got : [Parts -> Known]]
  BY <1>2 DEF Join, TypeOK
<1>4. DatabaseTypeOK'
  BY DEF Join, database, tables, TypeOK, DatabaseTypeOK, Existing
<1> QED BY <1>1, <1>3, <1>4 DEF Join, TypeOK

\* So does computing the answer without the cache.
LEMMA BypassKeepsTypes ==
    ASSUME TypeOK, NEW r \in Requests, NEW got \in [Parts -> Known], Bypass(r, got)
    PROVE  TypeOK'
<1>1. [[request[r] EXCEPT !.pc = "direct"] EXCEPT !.got = got] \in RequestSet
  BY DEF TypeOK, RequestSet
<1>3. request' \in [Requests -> RequestSet]
  BY <1>1 DEF Bypass, TypeOK
<1>2. DatabaseTypeOK'
  BY DEF Bypass, database, tables, TypeOK, DatabaseTypeOK, Existing
<1> QED BY <1>2, <1>3 DEF Bypass, TypeOK

\* Handing a value to the requests that wait keeps their types.
LEMMA SettleKeepsTypes ==
    ASSUME TypeOK, NEW f \in flights, NEW got \in [Parts -> Known], Settle(f, got),
           cache' \subseteq [key : KeySet, got : [Parts -> Known]]
    PROVE  TypeOK'
<1>1. request' \in [Requests -> RequestSet]
  <2>1. ASSUME NEW r \in Requests
        PROVE  request'[r] \in RequestSet
    <3>1. request[r] \in RequestSet /\ got["editions"] \in Known
      BY DEF TypeOK, Parts
    <3> QED BY <2>1, <3>1 DEF Settle, RequestSet
  <2> QED BY <2>1 DEF Settle
<1>2. DatabaseTypeOK'
  BY DEF Settle, database, tables, TypeOK, DatabaseTypeOK, Existing
<1> QED BY <1>1, <1>2 DEF Settle, TypeOK

\* Every step keeps the types.
LEMMA StepKeepsTypes ==
    ASSUME TypeOK, [Next]_vars
    PROVE  TypeOK'
<1> USE KnownParts, KindsAssumption DEF TypeOK
<1> DEFINE FlightSet == [key : KeySet, pc : {"lookup", "load"}, got : [Parts -> Known]]
<1>1. ASSUME UNCHANGED database PROVE DatabaseTypeOK'
  BY <1>1 DEF database, tables, DatabaseTypeOK, Existing
<1>2. CASE UNCHANGED vars
  BY <1>1, <1>2 DEF vars
<1>3. CASE Transaction
  BY <1>3, WriteKeepsTypes DEF Transaction
<1>4. ASSUME NEW r \in Requests, Ask(r) PROVE TypeOK'
  <2>1. PICK kind \in Kinds, listed \in BOOLEAN :
           request' = [request EXCEPT ![r] =
                [pc    |-> "asked",
                 kind  |-> kind,
                 epoch |-> 0,
                 got   |-> IF listed THEN [Nothing EXCEPT !["editions"] = version["editions"]]
                                     ELSE Nothing,
                 began |-> version]]
    BY <1>4 DEF Ask
  <2>2. [Nothing EXCEPT !["editions"] = version["editions"]] \in [Parts -> Known]
    OBVIOUS
  <2>3. request' \in [Requests -> RequestSet]
    BY <2>1, <2>2 DEF RequestSet
  <2> QED BY <1>1, <1>4, <2>3 DEF Ask
<1>5. ASSUME NEW r \in Requests, ReadEpoch(r) PROVE TypeOK'
  <2>1. CASE Bypass(r, request[r].got)
    BY <2>1, BypassKeepsTypes DEF RequestSet
  <2>2. CASE /\ request' = [request EXCEPT ![r].pc = "stamped", ![r].epoch = epoch]
             /\ UNCHANGED <<database, flights, cache>>
    BY <1>1, <2>2 DEF RequestSet
  <2> QED BY <1>5, <2>1, <2>2 DEF ReadEpoch
<1>6. ASSUME NEW r \in Requests PROVE /\ Key("editions", request[r].epoch, Unread) \in KeySet
                                      /\ Key(request[r].kind, request[r].epoch, request[r].got["editions"]) \in KeySet
                                      /\ request[r].got \in [Parts -> Known]
  BY DEF Key, KeySet, RequestSet
<1>7. ASSUME NEW r \in Requests, FormKey(r) PROVE TypeOK'
  BY <1>6, <1>7, BypassKeepsTypes, JoinKeepsTypes DEF FormKey
<1>8. ASSUME NEW r \in Requests, Continue(r) PROVE TypeOK'
  BY <1>6, <1>8, BypassKeepsTypes, JoinKeepsTypes DEF Continue
<1>9. ASSUME NEW r \in Requests, DirectRead(r) PROVE TypeOK'
  <2>1. PICK p \in Needed(request[r].kind) :
           request' = [request EXCEPT ![r].got = [request[r].got EXCEPT ![p] = version[p]],
                         ![r].pc = IF Complete(request[r].kind, [request[r].got EXCEPT ![p] = version[p]])
                                   THEN "answered" ELSE "direct"]
    BY <1>9 DEF DirectRead, Askable
  <2>2. p \in Parts
    BY <2>1 DEF Needed, Parts, RequestSet
  <2>3. [request[r].got EXCEPT ![p] = version[p]] \in [Parts -> Known]
    BY <1>6, <2>2
  <2>4. ASSUME NEW got \in [Parts -> Known], NEW pc \in {"answered", "direct"}
        PROVE  [[request[r] EXCEPT !.got = got] EXCEPT !.pc = pc] \in RequestSet
    BY <2>4 DEF RequestSet
  <2>5. request' \in [Requests -> RequestSet]
    BY <2>1, <2>3, <2>4
  <2> QED BY <1>1, <1>9, <2>5 DEF DirectRead
<1>10. ASSUME NEW r \in Requests, DirectFailure(r) PROVE TypeOK'
  BY <1>1, <1>10 DEF DirectFailure
<1>11. ASSUME NEW f \in flights, Hit(f) PROVE TypeOK'
  <2>1. PICK entry \in cache : Settle(f, entry.got)
    BY <1>11 DEF Hit
  <2> QED BY <1>11, <2>1, SettleKeepsTypes DEF Hit
<1>12. ASSUME NEW f \in flights, Miss(f) PROVE TypeOK'
  <2>1. [f EXCEPT !.pc = "load"] \in FlightSet
    OBVIOUS
  <2> QED BY <1>1, <1>12, <2>1 DEF Miss
<1>13. ASSUME NEW f \in flights, Load(f) PROVE TypeOK'
  <2>1. PICK p \in Needed(f.key.kind) : flights' = (flights \ {f}) \cup {[f EXCEPT !.got[p] = version[p]]}
    BY <1>13 DEF Load, Askable
  <2>2. p \in Parts
    BY <2>1 DEF Needed, Parts, KeySet
  <2>3. [f EXCEPT !.got[p] = version[p]] \in FlightSet
    BY <2>2
  <2> QED BY <1>1, <1>13, <2>1, <2>3 DEF Load
<1>14. ASSUME NEW f \in flights, Land(f) PROVE TypeOK'
  <2>1. [key |-> f.key, got |-> f.got] \in [key : KeySet, got : [Parts -> Known]]
    OBVIOUS
  <2>2. cache' \subseteq [key : KeySet, got : [Parts -> Known]]
    BY <1>14, <2>1 DEF Land
  <2> QED BY <1>14, <2>2, SettleKeepsTypes DEF Land
<1>15. ASSUME NEW f \in flights, Crash(f) PROVE TypeOK'
  BY <1>1, <1>15 DEF Crash
<1>16. CASE Expire
  BY <1>1, <1>16 DEF Expire
<1> QED BY <1>2, <1>3, <1>4, <1>5, <1>7, <1>8, <1>9, <1>10, <1>11, <1>12, <1>13, <1>14, <1>15, <1>16 DEF Next

\* The tables, the requests and the stores keep their types.
THEOREM TypeCorrect == Spec => []TypeOK
<1>1. Init => TypeOK
  BY DatabaseInitTypes, KnownParts DEF Init, TypeOK
<1>2. TypeOK /\ [Next]_vars => TypeOK'
  BY StepKeepsTypes
<1> QED BY <1>1, <1>2, PTL DEF Spec

\* The triggers miss nothing: whatever a transaction changes in a view, it
\* advances the epoch with it, and no other step changes a view.
THEOREM ViewsFollow == Spec => ViewsFollowEpoch
<1>1. TypeOK /\ [Next]_vars => [epoch' = epoch => views' = views]_vars
  <2> SUFFICES ASSUME TypeOK, Next, epoch' = epoch
               PROVE  views' = views
    OBVIOUS
  <2>1. CASE Transaction
    BY <2>1, QuietWritesAreUnseen DEF Transaction, TypeOK
  <2>2. CASE UNCHANGED database
    BY <2>2 DEF database, tables, views, Facts, Listed, Visible, FixtureComplete, Existing, Staged,
                EligibleMatches, Public, WithBoxScore, CoverageOf
  <2>3. Transaction \/ UNCHANGED database
    BY DEF Next, Ask, ReadEpoch, Bypass, FormKey, Continue, Join, DirectRead, DirectFailure,
           Hit, Miss, Load, Land, Crash, Settle, Expire
  <2> QED BY <2>1, <2>2, <2>3
<1> QED BY <1>1, TypeCorrect, PTL DEF Spec, ViewsFollowEpoch

-----------------------------------------------------------------------------
(* Currency: the inductive invariant                                       *)

\* The parts that the computation of an answer reads itself; a record is
\* computed from the editions in its key.
OwnParts(kind) == Needed(kind) \ (IF kind = "record" THEN {"editions"} ELSE {})

\* A request that has an epoch and looks for the answer in flights and cache.
Sharing(q) == q.pc \in {"stamped", "editions", "keyed", "waiting"}

\* What a request has read since it began is not older than its beginning.
RequestInv(q) ==
    /\ Sharing(q) \/ q.pc \in {"asked", "direct"} =>
          \A p \in Parts : /\ q.began[p] <= version[p]
                           /\ q.got[p] = Unread \/ q.got[p] >= q.began[p]
    /\ Sharing(q) \/ q.pc = "asked" =>
          /\ \A p \in Parts \ {"editions"} : q.got[p] = Unread
          /\ q.kind # "record" => q.got["editions"] = Unread
    /\ Sharing(q) => q.epoch <= epoch
    /\ q.pc = "editions" => q.kind = "record" /\ q.got["editions"] = Unread
    /\ q.pc \in {"keyed", "waiting"} /\ q.kind = "record" => q.got["editions"] # Unread

\* Under the current epoch, what a flight or an entry has read is still shown.
StoredInv(x) ==
    /\ x.key.epoch <= epoch
    /\ x.key.epoch = epoch =>
          \A p \in OwnParts(x.key.kind) : x.got[p] \in {Unread, version[p]}
    /\ x.key.kind = "record" => x.got["editions"] = x.key.editions /\ x.got["editions"] # Unread

\* What is stored under the epoch of a request is as new as the request.
PairInv(q, x) ==
    Sharing(q) /\ x.key.epoch = q.epoch =>
        \A p \in OwnParts(x.key.kind) : x.got[p] = Unread \/ x.got[p] >= q.began[p]

CurrencyInv ==
    /\ TypeOK
    /\ AnswersAreCurrent
    /\ \A r \in Requests : RequestInv(request[r])
    /\ \A x \in flights \cup cache : StoredInv(x)
    /\ \A r \in Requests, x \in flights \cup cache : PairInv(request[r], x)
    /\ \A entry \in cache : Complete(entry.key.kind, entry.got)

\* A request that moves on alone keeps the invariant if its new state does.
LEMMA RequestMoves ==
    ASSUME CurrencyInv, TypeOK', UNCHANGED <<database, flights, cache>>,
           NEW r \in Requests, NEW q, request' = [request EXCEPT ![r] = q],
           RequestInv(q), \A x \in flights \cup cache : PairInv(q, x),
           q.pc = "answered" => \A p \in Needed(q.kind) : q.got[p] >= q.began[p]
    PROVE  CurrencyInv'
<1>1. \A s \in Requests : request'[s] = IF s = r THEN q ELSE request[s]
  BY DEF CurrencyInv, TypeOK
<1>2. AnswersAreCurrent'
  BY <1>1 DEF CurrencyInv, AnswersAreCurrent
<1>3. version' = version /\ epoch' = epoch /\ flights' = flights /\ cache' = cache
  BY DEF database
<1>4. \A s \in Requests : RequestInv(request[s])'
  BY <1>1, <1>3 DEF CurrencyInv, RequestInv, Sharing
<1>5. \A x \in flights' \cup cache' : StoredInv(x)'
  BY <1>3 DEF CurrencyInv, StoredInv
<1>6. \A s \in Requests, x \in flights' \cup cache' : PairInv(request[s], x)'
  BY <1>1, <1>3 DEF CurrencyInv, PairInv, Sharing
<1> QED BY <1>2, <1>3, <1>4, <1>5, <1>6 DEF CurrencyInv

\* Joining a flight: a new one has read nothing but the editions of its key.
LEMMA JoinKeepsCurrency ==
    ASSUME CurrencyInv, TypeOK', NEW r \in Requests, Sharing(request[r]),
           NEW pc \in {"editions", "waiting"}, NEW key \in KeySet, Join(r, pc, key),
           key.epoch = request[r].epoch,
           pc = "editions" => /\ request[r].kind = "record"
                              /\ request[r].got["editions"] = Unread
                              /\ key.kind = "editions",
           pc = "waiting" => /\ key.kind = request[r].kind
                             /\ key.editions = request[r].got["editions"]
                             /\ key.kind = "record" => key.editions # Unread
    PROVE  CurrencyInv'
<1> DEFINE new == [key |-> key, pc |-> "lookup", got |-> request[r].got]
<1>1. \A s \in Requests : request'[s] = IF s = r THEN [request[r] EXCEPT !.pc = pc] ELSE request[s]
  BY DEF Join, CurrencyInv, TypeOK
<1>2. version' = version /\ epoch' = epoch /\ cache' = cache
  BY DEF Join, database
<1>3. \A x \in flights' : x \in flights \/ x = new
  BY DEF Join
<1>4. request[r] \in RequestSet /\ RequestInv(request[r])
  BY DEF CurrencyInv, TypeOK
<1>5. \A p \in OwnParts(key.kind) : new.got[p] = Unread
  BY <1>4 DEF OwnParts, Needed, RequestInv, Parts, KeySet, Sharing, RequestSet
<1>6. AnswersAreCurrent'
  BY <1>1, <1>4 DEF CurrencyInv, AnswersAreCurrent, RequestSet
<1>7. \A s \in Requests : RequestInv(request[s])'
  <2>1. RequestInv(request'[r])
    BY <1>1, <1>4 DEF RequestInv, Sharing, RequestSet, KeySet
  <2> QED BY <1>1, <1>2, <2>1 DEF CurrencyInv, RequestInv, Sharing
<1>8. StoredInv(new)
  BY <1>4, <1>5 DEF StoredInv, RequestInv, KeySet
<1>9. \A x \in flights' \cup cache' : StoredInv(x)'
  <2>1. \A x \in flights' \cup cache' : StoredInv(x)
    BY <1>2, <1>3, <1>8 DEF CurrencyInv
  <2> QED BY <1>2, <2>1 DEF StoredInv
<1>10. \A s \in Requests, x \in flights' \cup cache' : PairInv(request[s], x)'
  <2>1. ASSUME NEW s \in Requests, NEW x \in flights' \cup cache'
        PROVE  PairInv(request'[s], x)
    <3>1. CASE x = new
      BY <1>5, <3>1 DEF PairInv
    <3>2. CASE x # new
      <4>1. x \in flights \cup cache
        BY <1>2, <1>3, <3>2
      <4>2. PairInv(request[s], x)
        BY <4>1 DEF CurrencyInv
      <4>3. /\ request'[s].epoch = request[s].epoch
            /\ request'[s].began = request[s].began
            /\ Sharing(request'[s]) => Sharing(request[s])
        BY <1>1, <1>4 DEF RequestSet, Sharing
      <4> QED BY <4>2, <4>3 DEF PairInv
    <3> QED BY <3>1, <3>2
  <2> QED BY <2>1 DEF PairInv, Sharing
<1> QED BY <1>2, <1>6, <1>7, <1>9, <1>10 DEF CurrencyInv

\* Computing for itself: what was listed before is kept or read again.
LEMMA BypassKeepsCurrency ==
    ASSUME CurrencyInv, TypeOK', NEW r \in Requests,
           Sharing(request[r]) \/ request[r].pc = "asked",
           NEW got \in {request[r].got, Nothing}, Bypass(r, got)
    PROVE  CurrencyInv'
<1> DEFINE q == [[request[r] EXCEPT !.pc = "direct"] EXCEPT !.got = got]
<1>1. request[r] \in RequestSet /\ RequestInv(request[r]) /\ request \in [Requests -> RequestSet]
  BY DEF CurrencyInv, TypeOK
<1>2. request' = [request EXCEPT ![r] = q]
  BY DEF Bypass
<1>3. q.pc = "direct" /\ q.got = got /\ q.began = request[r].began /\ q.kind = request[r].kind
  BY <1>1 DEF RequestSet
<1>4. \A p \in Parts : got[p] = Unread \/ got[p] = request[r].got[p]
  BY DEF Nothing
<1>5. RequestInv(q)
  BY <1>1, <1>3, <1>4 DEF RequestInv, Sharing
<1>6. \A x \in flights \cup cache : PairInv(q, x)
  BY <1>3 DEF PairInv, Sharing
<1> HIDE DEF q
<1> QED BY <1>2, <1>3, <1>5, <1>6, RequestMoves DEF Bypass

\* A stored value that satisfies the invariant answers those that wait for it.
LEMMA SettleKeepsCurrency ==
    ASSUME CurrencyInv, TypeOK', NEW f \in flights, NEW x \in flights \cup cache,
           x.key = f.key, Complete(x.key.kind, x.got), Settle(f, x.got),
           \A y \in cache' : y \in cache \/ (y.key = x.key /\ y.got = x.got)
    PROVE  CurrencyInv'
<1>1. version' = version /\ epoch' = epoch /\ flights' = flights \ {f}
  BY DEF Settle, database
<1>2. /\ f.key \in KeySet /\ x.got \in [Parts -> Known]
      /\ StoredInv(x)
  BY DEF CurrencyInv, TypeOK
<1>3. ASSUME NEW r \in Requests
      PROVE  /\ RequestInv(request'[r])
             /\ Sharing(request'[r]) => /\ Sharing(request[r])
                                        /\ request'[r].epoch = request[r].epoch
                                        /\ request'[r].began = request[r].began
             /\ request'[r].pc = "answered" =>
                    \A p \in Needed(request'[r].kind) : request'[r].got[p] >= request'[r].began[p]
  <2> DEFINE q == request[r]
  <2>1. q \in RequestSet /\ RequestInv(q) /\ PairInv(q, x)
    BY DEF CurrencyInv, TypeOK
  <2>2. q.pc = "answered" => \A p \in Needed(q.kind) : q.got[p] >= q.began[p]
    BY DEF CurrencyInv, AnswersAreCurrent
  <2>3. CASE ~WaitsFor(q, f)
    BY <2>1, <2>2, <2>3 DEF Settle
  <2>4. CASE WaitsFor(q, f) /\ q.pc = "editions"
    <3>1. f.key.kind = "editions" /\ f.key.epoch = q.epoch
      BY <2>4 DEF WaitsFor, Key
    <3>2. x.got["editions"] # Unread /\ x.got["editions"] >= q.began["editions"]
      BY <2>1, <2>4, <3>1 DEF Complete, Needed, PairInv, OwnParts, Sharing
    <3>3. request'[r] = [q EXCEPT !.pc = "keyed", !.got["editions"] = x.got["editions"]]
      BY <2>4 DEF Settle
    <3>4. /\ request'[r].pc = "keyed" /\ request'[r].kind = q.kind
          /\ request'[r].epoch = q.epoch /\ request'[r].began = q.began
          /\ request'[r].got = [q.got EXCEPT !["editions"] = x.got["editions"]]
      BY <2>1, <3>3 DEF RequestSet
    <3>5. /\ request'[r].got["editions"] = x.got["editions"]
          /\ \A p \in Parts \ {"editions"} : request'[r].got[p] = q.got[p]
      BY <2>1, <3>4 DEF RequestSet, Parts
    <3> QED BY <2>1, <2>4, <3>2, <3>4, <3>5 DEF RequestInv, Sharing
  <2>5. CASE WaitsFor(q, f) /\ q.pc = "waiting"
    <3>1. f.key.kind = q.kind /\ f.key.epoch = q.epoch /\ f.key.editions = q.got["editions"]
      BY <2>5 DEF WaitsFor, Key
    <3>2. request'[r] = [q EXCEPT !.pc = "answered", !.got = x.got]
      BY <2>5 DEF Settle
    <3>3. /\ request'[r].pc = "answered" /\ request'[r].kind = q.kind
          /\ request'[r].began = q.began /\ request'[r].got = x.got
      BY <2>1, <3>2 DEF RequestSet
    <3>4. \A p \in OwnParts(q.kind) : x.got[p] >= q.began[p]
      BY <2>1, <2>5, <3>1 DEF PairInv, Sharing, Complete, OwnParts
    <3>5. q.kind = "record" => x.got["editions"] >= q.began["editions"]
      BY <1>2, <2>1, <2>5, <3>1 DEF StoredInv, RequestInv, Sharing, Parts
    <3>6. \A p \in Needed(q.kind) : x.got[p] >= q.began[p]
      BY <3>4, <3>5 DEF OwnParts
    <3> QED BY <3>3, <3>6 DEF RequestInv, Sharing
  <2> QED BY <2>3, <2>4, <2>5 DEF WaitsFor
<1>4. \A y \in flights' \cup cache' :
          \E z \in flights \cup cache : y.key = z.key /\ y.got = z.got
  BY <1>1
<1>5. \A y \in flights' \cup cache' : StoredInv(y)'
  BY <1>1, <1>4 DEF CurrencyInv, StoredInv
<1>6. \A r \in Requests, y \in flights' \cup cache' : PairInv(request[r], y)'
  BY <1>1, <1>3, <1>4 DEF CurrencyInv, PairInv, Sharing
<1>7. \A entry \in cache' : Complete(entry.key.kind, entry.got)
  BY DEF CurrencyInv
<1>8. \A r \in Requests : RequestInv(request[r])'
  BY <1>1, <1>3 DEF RequestInv, Sharing
<1> QED BY <1>3, <1>5, <1>6, <1>7, <1>8 DEF CurrencyInv, AnswersAreCurrent

\* A transaction: what it changes in a view, it also tells by the epoch.
LEMMA TransactionKeepsCurrency ==
    ASSUME CurrencyInv, TypeOK', Transaction
    PROVE  CurrencyInv'
<1>1. /\ epoch' >= epoch
      /\ epoch' = epoch => version' = version
      /\ \A p \in Parts : version'[p] >= version[p]
      /\ request' = request /\ flights' = flights /\ cache' = cache
      /\ epoch \in Nat /\ epoch' \in Nat
  BY TransactionAdvances DEF Transaction, CurrencyInv, TypeOK, DatabaseTypeOK
<1>2. \A p \in Parts : version[p] \in Int /\ version'[p] \in Int
  BY DEF CurrencyInv, TypeOK, DatabaseTypeOK
<1>3. \A r \in Requests : RequestInv(request[r])'
  <2>1. ASSUME NEW r \in Requests PROVE RequestInv(request[r])'
    <3>1. /\ request[r] \in RequestSet /\ RequestInv(request[r])
          /\ \A p \in Parts : request[r].began[p] \in Int
      BY DEF CurrencyInv, TypeOK, RequestSet, Known
    <3> QED BY <1>1, <1>2, <3>1 DEF RequestInv, Sharing, RequestSet
  <2> QED BY <2>1
<1>4. \A x \in flights' \cup cache' : StoredInv(x)'
  <2>1. ASSUME NEW x \in flights \cup cache PROVE StoredInv(x)'
    <3>1. StoredInv(x) /\ x.key.epoch \in Nat
      BY DEF CurrencyInv, TypeOK, KeySet
    <3> QED BY <1>1, <3>1 DEF StoredInv
  <2> QED BY <1>1, <2>1
<1>5. \A r \in Requests, x \in flights' \cup cache' : PairInv(request[r], x)'
  BY <1>1 DEF CurrencyInv, PairInv, Sharing
<1> QED BY <1>1, <1>3, <1>4, <1>5 DEF CurrencyInv, AnswersAreCurrent

\* The steps of a request.
LEMMA RequestKeepsCurrency ==
    ASSUME CurrencyInv, TypeOK', NEW r \in Requests,
           Ask(r) \/ ReadEpoch(r) \/ FormKey(r) \/ Continue(r) \/ DirectRead(r) \/ DirectFailure(r)
    PROVE  CurrencyInv'
<1> DEFINE q == request[r]
<1>1. q \in RequestSet /\ RequestInv(q) /\ request \in [Requests -> RequestSet]
  BY DEF CurrencyInv, TypeOK
<1>2. \A p \in Parts : version[p] \in Nat
  BY DEF CurrencyInv, TypeOK, DatabaseTypeOK
<1>3. CASE Ask(r)
  <2>1. PICK kind \in Kinds, listed \in BOOLEAN :
           /\ listed => kind = "record"
           /\ request' = [request EXCEPT ![r] =
                [pc    |-> "asked",
                 kind  |-> kind,
                 epoch |-> 0,
                 got   |-> IF listed THEN [Nothing EXCEPT !["editions"] = version["editions"]]
                                     ELSE Nothing,
                 began |-> version]]
    BY <1>3 DEF Ask
  <2> DEFINE got == IF listed THEN [Nothing EXCEPT !["editions"] = version["editions"]] ELSE Nothing
             new == [pc |-> "asked", kind |-> kind, epoch |-> 0, got |-> got, began |-> version]
  <2>2. \A p \in Parts : /\ got[p] = Unread \/ got[p] = version[p]
                         /\ p # "editions" \/ ~listed => got[p] = Unread
    BY DEF Nothing, Parts
  <2>3. RequestInv(new)
    BY <1>2, <2>1, <2>2 DEF RequestInv, Sharing, Parts
  <2>4. \A x \in flights \cup cache : PairInv(new, x)
    BY DEF PairInv, Sharing
  <2>5. request' = [request EXCEPT ![r] = new] /\ new.pc # "answered"
    BY <2>1
  <2> HIDE DEF new
  <2> QED BY <1>3, <2>3, <2>4, <2>5, RequestMoves DEF Ask
<1>4. CASE ReadEpoch(r)
  <2>1. CASE Bypass(r, q.got)
    BY <1>4, <2>1, BypassKeepsCurrency DEF ReadEpoch
  <2>2. CASE /\ request' = [request EXCEPT ![r].pc = "stamped", ![r].epoch = epoch]
             /\ UNCHANGED <<database, flights, cache>>
    <3> DEFINE new == [[q EXCEPT !.pc = "stamped"] EXCEPT !.epoch = epoch]
    <3>1. /\ new.pc = "stamped" /\ new.kind = q.kind /\ new.epoch = epoch
          /\ new.got = q.got /\ new.began = q.began
      BY <1>1 DEF RequestSet
    <3>2. RequestInv(new)
      BY <1>1, <1>4, <3>1, KnownParts DEF ReadEpoch, RequestInv, Sharing, CurrencyInv, TypeOK
    <3>3. ASSUME NEW x \in flights \cup cache PROVE PairInv(new, x)
      <4>1. StoredInv(x) /\ x.key.kind \in {"ranking", "power", "record", "editions"}
        BY DEF CurrencyInv, TypeOK, KeySet
      <4>2. \A p \in OwnParts(x.key.kind) : p \in Parts
        BY <4>1 DEF OwnParts, Needed, Parts
      <4> QED BY <1>1, <1>2, <1>4, <3>1, <4>1, <4>2
              DEF ReadEpoch, PairInv, StoredInv, RequestInv, Sharing, RequestSet, Known
    <3>4. request' = [request EXCEPT ![r] = new]
      BY <2>2
    <3> HIDE DEF new
    <3> QED BY <2>2, <3>1, <3>2, <3>3, <3>4, RequestMoves
  <2> QED BY <1>4, <2>1, <2>2 DEF ReadEpoch
<1>5. /\ Key("editions", q.epoch, Unread) \in KeySet
      /\ Key(q.kind, q.epoch, q.got["editions"]) \in KeySet
  BY <1>1, KnownParts DEF Key, KeySet, RequestSet, CurrencyInv, TypeOK
<1>6. ASSUME NEW key, key = Key("editions", q.epoch, Unread), Join(r, "editions", key),
             q.pc = "stamped", q.kind = "record", q.got["editions"] = Unread
      PROVE  CurrencyInv'
  BY <1>5, <1>6, JoinKeepsCurrency DEF Key, Sharing
<1>7. ASSUME NEW key, key = Key(q.kind, q.epoch, q.got["editions"]), Join(r, "waiting", key),
             Sharing(q), q.kind = "record" => q.got["editions"] # Unread
      PROVE  CurrencyInv'
  BY <1>5, <1>7, JoinKeepsCurrency DEF Key
<1>8. CASE FormKey(r)
  BY <1>6, <1>7, <1>8, BypassKeepsCurrency DEF FormKey, Sharing
<1>9. CASE Continue(r)
  BY <1>1, <1>7, <1>9, BypassKeepsCurrency DEF Continue, Sharing, RequestInv
<1>10. CASE DirectRead(r)
  <2>1. PICK p \in Askable(q.kind, q.got) :
           request' = [request EXCEPT ![r].got = [q.got EXCEPT ![p] = version[p]],
                         ![r].pc = IF Complete(q.kind, [q.got EXCEPT ![p] = version[p]])
                                   THEN "answered" ELSE "direct"]
    BY <1>10 DEF DirectRead
  <2>2. p \in Parts /\ Needed(q.kind) \subseteq Parts
    BY <1>1, <2>1 DEF Askable, Needed, Parts, RequestSet
  <2> DEFINE got == [q.got EXCEPT ![p] = version[p]]
             pc == IF Complete(q.kind, got) THEN "answered" ELSE "direct"
             new == [[q EXCEPT !.got = got] EXCEPT !.pc = pc]
  <2>3. new.pc = pc /\ new.kind = q.kind /\ new.got = got /\ new.began = q.began
    BY <1>1 DEF RequestSet
  <2>4. \A o \in Parts : /\ q.began[o] <= version[o]
                         /\ got[o] = Unread \/ got[o] >= q.began[o]
    BY <1>1, <1>2, <1>10, <2>2 DEF DirectRead, RequestInv, Sharing, RequestSet, Known
  <2>5. RequestInv(new)
    BY <2>3, <2>4 DEF RequestInv, Sharing
  <2>6. \A x \in flights \cup cache : PairInv(new, x)
    BY <2>3 DEF PairInv, Sharing
  <2>7. new.pc = "answered" => \A o \in Needed(new.kind) : new.got[o] >= new.began[o]
    BY <2>2, <2>3, <2>4 DEF Complete
  <2>8. request' = [request EXCEPT ![r] = new]
    BY <2>1
  <2> HIDE DEF new
  <2> QED BY <1>10, <2>5, <2>6, <2>7, <2>8, RequestMoves DEF DirectRead
<1>11. CASE DirectFailure(r)
  <2>1. Failed.pc = "failed"
    BY DEF Failed, Idle
  <2>2. RequestInv(Failed) /\ \A x \in flights \cup cache : PairInv(Failed, x)
    BY <2>1 DEF RequestInv, PairInv, Sharing
  <2> QED BY <1>11, <2>1, <2>2, RequestMoves DEF DirectFailure
<1> QED BY <1>3, <1>4, <1>8, <1>9, <1>10, <1>11

\* A flight that reads a view keeps the invariant of what is stored.
LEMMA LoadKeepsCurrency ==
    ASSUME CurrencyInv, TypeOK', NEW f \in flights, Load(f)
    PROVE  CurrencyInv'
<1>1. PICK p \in Askable(f.key.kind, f.got) :
         flights' = (flights \ {f}) \cup {[f EXCEPT !.got[p] = version[p]]}
  BY DEF Load
<1> DEFINE new == [f EXCEPT !.got[p] = version[p]]
<1>2. /\ f.key \in KeySet /\ f.got \in [Parts -> Known] /\ StoredInv(f)
      /\ \A o \in Parts : version[o] \in Nat
  BY DEF CurrencyInv, TypeOK, DatabaseTypeOK
<1>3. p \in Parts
  BY <1>2 DEF Askable, Needed, Parts, KeySet
<1>4. new.key = f.key /\ \A o \in Parts : new.got[o] = IF o = p THEN version[p] ELSE f.got[o]
  BY <1>2, <1>3 DEF CurrencyInv, TypeOK
<1>5. f.key.kind = "record" => p # "editions"
  BY <1>2 DEF Askable, StoredInv
<1>6. OwnParts(f.key.kind) \subseteq Parts /\ "editions" \in Parts
  BY <1>2 DEF OwnParts, Needed, Parts, KeySet
<1>7. version' = version /\ epoch' = epoch /\ request' = request /\ cache' = cache
  BY DEF Load, database
<1>8. StoredInv(new)
  BY <1>2, <1>4, <1>5, <1>6 DEF StoredInv
<1>9. ASSUME NEW r \in Requests PROVE PairInv(request[r], new)
  <2>1. PairInv(request[r], f) /\ RequestInv(request[r])
    BY DEF CurrencyInv
  <2> QED BY <1>4, <1>6, <2>1 DEF PairInv, RequestInv
<1> HIDE DEF new
<1>10. \A x \in flights' \cup cache' : x \in flights \cup cache \/ x = new
  BY <1>1, <1>7 DEF new
<1>11. \A x \in flights' \cup cache' : StoredInv(x)'
  BY <1>7, <1>8, <1>10 DEF CurrencyInv, StoredInv
<1>12. \A r \in Requests, x \in flights' \cup cache' : PairInv(request[r], x)'
  BY <1>7, <1>9, <1>10 DEF CurrencyInv, PairInv, Sharing
<1>13. \A r \in Requests : RequestInv(request[r])'
  BY <1>7 DEF CurrencyInv, RequestInv, Sharing
<1> QED BY <1>7, <1>11, <1>12, <1>13 DEF CurrencyInv, AnswersAreCurrent

\* The steps that add nothing that was not stored before, and answer nobody.
LEMMA QuietStepKeepsCurrency ==
    ASSUME CurrencyInv, TypeOK', UNCHANGED database,
           \A r \in Requests : request'[r] \in {request[r], Failed},
           \A y \in flights' : \E x \in flights : y.key = x.key /\ y.got = x.got,
           cache' \subseteq cache
    PROVE  CurrencyInv'
<1>1. version' = version /\ epoch' = epoch
  BY DEF database
<1>2. Failed.pc = "failed"
  BY DEF Failed, Idle
<1>3. \A y \in flights' \cup cache' : \E x \in flights \cup cache : y.key = x.key /\ y.got = x.got
  OBVIOUS
<1>4. \A y \in flights' \cup cache' : StoredInv(y)'
  BY <1>1, <1>3 DEF CurrencyInv, StoredInv
<1>5. \A r \in Requests, y \in flights' \cup cache' : PairInv(request[r], y)'
  BY <1>1, <1>2, <1>3 DEF CurrencyInv, PairInv, Sharing
<1>6. \A r \in Requests : RequestInv(request[r])'
  BY <1>1, <1>2 DEF CurrencyInv, RequestInv, Sharing
<1>7. AnswersAreCurrent'
  BY <1>2 DEF CurrencyInv, AnswersAreCurrent
<1> QED BY <1>4, <1>5, <1>6, <1>7 DEF CurrencyInv

\* The steps of a flight.
LEMMA FlightKeepsCurrency ==
    ASSUME CurrencyInv, TypeOK', NEW f \in flights,
           Hit(f) \/ Miss(f) \/ Load(f) \/ Land(f) \/ Crash(f)
    PROVE  CurrencyInv'
<1>1. CASE Hit(f)
  <2>1. PICK entry \in cache : entry.key = f.key /\ Settle(f, entry.got)
    BY <1>1 DEF Hit
  <2>2. Complete(entry.key.kind, entry.got) /\ cache' = cache
    BY <1>1 DEF Hit, CurrencyInv
  <2> QED BY <2>1, <2>2, SettleKeepsCurrency
<1>2. CASE Miss(f)
  <2>1. [f EXCEPT !.pc = "load"].key = f.key /\ [f EXCEPT !.pc = "load"].got = f.got
    BY DEF CurrencyInv, TypeOK
  <2> QED BY <1>2, <2>1, QuietStepKeepsCurrency DEF Miss
<1>3. CASE Load(f)
  BY <1>3, LoadKeepsCurrency
<1>4. CASE Land(f)
  <2>1. \A y \in cache' : y \in cache \/ (y.key = f.key /\ y.got = f.got)
    BY <1>4 DEF Land
  <2> QED BY <1>4, <2>1, SettleKeepsCurrency DEF Land
<1>5. CASE Crash(f)
  BY <1>5, QuietStepKeepsCurrency DEF Crash
<1> QED BY <1>1, <1>2, <1>3, <1>4, <1>5

\* No answer is older than its request, for any number of requests and
\* transactions, and whatever the cache keeps or forgets.
THEOREM AnswersStayCurrent == Spec => []AnswersAreCurrent
<1>1. Init => CurrencyInv
  <2> SUFFICES ASSUME Init PROVE CurrencyInv
    OBVIOUS
  <2>1. TypeOK
    BY DatabaseInitTypes, KnownParts DEF Init, TypeOK
  <2>2. \A r \in Requests : request[r].pc = "idle"
    BY DEF Init, Idle
  <2>3. \A r \in Requests : RequestInv(request[r])
    BY <2>2 DEF RequestInv, Sharing
  <2> QED BY <2>1, <2>2, <2>3 DEF Init, CurrencyInv, AnswersAreCurrent
<1>2. CurrencyInv /\ [Next]_vars => CurrencyInv'
  <2> SUFFICES ASSUME CurrencyInv, [Next]_vars PROVE CurrencyInv'
    OBVIOUS
  <2>1. TypeOK'
    BY StepKeepsTypes DEF CurrencyInv
  <2>2. CASE UNCHANGED vars
    BY <2>1, <2>2, QuietStepKeepsCurrency DEF vars
  <2>3. CASE Expire
    BY <2>1, <2>3, QuietStepKeepsCurrency DEF Expire
  <2> QED BY <2>1, <2>2, <2>3, TransactionKeepsCurrency, RequestKeepsCurrency, FlightKeepsCurrency DEF Next
<1>3. CurrencyInv => AnswersAreCurrent
  BY DEF CurrencyInv
<1> QED BY <1>1, <1>2, <1>3, PTL DEF Spec

=============================================================================
