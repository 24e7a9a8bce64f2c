--------------------- MODULE EditionPublication_proofs ---------------------
(***************************************************************************)
(* Proofs about EditionPublication, for any number of operators, bundles,  *)
(* matches and players.                                                    *)
(*                                                                         *)
(* What the receipts tell is proved with the types alone: the decisions a  *)
(* transaction takes are all on what it reads itself, except for the plan, *)
(* and no plan decides what is written.                                    *)
(***************************************************************************)
EXTENDS EditionPublication, WellFoundedInduction, TLAPS

Slots == [Matches -> [Sides -> [takes : Matches \cup {NoMatch},
                                team : Teams \cup {NoTeam}]]]

\* Every command but those that hide an edition has a bundle.
JobsHaveBundles ==
    \A o \in Operators : job[o].pc \notin {"idle", "hiding"} => job[o].bundle \in Bundles

TypeInv ==
    /\ publication \in {"DRAFT", "PUBLISHED"}
    /\ runs \in Seq(Receipts)
    /\ known \subseteq Identities
    /\ rows \in [Matches -> Rows]
    /\ slots \in Slots
    /\ squad \subseteq Memberships
    /\ job \in [Operators -> Jobs]
    /\ tokens \subseteq Nat \X Nat
    /\ JobsHaveBundles

-----------------------------------------------------------------------------
(* What one receipt does to the receipts                                   *)

LEMMA NewReceiptTyped ==
    ASSUME TypeInv, NEW o \in Operators, job[o].bundle \in Bundles,
           NEW kind \in {"DRY", "ROOT", "REPLAY"}, NEW root \in Nat
    PROVE  Receipt(kind, o, root) \in Receipts
BY DEF TypeInv, Receipt, Receipts, Jobs

LEMMA LogExtends ==
    ASSUME TypeInv, NEW receipt \in Receipts, Log(receipt)
    PROVE  /\ runs' \in Seq(Receipts)
           /\ Len(runs) \in Nat
           /\ DOMAIN runs = 1..Len(runs)
           /\ DOMAIN runs' = 1..(Len(runs) + 1)
           /\ runs'[Len(runs) + 1] = receipt
           /\ \A i \in 1..Len(runs) : runs'[i] = runs[i]
<1>1. runs \in Seq(Receipts) /\ runs' = Append(runs, receipt)
    BY DEF TypeInv, Log
<1> QED BY <1>1

LEMMA ElementOfRuns == TypeInv => \A i \in DOMAIN runs : runs[i] \in Receipts
BY DEF TypeInv

\* The last of some positions exists, and is one of them.
LEMMA LatestInDomain ==
    ASSUME TypeInv, NEW kinds
    PROVE  /\ Latest(kinds) \in Nat
           /\ Latest(kinds) # 0 => Latest(kinds) \in DOMAIN runs
<1> DEFINE found == {i \in DOMAIN runs : runs[i].kind \in kinds}
<1>1. PICK n \in Nat : n = Len(runs) /\ DOMAIN runs = 1..n
    BY DEF TypeInv
<1>2. found \subseteq 1..n
    BY <1>1
<1>3. ASSUME found # {}
      PROVE  \E i \in found : \A j \in found : j <= i
    <2> DEFINE gaps == {k \in Nat : n - k \in found}
    <2>1. PICK i \in found : TRUE
        BY <1>3
    <2>2. i \in 1..n
        BY <1>2
    <2>3. n - i \in Nat /\ n - (n - i) = i
        BY <2>2
    <2>4. n - i \in gaps
        BY <2>3
    <2>5. PICK k \in gaps : \A l \in gaps : k <= l
        <3> DEFINE less == OpToRel(<, Nat)
        <3>1. gaps \subseteq Nat /\ gaps # {}
            BY <2>4
        <3>2. IsWellFoundedOn(less, Nat)
            BY NatLessThanWellFounded
        <3>3. PICK k \in gaps : \A l \in gaps : ~(<<l, k>> \in less)
            <4> HIDE DEF gaps, less
            <4> QED BY <3>1, <3>2, WFMin
        <3>4. ASSUME NEW l \in gaps PROVE k <= l
            <4>1. k \in Nat /\ l \in Nat
                BY <3>1
            <4>2. ~(l < k)
                BY <3>3, <4>1 DEF OpToRel
            <4> QED BY <4>1, <4>2
        <3> QED BY <3>4
    <2>6. ASSUME NEW j \in found PROVE j <= n - k
        <3>1. j \in 1..n
            BY <1>2
        <3>2. n - j \in Nat /\ n - (n - j) = j
            BY <3>1
        <3>3. k <= n - j
            BY <2>5, <3>2
        <3> QED BY <3>1, <3>3
    <2> QED BY <2>5, <2>6
<1>4. Latest(kinds) = IF found = {} THEN 0
                      ELSE CHOOSE i \in found : \A j \in found : j <= i
    BY DEF Latest
<1>5. CASE found = {}
    BY <1>4, <1>5
<1>6. CASE found # {}
    <2> HIDE DEF found
    <2>1. Latest(kinds) \in found
        BY <1>3, <1>4, <1>6
    <2>2. PICK i : i = Latest(kinds)
        OBVIOUS
    <2>3. i \in 1..n
        BY <1>2, <2>1, <2>2
    <2> QED BY <1>1, <2>2, <2>3
<1> QED BY <1>5, <1>6

Last(found) == IF found = {} THEN 0
               ELSE CHOOSE i \in found : \A j \in found : j <= i
RootsOf(log) == {i \in DOMAIN log : log[i].kind \in {"ROOT"}}

LEMMA LastRootIsLast == LastRoot = Last(RootsOf(runs))
BY DEF LastRoot, Latest, Last, RootsOf

\* A receipt of another kind leaves the last of a kind where it was ...
LEMMA LatestStays ==
    ASSUME TypeInv, NEW receipt \in Receipts, Log(receipt),
           receipt.kind # "ROOT"
    PROVE  LastRoot' = LastRoot
<1>1. RootsOf(runs') = RootsOf(runs)
    BY LogExtends DEF RootsOf
<1>2. LastRoot' = Last(RootsOf(runs'))
    BY DEF LastRoot, Latest, Last, RootsOf
<1> QED BY <1>1, <1>2, LastRootIsLast

\* ... and one of that kind becomes the last.
LEMMA LatestMoves ==
    ASSUME TypeInv, NEW receipt \in Receipts, Log(receipt),
           receipt.kind = "ROOT"
    PROVE  LastRoot' = Len(runs) + 1 /\ LastRoot' # 0
<1> DEFINE found == {i \in DOMAIN runs' : runs'[i].kind \in {"ROOT"}}
<1>1. Len(runs) \in Nat /\ Len(runs) + 1 \in found
    BY LogExtends
<1>2. \A j \in found : j \in 1..(Len(runs) + 1)
    BY LogExtends
<1>3. \A i \in found : (\A j \in found : j <= i) => i = Len(runs) + 1
    BY <1>1, <1>2
<1>4. \A j \in found : j <= Len(runs) + 1
    BY <1>1, <1>2
<1>5. (CHOOSE i \in found : \A j \in found : j <= i) = Len(runs) + 1
    <2> HIDE DEF found
    <2> QED BY <1>1, <1>3, <1>4
<1>6. LastRoot' = CHOOSE i \in found : \A j \in found : j <= i
    BY <1>1 DEF LastRoot, Latest
<1>7. Len(runs) + 1 # 0
    BY LogExtends
<1> HIDE DEF found
<1> QED BY <1>5, <1>6, <1>7

-----------------------------------------------------------------------------
(* What a bundle makes of the rows                                         *)

LEMMA TeamsAfterTyped ==
    ASSUME TypeInv, NEW b \in Bundles, NEW m \in Matches
    PROVE  TeamsAfter(b, m) \in [Sides -> Teams \cup {NoTeam}]
<1>1. rows[m] \in Rows
    BY DEF TypeInv
<1>2. rows[m].team \in [Sides -> Teams \cup {NoTeam}]
    BY <1>1 DEF Rows
<1>3. Names[b][m] \in [Sides -> Teams \cup {NoTeam}]
    BY FoundationAssumption
<1> QED BY <1>2, <1>3 DEF TeamsAfter

LEMMA RowAfterTyped ==
    ASSUME TypeInv, NEW b \in Bundles, NEW m \in Matches
    PROVE  RowAfter(b, m) \in Rows /\ RowAfter(b, m).status # "ABSENT"
<1>1. PICK r \in Rows : r = rows[m]
    BY DEF TypeInv
<1>2. Reports[b][m] \in Sides \cup {NoSide}
    BY FoundationAssumption
<1>3. PICK t \in [Sides -> Teams \cup {NoTeam}] : t = TeamsAfter(b, m)
    BY TeamsAfterTyped
<1>4. Preserved(b, m) => r.status \in Started
    BY <1>1 DEF Preserved
<1> QED BY <1>1, <1>2, <1>3, <1>4 DEF RowAfter, Rows, Started

LEMMA SlotAfterTyped ==
    ASSUME TypeInv, NEW b \in Bundles, NEW m \in Matches, NEW side \in Sides
    PROVE  SlotAfter(b, m, side) \in [takes : Matches \cup {NoMatch},
                                      team : Teams \cup {NoTeam}]
<1>1. PICK s \in [takes : Matches \cup {NoMatch}, team : Teams \cup {NoTeam}] :
          s = slots[m][side]
    BY DEF TypeInv, Slots
<1>2. /\ Takes[b][m][side] \in Matches \cup {NoMatch}
      /\ Names[b][m][side] \in Teams \cup {NoTeam}
    BY FoundationAssumption
<1> QED BY <1>1, <1>2 DEF SlotAfter

LEMMA MemberAfterTyped ==
    ASSUME NEW b \in Bundles, NEW s \in Memberships
    PROVE  MemberAfter(b, s) \in Memberships
<1>1. s.player \in Players /\ Roster[b][s.player] \in Standing
    BY FoundationAssumption DEF Memberships
<1>2. ASSUME InRoster(b, s.player)
      PROVE  [s EXCEPT !.status = Roster[b][s.player]] \in Memberships
    BY <1>1, <1>2 DEF InRoster, Memberships
<1>3. [s EXCEPT !.status = "REPLACED", !.open = FALSE] \in Memberships
    BY DEF Memberships, Standing
<1> QED BY <1>2, <1>3 DEF MemberAfter

LEMMA SquadAfterTyped ==
    ASSUME TypeInv, NEW b \in Bundles
    PROVE  SquadAfter(b) \subseteq Memberships
<1>1. \A s \in squad : MemberAfter(b, s) \in Memberships
    BY MemberAfterTyped DEF TypeInv
<1>2. ASSUME NEW p \in Joining(b)
      PROVE  [player |-> p, from |-> Retrieved[b], open |-> TRUE,
              status |-> Roster[b][p]] \in Memberships
    <2>1. p \in Players /\ Roster[b][p] \in Standing \ {"ABSENT"}
        BY <1>2, FoundationAssumption DEF Joining, InRoster
    <2>2. Retrieved[b] \in Nat
        BY FoundationAssumption
    <2> QED BY <2>1, <2>2 DEF Memberships
<1> QED BY <1>1, <1>2 DEF SquadAfter

-----------------------------------------------------------------------------
(* Types                                                                   *)

LEMMA JobMoves ==
    ASSUME TypeInv, NEW o \in Operators, NEW j \in Jobs,
           j.pc \notin {"idle", "hiding"} => j.bundle \in Bundles,
           job' = [job EXCEPT ![o] = j]
    PROVE  job' \in [Operators -> Jobs] /\ JobsHaveBundles'
BY DEF TypeInv, JobsHaveBundles

LEMMA JobFinishes ==
    ASSUME TypeInv, NEW o \in Operators, Finish(o)
    PROVE  job' \in [Operators -> Jobs] /\ JobsHaveBundles'
<1>1. NoJob \in Jobs /\ NoJob.pc = "idle"
    BY DEF NoJob, Jobs
<1> QED BY <1>1, JobMoves DEF Finish

LEMMA TypesInitially == Init => TypeInv
<1> SUFFICES ASSUME Init PROVE TypeInv
    OBVIOUS
<1> USE DEF Init, ImportInit
<1>1. rows \in [Matches -> Rows]
    BY DEF Unseen, Rows
<1>2. job \in [Operators -> Jobs] /\ JobsHaveBundles
    BY DEF NoJob, Jobs, JobsHaveBundles
<1>3. slots \in Slots
    BY DEF Slots
<1> QED BY <1>1, <1>2, <1>3 DEF TypeInv

\* The commands of the importer.
LEMMA ImportKeepsTypes ==
    ASSUME TypeInv, NEW o \in Operators, ImportStep(o), tokens' = tokens
    PROVE  TypeInv'
<1>1. CASE \E b \in Bundles : Plan(o, b)
    <2>1. PICK b \in Bundles : Plan(o, b)
        BY <1>1
    <2> DEFINE j == [NoJob EXCEPT !.pc = "planned", !.bundle = b, !.seen = known \cap Named(b)]
    <2>2. known \cap Named(b) \subseteq Identities
        BY DEF TypeInv
    <2>3. j \in Jobs /\ j.bundle \in Bundles
        BY <2>2 DEF NoJob, Jobs
    <2>4. job' = [job EXCEPT ![o] = j]
        BY <2>1 DEF Plan
    <2>5. job' \in [Operators -> Jobs] /\ JobsHaveBundles'
        <3> HIDE DEF j
        <3> QED BY <2>3, <2>4, JobMoves
    <2> QED BY <2>1, <2>5 DEF Plan, TypeInv, content
<1>2. CASE RecordPreview(o)
    <2>1. job[o].bundle \in Bundles
        BY <1>2 DEF RecordPreview, At, TypeInv, JobsHaveBundles
    <2>2. Receipt("DRY", o, 0) \in Receipts
        BY <2>1, NewReceiptTyped
    <2>3. runs' \in Seq(Receipts)
        BY <1>2, <2>2, LogExtends DEF RecordPreview
    <2>4. job' \in [Operators -> Jobs] /\ JobsHaveBundles'
        BY <1>2, JobFinishes DEF RecordPreview
    <2> QED BY <1>2, <2>3, <2>4 DEF RecordPreview, TypeInv, content
<1>3. CASE BeginApply(o)
    <2> DEFINE j == [job[o] EXCEPT !.pc = "begun", !.started = Len(runs)]
    <2>1. job[o] \in Jobs /\ job[o].bundle \in Bundles /\ Len(runs) \in Nat
        BY <1>3 DEF BeginApply, At, TypeInv, JobsHaveBundles
    <2>2. j \in Jobs /\ j.bundle \in Bundles
        BY <2>1 DEF Jobs
    <2>3. job' = [job EXCEPT ![o] = j]
        BY <1>3 DEF BeginApply
    <2>4. job' \in [Operators -> Jobs] /\ JobsHaveBundles'
        <3> HIDE DEF j
        <3> QED BY <2>2, <2>3, JobMoves
    <2> QED BY <1>3, <2>4 DEF BeginApply, TypeInv, content
<1>4. CASE Replay(o)
    <2>1. job[o].bundle \in Bundles
        BY <1>4 DEF Replay, At, TypeInv, JobsHaveBundles
    <2>2. PICK r \in DOMAIN runs : Log(Receipt("REPLAY", o, r))
        BY <1>4 DEF Replay
    <2>3. r \in Nat
        BY <2>2 DEF TypeInv
    <2>4. Receipt("REPLAY", o, r) \in Receipts
        BY <2>1, <2>3, NewReceiptTyped
    <2>5. runs' \in Seq(Receipts)
        BY <2>2, <2>4, LogExtends
    <2>6. job' \in [Operators -> Jobs] /\ JobsHaveBundles'
        BY <1>4, JobFinishes DEF Replay
    <2> QED BY <1>4, <2>5, <2>6 DEF Replay, TypeInv, content
<1>5. CASE Apply(o)
    <2>1. PICK b \in Bundles : b = job[o].bundle
        BY <1>5 DEF Apply, At, TypeInv, JobsHaveBundles
    <2>2. Receipt("ROOT", o, 0) \in Receipts
        BY <2>1, NewReceiptTyped
    <2>3. runs' \in Seq(Receipts)
        BY <1>5, <2>2, LogExtends DEF Apply
    <2>4. job' \in [Operators -> Jobs] /\ JobsHaveBundles'
        BY <1>5, JobFinishes DEF Apply
    <2>5. known' \subseteq Identities
        <3>1. Named(b) \subseteq Identities
            BY FoundationAssumption DEF Named, Identities
        <3> QED BY <1>5, <2>1, <3>1 DEF Apply, TypeInv
    <2>6. rows' \in [Matches -> Rows]
        <3>1. rows' = [m \in Matches |->
                          IF m \in Fixture[b] THEN RowAfter(b, m) ELSE rows[m]]
            BY <1>5, <2>1 DEF Apply
        <3>2. \A m \in Matches : RowAfter(b, m) \in Rows /\ rows[m] \in Rows
            BY RowAfterTyped DEF TypeInv
        <3> QED BY <3>1, <3>2
    <2>7. slots' \in Slots
        <3>1. slots' = [m \in Matches |->
                           IF m \in Fixture[b]
                           THEN [side \in Sides |-> SlotAfter(b, m, side)]
                           ELSE slots[m]]
            BY <1>5, <2>1 DEF Apply
        <3> DEFINE Slot == [takes : Matches \cup {NoMatch}, team : Teams \cup {NoTeam}]
        <3>2. \A m \in Matches, side \in Sides : SlotAfter(b, m, side) \in Slot
            BY SlotAfterTyped
        <3>3. \A m \in Matches : slots[m] \in [Sides -> Slot]
            BY DEF TypeInv, Slots
        <3>4. slots' \in [Matches -> [Sides -> Slot]]
            <4> HIDE DEF Slot
            <4> QED BY <3>1, <3>2, <3>3
        <3> QED BY <3>4 DEF Slots
    <2>8. squad' \subseteq Memberships
        BY <1>5, <2>1, SquadAfterTyped DEF Apply
    <2> QED BY <1>5, <2>3, <2>4, <2>5, <2>6, <2>7, <2>8 DEF Apply, TypeInv
<1>6. CASE Stop(o)
    <2>1. job' \in [Operators -> Jobs] /\ JobsHaveBundles'
        BY <1>6, JobFinishes DEF Stop
    <2> QED BY <1>6, <2>1 DEF Stop, TypeInv, content
<1> QED BY <1>1, <1>2, <1>3, <1>4, <1>5, <1>6 DEF ImportStep

\* The commands that publish and unpublish.
LEMMA PublicationKeepsTypes ==
    ASSUME TypeInv, NEW o \in Operators,
           \/ \E b \in Bundles : ReadEdition(o, b)
           \/ PrintToken(o) \/ AcceptToken(o) \/ Publish(o)
           \/ ReadStatus(o) \/ Unpublish(o)
    PROVE  TypeInv'
<1>1. CASE \E b \in Bundles : ReadEdition(o, b)
    <2>1. PICK b \in Bundles : ReadEdition(o, b)
        BY <1>1
    <2> DEFINE j == [NoJob EXCEPT !.pc = "counted", !.bundle = b,
              !.fits = publication = "DRAFT" /\ Cardinality(Imported) = FixtureSize]
    <2>2. (publication = "DRAFT" /\ Cardinality(Imported) = FixtureSize) \in BOOLEAN
        OBVIOUS
    <2>3. j \in Jobs /\ j.bundle \in Bundles
        BY <2>2 DEF NoJob, Jobs
    <2>4. job' = [job EXCEPT ![o] = j]
        BY <2>1 DEF ReadEdition
    <2>5. job' \in [Operators -> Jobs] /\ JobsHaveBundles'
        <3> HIDE DEF j
        <3> QED BY <2>3, <2>4, JobMoves
    <2> QED BY <2>1, <2>5 DEF ReadEdition, TypeInv, content
<1>2. CASE PrintToken(o)
    <2>1. Applied \in Nat /\ DryRun \in Nat
        BY LatestInDomain DEF Applied, DryRun
    <2>2. job' \in [Operators -> Jobs] /\ JobsHaveBundles'
        BY <1>2, JobFinishes DEF PrintToken
    <2> QED BY <1>2, <2>1, <2>2 DEF PrintToken, TypeInv, content
<1>3. CASE AcceptToken(o)
    <2> DEFINE j == [job[o] EXCEPT !.pc = "publishing"]
    <2>1. job[o] \in Jobs /\ job[o].bundle \in Bundles
        BY <1>3 DEF AcceptToken, At, TypeInv, JobsHaveBundles
    <2>2. j \in Jobs /\ j.bundle \in Bundles
        BY <2>1 DEF Jobs
    <2>3. job' = [job EXCEPT ![o] = j]
        BY <1>3 DEF AcceptToken
    <2>4. job' \in [Operators -> Jobs] /\ JobsHaveBundles'
        <3> HIDE DEF j
        <3> QED BY <2>2, <2>3, JobMoves
    <2> QED BY <1>3, <2>4 DEF AcceptToken, TypeInv, content
<1>4. CASE Publish(o)
    <2>1. job' \in [Operators -> Jobs] /\ JobsHaveBundles'
        BY <1>4, JobFinishes DEF Publish
    <2> QED BY <1>4, <2>1 DEF Publish, TypeInv, content
<1>5. CASE ReadStatus(o)
    <2> DEFINE j == [NoJob EXCEPT !.pc = "hiding"]
    <2>1. j \in Jobs /\ j.pc = "hiding"
        BY DEF NoJob, Jobs
    <2>2. job' = [job EXCEPT ![o] = j]
        BY <1>5 DEF ReadStatus
    <2>3. job' \in [Operators -> Jobs] /\ JobsHaveBundles'
        <3> HIDE DEF j
        <3> QED BY <2>1, <2>2, JobMoves
    <2> QED BY <1>5, <2>3 DEF ReadStatus, TypeInv, content
<1>6. CASE Unpublish(o)
    <2>1. job' \in [Operators -> Jobs] /\ JobsHaveBundles'
        BY <1>6, JobFinishes DEF Unpublish
    <2> QED BY <1>6, <2>1 DEF Unpublish, TypeInv, content
<1> QED BY <1>1, <1>2, <1>3, <1>4, <1>5, <1>6

\* What a result makes of a row: the teams it fills in, and, of its own match,
\* the status, the winner and the quality.
Fills(m, n, side) == slots[n][side].takes = m
Placed(m, team, n) ==
    [rows[n] EXCEPT !.team = [side \in Sides |-> IF Fills(m, n, side) THEN team ELSE @[side]]]

LEMMA PlacedTyped ==
    ASSUME TypeInv, NEW m \in Matches, NEW team \in Teams, NEW n \in Matches
    PROVE  /\ Placed(m, team, n) \in Rows
           /\ Placed(m, team, n).status = rows[n].status
           /\ Placed(m, team, n).details = rows[n].details
           /\ \A side \in Sides : Placed(m, team, n).team[side] =
                  IF Fills(m, n, side) THEN team ELSE rows[n].team[side]
<1>1. PICK r \in Rows : r = rows[n]
    BY DEF TypeInv
<1> DEFINE filled == [side \in Sides |-> IF Fills(m, n, side) THEN team ELSE r.team[side]]
<1>2. filled \in [Sides -> Teams \cup {NoTeam}]
    BY DEF Rows
<1>3. Placed(m, team, n) = [r EXCEPT !.team = filled]
    BY <1>1 DEF Placed
<1>4. \A side \in Sides : filled[side] = IF Fills(m, n, side) THEN team ELSE r.team[side]
    OBVIOUS
<1> HIDE DEF filled
<1> QED BY <1>1, <1>2, <1>3, <1>4 DEF Rows

\* A result writes the rows and slots of the matches that take its winner.
LEMMA FinishWrites ==
    ASSUME TypeInv, NEW m \in Matches, NEW winner \in Sides, FinishMatch(m, winner)
    PROVE  \E team \in Teams :
              /\ rows' = [n \in Matches |->
                    IF n = m
                    THEN [Placed(m, team, n) EXCEPT !.status = "COMPLETED",
                              !.winner = winner, !.quality = "OFFICIAL_FINAL"]
                    ELSE Placed(m, team, n)]
              /\ slots' = [n \in Matches |-> [side \in Sides |->
                    IF Fills(m, n, side) THEN [slots[n][side] EXCEPT !.team = team]
                    ELSE slots[n][side]]]
<1>1. rows[m].team[winner] \in Teams \cup {NoTeam} /\ rows[m].team[winner] # NoTeam
    <2>1. rows[m] \in Rows
        BY DEF TypeInv
    <2> QED BY <2>1 DEF FinishMatch, Rows
<1>2. PICK team \in Teams : team = rows[m].team[winner]
    BY <1>1
<1> QED BY <1>2 DEF FinishMatch, Placed, Fills

\* The results that are imported while the edition is public.
LEMMA ResultsKeepTypes ==
    ASSUME TypeInv, NEW m \in Matches,
           StartMatch(m) \/ (\E winner \in Sides : FinishMatch(m, winner))
    PROVE  TypeInv'
<1>1. CASE StartMatch(m)
    <2>1. rows[m] \in Rows
        BY DEF TypeInv
    <2>2. [rows[m] EXCEPT !.status = "LIVE"] \in Rows
        BY <2>1 DEF Rows, Started
    <2>3. rows' = [rows EXCEPT ![m] = [rows[m] EXCEPT !.status = "LIVE"]]
        BY <1>1 DEF StartMatch
    <2>4. rows' \in [Matches -> Rows]
        BY <2>2, <2>3 DEF TypeInv
    <2> QED BY <1>1, <2>4 DEF StartMatch, TypeInv, JobsHaveBundles
<1>2. CASE \E winner \in Sides : FinishMatch(m, winner)
    <2>1. PICK winner \in Sides : FinishMatch(m, winner)
        BY <1>2
    <2>2. PICK team \in Teams :
              /\ rows' = [n \in Matches |->
                    IF n = m
                    THEN [Placed(m, team, n) EXCEPT !.status = "COMPLETED",
                              !.winner = winner, !.quality = "OFFICIAL_FINAL"]
                    ELSE Placed(m, team, n)]
              /\ slots' = [n \in Matches |-> [side \in Sides |->
                    IF Fills(m, n, side) THEN [slots[n][side] EXCEPT !.team = team]
                    ELSE slots[n][side]]]
        BY <2>1, FinishWrites
    <2>3. \A n \in Matches : Placed(m, team, n) \in Rows
        BY PlacedTyped
    <2>4. [Placed(m, team, m) EXCEPT !.status = "COMPLETED",
               !.winner = winner, !.quality = "OFFICIAL_FINAL"] \in Rows
        BY <2>3 DEF Rows, Started
    <2>5. rows' \in [Matches -> Rows]
        BY <2>2, <2>3, <2>4
    <2> DEFINE Slot == [takes : Matches \cup {NoMatch}, team : Teams \cup {NoTeam}]
    <2>6. \A n \in Matches, side \in Sides : slots[n][side] \in Slot
        BY DEF TypeInv, Slots
    <2>7. \A n \in Matches, side \in Sides :
              [slots[n][side] EXCEPT !.team = team] \in Slot
        BY <2>6
    <2>8. slots' \in [Matches -> [Sides -> Slot]]
        <3> HIDE DEF Slot
        <3> QED BY <2>2, <2>6, <2>7
    <2>9. slots' \in Slots
        BY <2>8 DEF Slots
    <2> QED BY <2>1, <2>5, <2>9 DEF FinishMatch, TypeInv, JobsHaveBundles
<1> QED BY <1>1, <1>2

LEMMA StepKeepsTypes == TypeInv /\ [Next]_vars => TypeInv'
<1> SUFFICES ASSUME TypeInv, [Next]_vars PROVE TypeInv'
    OBVIOUS
<1>1. CASE \E o \in Operators : ImportStep(o) /\ UNCHANGED tokens
    BY <1>1, ImportKeepsTypes
<1>2. CASE \E o \in Operators :
              \/ \E b \in Bundles : ReadEdition(o, b)
              \/ PrintToken(o) \/ AcceptToken(o) \/ Publish(o)
              \/ ReadStatus(o) \/ Unpublish(o)
    BY <1>2, PublicationKeepsTypes
<1>3. CASE \E m \in Matches :
              StartMatch(m) \/ (\E winner \in Sides : FinishMatch(m, winner))
    BY <1>3, ResultsKeepTypes
<1>4. CASE UNCHANGED vars
    BY <1>4 DEF TypeInv, JobsHaveBundles, vars, importVars, content
<1> QED BY <1>1, <1>2, <1>3, <1>4 DEF Next

THEOREM TypeInvariance == Spec => []TypeInv
BY TypesInitially, StepKeepsTypes, PTL DEF Spec

-----------------------------------------------------------------------------
(* The receipts and the rows a step leaves alone                           *)

\* An import writes one receipt and rows, or leaves both as they are.
LEMMA ImportWrites ==
    ASSUME TypeInv, NEW o \in Operators, ImportStep(o)
    PROVE  \/ runs' = runs /\ content' = content
           \/ \E kind \in {"DRY", "REPLAY"}, root \in Nat :
                 /\ job[o].bundle \in Bundles /\ IsDraft
                 /\ kind = "REPLAY" => root \in Roots(job[o].bundle, job[o].seen)
                 /\ Log(Receipt(kind, o, root))
                 /\ content' = content
           \/ job[o].bundle \in Bundles /\ Apply(o)
<1>1. ASSUME At(o, "planned") \/ At(o, "begun") PROVE job[o].bundle \in Bundles
    BY <1>1 DEF At, TypeInv, JobsHaveBundles
<1>2. ASSUME Replay(o)
      PROVE  \E root \in Nat : /\ root \in Roots(job[o].bundle, job[o].seen)
                               /\ Log(Receipt("REPLAY", o, root))
    <2>1. PICK r \in DOMAIN runs : /\ Repeats(job[o].bundle, job[o].seen, r)
                                   /\ Log(Receipt("REPLAY", o, r))
        BY <1>2 DEF Replay
    <2>2. r \in Nat
        BY <2>1 DEF TypeInv
    <2>3. r \in Roots(job[o].bundle, job[o].seen)
        BY <2>1 DEF Repeats
    <2> QED BY <2>1, <2>2, <2>3
<1>3. Replay(o) => At(o, "begun") /\ IsDraft /\ content' = content
    BY DEF Replay, content
<1>4. RecordPreview(o) =>
          At(o, "planned") /\ IsDraft /\ content' = content /\ Log(Receipt("DRY", o, 0))
    BY DEF RecordPreview, content
<1>5. Apply(o) => At(o, "begun")
    BY DEF Apply
<1> QED BY <1>1, <1>2, <1>3, <1>4, <1>5 DEF ImportStep, Plan, BeginApply, Stop, content

\* Nothing but an import touches receipts, mappings and the squad, or says
\* which bundle a row is from.
LEMMA OthersWriteLittle ==
    ASSUME TypeInv, [Next]_vars,
           ~ \E o \in Operators : ImportStep(o) /\ UNCHANGED tokens
    PROVE  /\ runs' = runs /\ known' = known /\ squad' = squad
           /\ \A m \in Matches : /\ rows'[m].details = rows[m].details
                                 /\ (rows'[m].status = "ABSENT") <=> (rows[m].status = "ABSENT")
<1>1. CASE \E o \in Operators :
              \/ \E b \in Bundles : ReadEdition(o, b)
              \/ PrintToken(o) \/ AcceptToken(o) \/ Publish(o)
              \/ ReadStatus(o) \/ Unpublish(o)
    BY <1>1 DEF ReadEdition, PrintToken, AcceptToken, Publish, ReadStatus, Unpublish, content
<1>2. CASE \E m \in Matches : StartMatch(m)
    <2>1. PICK m \in Matches : StartMatch(m)
        BY <1>2
    <2>2. rows[m] \in Rows /\ rows' = [rows EXCEPT ![m].status = "LIVE"]
        BY <2>1 DEF StartMatch, TypeInv
    <2>3. \A n \in Matches : rows'[n].details = rows[n].details
        BY <2>2 DEF TypeInv, Rows
    <2>4. rows[m].status = "SCHEDULED" /\ rows'[m].status = "LIVE"
        BY <2>1, <2>2 DEF StartMatch, TypeInv, Rows
    <2>5. \A n \in Matches : n # m => rows'[n] = rows[n]
        BY <2>2 DEF TypeInv
    <2> QED BY <2>1, <2>3, <2>4, <2>5 DEF StartMatch
<1>3. CASE \E m \in Matches, winner \in Sides : FinishMatch(m, winner)
    <2>1. PICK m \in Matches, winner \in Sides : FinishMatch(m, winner)
        BY <1>3
    <2>2. PICK team \in Teams :
              rows' = [n \in Matches |->
                    IF n = m
                    THEN [Placed(m, team, n) EXCEPT !.status = "COMPLETED",
                              !.winner = winner, !.quality = "OFFICIAL_FINAL"]
                    ELSE Placed(m, team, n)]
        BY <2>1, FinishWrites
    <2>3. \A n \in Matches : /\ Placed(m, team, n) \in Rows
                             /\ Placed(m, team, n).status = rows[n].status
                             /\ Placed(m, team, n).details = rows[n].details
        BY PlacedTyped
    <2>4. \A n \in Matches \ {m} : rows'[n] = Placed(m, team, n)
        BY <2>2
    <2>5. PICK r \in Rows : r = Placed(m, team, m)
        BY <2>3
    <2>6. rows'[m] = [r EXCEPT !.status = "COMPLETED",
                              !.winner = winner, !.quality = "OFFICIAL_FINAL"]
        BY <2>2, <2>5
    <2>7. rows'[m].details = rows[m].details /\ rows'[m].status = "COMPLETED"
        BY <2>3, <2>5, <2>6 DEF Rows
    <2>8. rows[m].status # "ABSENT"
        BY <2>1 DEF FinishMatch
    <2> QED BY <2>1, <2>3, <2>4, <2>7, <2>8 DEF FinishMatch
<1>4. CASE UNCHANGED vars
    BY <1>4 DEF vars, importVars, content
<1> QED BY <1>1, <1>2, <1>3, <1>4 DEF Next

-----------------------------------------------------------------------------
(* The receipts                                                            *)

MappedHaveRows == \A m \in Matches : m \in known <=> rows[m].status # "ABSENT"

ReplaysFollowRoots ==
    \A i \in DOMAIN runs : runs[i].kind = "REPLAY" =>
        \E r \in 1..i : /\ r = runs[i].root
                        /\ runs[r].kind = "ROOT" /\ runs[r].bundle = runs[i].bundle

LEMMA AppliedRow ==
    ASSUME TypeInv, NEW o \in Operators, Apply(o), NEW m \in Matches
    PROVE  rows'[m] = IF m \in Fixture[job[o].bundle] THEN RowAfter(job[o].bundle, m)
                      ELSE rows[m]
BY DEF Apply

LEMMA StepKeepsMapped ==
    TypeInv /\ MappedHaveRows /\ [Next]_vars => MappedHaveRows'
<1> SUFFICES ASSUME TypeInv, MappedHaveRows, [Next]_vars PROVE MappedHaveRows'
    OBVIOUS
<1>1. CASE \E o \in Operators : ImportStep(o) /\ UNCHANGED tokens
    <2>1. PICK o \in Operators : ImportStep(o)
        BY <1>1
    <2>2. CASE content' = content
        BY <2>2 DEF content, MappedHaveRows
    <2>3. CASE job[o].bundle \in Bundles /\ Apply(o)
        <3>1. PICK b \in Bundles : b = job[o].bundle
            BY <2>3
        <3>2. known' = known \cup Listed[b] \cup Fixture[b]
            BY <2>3, <3>1 DEF Apply, Named
        <3>3. Listed[b] \cap Matches = {}
            BY FoundationAssumption
        <3>4. \A m \in Matches : RowAfter(b, m).status # "ABSENT"
            BY RowAfterTyped
        <3> QED BY <2>3, <3>1, <3>2, <3>3, <3>4, AppliedRow DEF MappedHaveRows
    <2> QED BY <2>1, <2>2, <2>3, ImportWrites
<1>2. CASE ~ \E o \in Operators : ImportStep(o) /\ UNCHANGED tokens
    BY <1>2, OthersWriteLittle DEF MappedHaveRows
<1> QED BY <1>1, <1>2

LEMMA LoggedReplaysFollow ==
    ASSUME TypeInv, ReplaysFollowRoots, NEW o \in Operators,
           NEW kind \in {"DRY", "ROOT", "REPLAY"}, NEW root \in Nat,
           job[o].bundle \in Bundles, Log(Receipt(kind, o, root)),
           kind = "REPLAY" => root \in Roots(job[o].bundle, job[o].seen)
    PROVE  ReplaysFollowRoots'
<1>1. PICK n \in Nat : n = Len(runs)
    BY LogExtends, NewReceiptTyped
<1>2. PICK new \in Receipts : new = Receipt(kind, o, root)
    BY NewReceiptTyped
<1>3. /\ DOMAIN runs = 1..n /\ DOMAIN runs' = 1..(n + 1)
      /\ runs'[n + 1] = new
      /\ \A i \in 1..n : runs'[i] = runs[i]
    BY <1>1, <1>2, LogExtends
<1>4. new.kind = kind /\ new.bundle = job[o].bundle /\ new.root = root
    BY <1>2 DEF Receipt
<1> SUFFICES ASSUME NEW i \in 1..(n + 1), runs'[i].kind = "REPLAY"
             PROVE  \E r \in 1..i : /\ r = runs'[i].root
                                    /\ runs'[r].kind = "ROOT"
                                    /\ runs'[r].bundle = runs'[i].bundle
    BY <1>3 DEF ReplaysFollowRoots
<1>5. CASE i \in 1..n
    <2>1. PICK r \in 1..i : /\ r = runs[i].root
                            /\ runs[r].kind = "ROOT" /\ runs[r].bundle = runs[i].bundle
        BY <1>3, <1>5 DEF ReplaysFollowRoots
    <2>2. r \in 1..n
        BY <1>5, <2>1
    <2> QED BY <1>3, <1>5, <2>1, <2>2
<1>6. CASE i = n + 1
    <2>1. root \in Roots(job[o].bundle, job[o].seen)
        BY <1>3, <1>4, <1>6
    <2>2. root \in 1..n /\ runs[root].kind = "ROOT" /\ runs[root].bundle = job[o].bundle
        BY <1>3, <2>1 DEF Roots, Positions
    <2>3. root \in 1..i
        BY <1>6, <2>2
    <2> QED BY <1>3, <1>4, <1>6, <2>2, <2>3
<1> QED BY <1>5, <1>6

LEMMA StepKeepsReplays ==
    TypeInv /\ ReplaysFollowRoots /\ [Next]_vars => ReplaysFollowRoots'
<1> SUFFICES ASSUME TypeInv, ReplaysFollowRoots, [Next]_vars PROVE ReplaysFollowRoots'
    OBVIOUS
<1>1. CASE runs' = runs
    BY <1>1 DEF ReplaysFollowRoots
<1>2. CASE \E o \in Operators : ImportStep(o) /\ UNCHANGED tokens
    <2>1. PICK o \in Operators : ImportStep(o)
        BY <1>2
    <2>2. Apply(o) => Log(Receipt("ROOT", o, 0))
        BY DEF Apply
    <2> QED BY <1>1, <2>1, <2>2, ImportWrites, LoggedReplaysFollow
<1> QED BY <1>1, <1>2, OthersWriteLittle

\* The rows, receipts and commands have their shape for any number of
\* operators and any bundles (TypeOK of the runs).
THEOREM TypeCorrect == Spec => []TypeOK
<1>1. Init => MappedHaveRows /\ ReplaysFollowRoots
    BY DEF Init, ImportInit, MappedHaveRows, ReplaysFollowRoots, Unseen
<1>2. TypeInv /\ MappedHaveRows /\ ReplaysFollowRoots => TypeOK
    BY DEF TypeInv, MappedHaveRows, ReplaysFollowRoots, TypeOK, Slots
<1> QED BY <1>1, <1>2, StepKeepsMapped, StepKeepsReplays, TypeInvariance, PTL DEF Spec

LEMMA StepKeepsOneRoot ==
    TypeInv /\ OneRootPerBundle /\ [Next]_vars => OneRootPerBundle'
<1> SUFFICES ASSUME TypeInv, OneRootPerBundle, [Next]_vars PROVE OneRootPerBundle'
    OBVIOUS
<1>1. CASE runs' = runs
    BY <1>1 DEF OneRootPerBundle
<1>2. ASSUME NEW o \in Operators, NEW kind \in {"DRY", "ROOT", "REPLAY"}, NEW root \in Nat,
             job[o].bundle \in Bundles, Log(Receipt(kind, o, root)),
             kind = "ROOT" => Roots(job[o].bundle, job[o].seen) = {}
      PROVE  OneRootPerBundle'
    <2>1. PICK n \in Nat : n = Len(runs)
        BY <1>2, LogExtends, NewReceiptTyped
    <2>2. PICK new \in Receipts : new = Receipt(kind, o, root)
        BY <1>2, NewReceiptTyped
    <2>3. /\ DOMAIN runs = 1..n /\ DOMAIN runs' = 1..(n + 1)
          /\ runs'[n + 1] = new
          /\ \A i \in 1..n : runs'[i] = runs[i]
        BY <1>2, <2>1, <2>2, LogExtends
    <2>4. new.kind = kind /\ new.bundle = job[o].bundle
        BY <2>2 DEF Receipt
    <2>5. kind = "ROOT" =>
              \A i \in 1..n : ~(runs[i].kind = "ROOT" /\ runs[i].bundle = new.bundle)
        BY <1>2, <2>3, <2>4 DEF Roots, Positions
    <2>6. \A i, j \in 1..n :
              runs[i].kind = "ROOT" /\ runs[j].kind = "ROOT" /\ runs[i].bundle = runs[j].bundle
                  => i = j
        BY <2>3 DEF OneRootPerBundle
    <2>7. \A i \in 1..(n + 1) : i \in 1..n \/ i = n + 1
        BY <2>1
    <2> QED BY <2>3, <2>4, <2>5, <2>6, <2>7 DEF OneRootPerBundle
<1>3. CASE \E o \in Operators : ImportStep(o) /\ UNCHANGED tokens
    <2>1. PICK o \in Operators : ImportStep(o)
        BY <1>3
    <2>2. Apply(o) => /\ Log(Receipt("ROOT", o, 0))
                      /\ Roots(job[o].bundle, job[o].seen) = {}
        BY DEF Apply
    <2> QED BY <1>1, <1>2, <2>1, <2>2, ImportWrites
<1> QED BY <1>1, <1>3, OthersWriteLittle

\* However many operators apply a bundle at once, one run wrote it.
THEOREM OneRoot == Spec => []OneRootPerBundle
<1>1. Init => OneRootPerBundle
    BY DEF Init, ImportInit, OneRootPerBundle
<1> QED BY <1>1, StepKeepsOneRoot, TypeInvariance, PTL DEF Spec

-----------------------------------------------------------------------------
(* The content                                                             *)

\* After a bundle is written, its active players are the active members.
LEMMA SquadIsTheBundles ==
    ASSUME TypeInv, NEW b \in Bundles, NEW p \in Players
    PROVE  (\E s \in SquadAfter(b) : s.open /\ s.status = "ACTIVE" /\ s.player = p)
               <=> Roster[b][p] = "ACTIVE"
<1> DEFINE Joined(j) == [player |-> j, from |-> Retrieved[b], open |-> TRUE,
                         status |-> Roster[b][j]]
<1>1. SquadAfter(b) = {MemberAfter(b, s) : s \in squad} \cup {Joined(j) : j \in Joining(b)}
    BY DEF SquadAfter
<1>2. ASSUME Roster[b][p] = "ACTIVE"
      PROVE  \E s \in SquadAfter(b) : s.open /\ s.status = "ACTIVE" /\ s.player = p
    <2>1. InRoster(b, p)
        BY <1>2 DEF InRoster
    <2>2. CASE OpenOf(p) = {}
        <3>1. Joined(p) \in SquadAfter(b)
            BY <1>1, <2>1, <2>2 DEF Joining
        <3> QED BY <1>2, <3>1
    <2>3. CASE OpenOf(p) # {}
        <3>1. PICK s \in squad : s.player = p /\ s.open
            BY <2>3 DEF OpenOf
        <3>2. s \in Memberships
            BY DEF TypeInv
        <3>3. MemberAfter(b, s) = [s EXCEPT !.status = "ACTIVE"]
            BY <1>2, <2>1, <3>1 DEF MemberAfter
        <3>4. MemberAfter(b, s) \in SquadAfter(b)
            BY <1>1
        <3>5. LET t == [s EXCEPT !.status = "ACTIVE"]
              IN  t.open /\ t.status = "ACTIVE" /\ t.player = p
            BY <3>1, <3>2 DEF Memberships
        <3> QED BY <3>3, <3>4, <3>5
    <2> QED BY <2>2, <2>3
<1>3. ASSUME NEW t \in SquadAfter(b), t.open, t.status = "ACTIVE", t.player = p
      PROVE  Roster[b][p] = "ACTIVE"
    <2>1. CASE \E j \in Joining(b) : t = Joined(j)
        BY <1>3, <2>1
    <2>2. CASE \E s \in squad : t = MemberAfter(b, s)
        <3>1. PICK s \in squad : t = MemberAfter(b, s)
            BY <2>2
        <3>2. s \in Memberships
            BY DEF TypeInv
        <3>3. CASE ~s.open
            BY <1>3, <3>1, <3>3 DEF MemberAfter
        <3>4. CASE s.open /\ InRoster(b, s.player)
            BY <1>3, <3>1, <3>2, <3>4 DEF MemberAfter, Memberships
        <3>5. CASE s.open /\ ~InRoster(b, s.player)
            BY <1>3, <3>1, <3>2, <3>5 DEF MemberAfter, Memberships
        <3> QED BY <3>3, <3>4, <3>5
    <2> QED BY <1>1, <2>1, <2>2
<1> QED BY <1>2, <1>3

LEMMA ApplyMakesContent ==
    ASSUME TypeInv, NEW o \in Operators, job[o].bundle \in Bundles, Apply(o)
    PROVE  ContentFollowsReceipts'
<1>1. PICK b \in Bundles : b = job[o].bundle
    OBVIOUS
<1>2. PICK new \in Receipts : new = Receipt("ROOT", o, 0)
    BY <1>1, NewReceiptTyped
<1>3. Log(new) /\ new.kind = "ROOT" /\ new.bundle = b
    BY <1>1, <1>2 DEF Apply, Receipt
<1>4. LastRoot' = Len(runs) + 1 /\ LastRoot' # 0
    BY <1>3, LatestMoves
<1>5. runs'[LastRoot'].bundle = b
    BY <1>3, <1>4, LogExtends
<1>6. \A m \in Fixture[b] : rows'[m].details = b
    <2>1. Fixture[b] \subseteq Matches
        BY FoundationAssumption
    <2>2. \A m \in Fixture[b] : rows'[m] = RowAfter(b, m)
        BY <1>1, <2>1, AppliedRow
    <2>3. \A m \in Fixture[b] : RowAfter(b, m).details = b
        BY DEF RowAfter
    <2> QED BY <2>2, <2>3
<1>7. squad' = SquadAfter(b)
    BY <1>1 DEF Apply
<1>8. \A p \in Players :
          (\E s \in squad' : s.open /\ s.status = "ACTIVE" /\ s.player = p)
              <=> Roster[b][p] = "ACTIVE"
    BY <1>7, SquadIsTheBundles
<1> QED BY <1>4, <1>5, <1>6, <1>8 DEF ContentFollowsReceipts, ActiveMembers

LEMMA StepKeepsContent ==
    TypeInv /\ ContentFollowsReceipts /\ [Next]_vars => ContentFollowsReceipts'
<1> SUFFICES ASSUME TypeInv, ContentFollowsReceipts, [Next]_vars
             PROVE  ContentFollowsReceipts'
    OBVIOUS
<1>1. ASSUME LastRoot' = LastRoot, LastRoot = 0 \/ runs'[LastRoot] = runs[LastRoot],
             known' = known, squad' = squad,
             \A m \in Matches : rows'[m].details = rows[m].details
      PROVE  ContentFollowsReceipts'
    <2>1. \A b \in Bundles : Fixture[b] \subseteq Matches
        BY FoundationAssumption
    <2>2. LastRoot # 0 => Fixture[runs[LastRoot].bundle] \subseteq Matches
        <3>1. SUFFICES ASSUME LastRoot # 0 PROVE runs[LastRoot].bundle \in Bundles
            BY <2>1
        <3>2. LastRoot \in DOMAIN runs
            BY <3>1, LatestInDomain DEF LastRoot
        <3> QED BY <3>2, ElementOfRuns DEF Receipts
    <2> QED BY <1>1, <2>2 DEF ContentFollowsReceipts, ActiveMembers
<1>2. ASSUME runs' = runs PROVE LastRoot' = LastRoot /\ runs'[LastRoot] = runs[LastRoot]
    BY <1>2 DEF LastRoot, Latest
<1>3. CASE \E o \in Operators : ImportStep(o) /\ UNCHANGED tokens
    <2>1. PICK o \in Operators : ImportStep(o)
        BY <1>3
    <2>2. CASE runs' = runs /\ content' = content
        BY <1>1, <1>2, <2>2 DEF content
    <2>3. ASSUME NEW kind \in {"DRY", "REPLAY"}, NEW root \in Nat,
                 job[o].bundle \in Bundles, Log(Receipt(kind, o, root)),
                 content' = content
          PROVE  ContentFollowsReceipts'
        <3>1. PICK new \in Receipts : new = Receipt(kind, o, root)
            BY <2>3, NewReceiptTyped
        <3>2. new.kind # "ROOT" /\ Log(new)
            BY <2>3, <3>1 DEF Receipt
        <3>3. LastRoot' = LastRoot
            BY <3>2, LatestStays
        <3>4. LastRoot = 0 \/ runs'[LastRoot] = runs[LastRoot]
            BY <3>2, LogExtends, LatestInDomain DEF LastRoot
        <3> QED BY <1>1, <2>3, <3>3, <3>4 DEF content
    <2> QED BY <2>1, <2>2, <2>3, ImportWrites, ApplyMakesContent
<1>4. CASE ~ \E o \in Operators : ImportStep(o) /\ UNCHANGED tokens
    BY <1>1, <1>2, <1>4, OthersWriteLittle
<1> QED BY <1>3, <1>4

\* The schedule and the active squad are those of the last run that wrote.
THEOREM ContentInvariance == Spec => []ContentFollowsReceipts
<1>1. Init => ContentFollowsReceipts
    BY DEF Init, ImportInit, ContentFollowsReceipts, LastRoot, Latest
<1> QED BY <1>1, StepKeepsContent, TypeInvariance, PTL DEF Spec

-----------------------------------------------------------------------------
(* What an import leaves alone                                             *)

\* No import commits while the edition is public.
THEOREM PublicIsFrozen == Spec => FrozenWhilePublished
<1> DEFINE Frozen == publication = "PUBLISHED" =>
                         /\ squad' = squad /\ known' = known
                         /\ \A m \in Matches : rows'[m].details = rows[m].details
<1>1. ASSUME TypeInv, [Next]_vars PROVE Frozen
    <2>1. CASE \E o \in Operators : ImportStep(o) /\ UNCHANGED tokens
        <3>1. PICK o \in Operators : ImportStep(o)
            BY <2>1
        <3>2. Apply(o) => publication = "DRAFT"
            BY DEF Apply, IsDraft
        <3> QED BY <1>1, <3>1, <3>2, ImportWrites DEF content
    <2>2. CASE ~ \E o \in Operators : ImportStep(o) /\ UNCHANGED tokens
        BY <1>1, <2>2, OthersWriteLittle
    <2> QED BY <2>1, <2>2
<1>2. TypeInv /\ [Next]_vars => [Frozen]_vars
    BY <1>1
<1> QED BY <1>2, TypeInvariance, PTL DEF Spec, FrozenWhilePublished

LEMMA StepKeepsParticipants ==
    TypeInv /\ ParticipantsAgree /\ [Next]_vars => ParticipantsAgree'
<1> SUFFICES ASSUME TypeInv, ParticipantsAgree, [Next]_vars PROVE ParticipantsAgree'
    OBVIOUS
<1>1. CASE rows' = rows /\ slots' = slots
    BY <1>1 DEF ParticipantsAgree
<1>2. CASE \E o \in Operators : ImportStep(o) /\ UNCHANGED tokens
    <2>1. PICK o \in Operators : ImportStep(o)
        BY <1>2
    <2>2. CASE content' = content
        BY <1>1, <2>2 DEF content
    <2>3. CASE job[o].bundle \in Bundles /\ Apply(o)
        <3> SUFFICES ASSUME NEW m \in Matches, NEW side \in Sides
                     PROVE  rows'[m].team[side] = slots'[m][side].team
            BY DEF ParticipantsAgree
        <3>1. PICK b \in Bundles : b = job[o].bundle
            BY <2>3
        <3>2. rows'[m] = IF m \in Fixture[b] THEN RowAfter(b, m) ELSE rows[m]
            BY <2>3, <3>1, AppliedRow
        <3>3. slots'[m] = IF m \in Fixture[b] THEN [s \in Sides |-> SlotAfter(b, m, s)]
                          ELSE slots[m]
            BY <2>3, <3>1 DEF Apply
        <3>4. RowAfter(b, m).team[side] =
                  IF Preserved(b, m) \/ Names[b][m][side] = NoTeam
                  THEN rows[m].team[side] ELSE Names[b][m][side]
            BY DEF RowAfter, TeamsAfter
        <3>5. SlotAfter(b, m, side).team =
                  IF Preserved(b, m) \/ Names[b][m][side] = NoTeam
                  THEN slots[m][side].team ELSE Names[b][m][side]
            BY DEF SlotAfter
        <3> QED BY <3>2, <3>3, <3>4, <3>5 DEF ParticipantsAgree
    <2>4. content' = content \/ (job[o].bundle \in Bundles /\ Apply(o))
        BY <2>1, ImportWrites
    <2> QED BY <2>2, <2>3, <2>4
<1>3. CASE \E m \in Matches : StartMatch(m)
    <2>1. PICK m \in Matches : StartMatch(m)
        BY <1>3
    <2>2. rows' = [rows EXCEPT ![m].status = "LIVE"] /\ slots' = slots
        BY <2>1 DEF StartMatch
    <2>3. \A n \in Matches : rows'[n].team = rows[n].team
        BY <2>2 DEF TypeInv, Rows
    <2> QED BY <2>2, <2>3 DEF ParticipantsAgree
<1>4. CASE \E m \in Matches, winner \in Sides : FinishMatch(m, winner)
    <2>1. PICK m \in Matches, winner \in Sides : FinishMatch(m, winner)
        BY <1>4
    <2>2. PICK team \in Teams :
              /\ rows' = [n \in Matches |->
                    IF n = m
                    THEN [Placed(m, team, n) EXCEPT !.status = "COMPLETED",
                              !.winner = winner, !.quality = "OFFICIAL_FINAL"]
                    ELSE Placed(m, team, n)]
              /\ slots' = [n \in Matches |-> [side \in Sides |->
                    IF Fills(m, n, side) THEN [slots[n][side] EXCEPT !.team = team]
                    ELSE slots[n][side]]]
        BY <2>1, FinishWrites
    <2> SUFFICES ASSUME NEW n \in Matches, NEW side \in Sides
                 PROVE  rows'[n].team[side] = slots'[n][side].team
        BY DEF ParticipantsAgree
    <2>3. PICK r \in Rows : r = Placed(m, team, n)
        BY PlacedTyped
    <2>4. r.team[side] = IF Fills(m, n, side) THEN team ELSE rows[n].team[side]
        BY <2>3, PlacedTyped
    <2>5. rows'[n] = IF n = m
                     THEN [r EXCEPT !.status = "COMPLETED",
                              !.winner = winner, !.quality = "OFFICIAL_FINAL"]
                     ELSE r
        BY <2>2, <2>3
    <2>6. rows'[n].team = r.team
        BY <2>5 DEF Rows
    <2>7. PICK s \in [takes : Matches \cup {NoMatch}, team : Teams \cup {NoTeam}] :
              s = slots[n][side]
        BY DEF TypeInv, Slots
    <2>8. slots'[n][side] = IF Fills(m, n, side) THEN [s EXCEPT !.team = team] ELSE s
        BY <2>2, <2>7
    <2>9. slots'[n][side].team = IF Fills(m, n, side) THEN team ELSE s.team
        BY <2>8
    <2> QED BY <2>4, <2>6, <2>7, <2>9 DEF ParticipantsAgree
<1> QED BY <1>1, <1>2, <1>3, <1>4
    DEF Next, ReadEdition, PrintToken, AcceptToken, Publish, ReadStatus, Unpublish,
        content, vars, importVars

\* A match and its slots name the same teams.
THEOREM Participants == Spec => []ParticipantsAgree
<1>1. Init => ParticipantsAgree
    BY DEF Init, ImportInit, ParticipantsAgree, Unseen
<1> QED BY <1>1, StepKeepsParticipants, TypeInvariance, PTL DEF Spec

\* A revised bundle leaves the results of matches that have started alone.
THEOREM HiddenResults == Spec => HiddenResultsStand
<1> DEFINE Stands(m) ==
        rows[m].status \in Started
            => \/ rows'[m] = [rows[m] EXCEPT !.details = rows'[m].details]
               \/ Reports[rows'[m].details][m] # NoSide
<1>1. ASSUME TypeInv, [Next]_vars, publication = "DRAFT", NEW m \in Matches
      PROVE  Stands(m)
    <2>1. PICK r \in Rows : r = rows[m]
        BY <1>1 DEF TypeInv
    <2>2. CASE rows' = rows
        <3>1. r = [r EXCEPT !.details = r.details]
            BY DEF Rows
        <3> QED BY <2>1, <2>2, <3>1
    <2>3. CASE \E o \in Operators : job[o].bundle \in Bundles /\ Apply(o)
        <3>1. PICK o \in Operators, b \in Bundles : b = job[o].bundle /\ Apply(o)
            BY <2>3
        <3>2. CASE m \notin Fixture[b]
            <4>1. rows'[m] = rows[m]
                BY <1>1, <3>1, <3>2, AppliedRow
            <4>2. r = [r EXCEPT !.details = r.details]
                BY DEF Rows
            <4> QED BY <2>1, <4>1, <4>2
        <3>3. CASE m \in Fixture[b] /\ Reports[b][m] # NoSide
            <4>1. rows'[m] = RowAfter(b, m) /\ RowAfter(b, m).details = b
                BY <1>1, <3>1, <3>3, AppliedRow DEF RowAfter
            <4> QED BY <3>3, <4>1
        <3>4. CASE m \in Fixture[b] /\ Reports[b][m] = NoSide /\ rows[m].status \in Started
            <4>1. Preserved(b, m)
                BY <3>4 DEF Preserved
            <4>2. TeamsAfter(b, m) = [side \in Sides |-> r.team[side]]
                BY <2>1, <4>1 DEF TeamsAfter
            <4>3. TeamsAfter(b, m) = r.team
                BY <4>2 DEF Rows
            <4>4. RowAfter(b, m) = [details |-> b, status |-> r.status, quality |-> r.quality,
                                    winner |-> r.winner, team |-> r.team]
                BY <2>1, <3>4, <4>1, <4>3 DEF RowAfter
            <4>5. [r EXCEPT !.details = b] =
                      [details |-> b, status |-> r.status, quality |-> r.quality,
                       winner |-> r.winner, team |-> r.team]
                BY DEF Rows
            <4>6. rows'[m] = [r EXCEPT !.details = b]
                BY <1>1, <3>1, <3>4, <4>4, <4>5, AppliedRow
            <4>7. rows'[m].details = b
                BY <4>5, <4>6
            <4> QED BY <2>1, <4>6, <4>7
        <3> QED BY <3>2, <3>3, <3>4
    <2> QED BY <1>1, <2>2, <2>3, ImportWrites
        DEF Next, ReadEdition, PrintToken, AcceptToken, Publish, ReadStatus, Unpublish,
            StartMatch, FinishMatch, content, vars, importVars
<1>2. TypeInv /\ [Next]_vars => [publication = "DRAFT" => \A m \in Matches : Stands(m)]_vars
    BY <1>1
<1> QED BY <1>2, TypeInvariance, PTL DEF Spec, HiddenResultsStand

=============================================================================
