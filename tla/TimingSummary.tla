----------------------------- MODULE TimingSummary -----------------------------
(***************************************************************************)
(* The timing of server operations, from the measurement (server-timing.ts) *)
(* to the gate that decides whether enough of it is attributed to phases    *)
(* (scripts/summarize-server-timing.ts).                                    *)
(*                                                                         *)
(* The log is read byte by byte; how the bytes fall into chunks does not    *)
(* matter to the scanner, which keeps everything between them.  A byte here *)
(* is a carriage return, a line feed or a token: a whole logged event, or   *)
(* anything that is not one.  Durations are whole, so that rounding and its *)
(* tolerance play no part; quantiles are not modelled.                      *)
(***************************************************************************)
EXTENDS Integers, Sequences, FiniteSets, FiniteSetsExt

CONSTANTS
    CR, LF,         \* the two bytes that end a line
    Tokens,         \* what is logged: [event, group, outcome, duration, phases]
    MinSamples,     \* samples that a group needs
    MaxGroups,      \* MAX_TIMING_GROUPS, of each kind
    MaxPerGroup,    \* MAX_TIMING_SAMPLES_PER_GROUP
    MaxSamples,     \* MAX_TIMING_TOTAL_SAMPLES
    MaxLineBytes,   \* MAX_TIMING_LINE_BYTES
    MaxLines,       \* MAX_TIMING_INPUT_LINES
    MaxBytes        \* MAX_TIMING_INPUT_BYTES

\* What is logged of the parts of an operation; their group has their name in it.
PartEvents == {"phase", "query"}

TimingAssumption ==
    /\ CR # LF /\ Tokens \cap {CR, LF} = {}
    /\ \A t \in Tokens :
          /\ t.event \in {"operation", "other", "malformed"} \cup PartEvents
          /\ t.outcome \in {"success", "error", "missing"}
          /\ t.duration \in Nat
          /\ IsFiniteSet(t.phases)
          /\ \A p \in t.phases : p.started \in Nat /\ p.ended \in Nat /\ p.started <= p.ended
    /\ {MinSamples, MaxGroups, MaxPerGroup, MaxSamples, MaxLineBytes, MaxLines, MaxBytes}
          \subseteq Nat \ {0}
    /\ MinSamples <= MaxPerGroup

VARIABLES
    read,       \* the bytes so far (history)
    scan,       \* the pending line, a pending CR, the lines emitted, the state
    sums,       \* the counters of the summary
    samples     \* the samples of each kind, by group

timingVars == <<read, scan, sums, samples>>

-----------------------------------------------------------------------------
(* The measurement                                                         *)

\* A phase is noted when it ends; the operation is logged when it ends, with
\* the phases noted so far.
Noted(t) == {p \in t.phases : p.ended <= t.duration}

Earlier(p, q) == p.started < q.started \/ (p.started = q.started /\ p.ended <= q.ended)

First(phases) == CHOOSE p \in phases : \A q \in phases : Earlier(p, q)

\* A mutation: the intervals are added up.
AddUp(union, p) == [union EXCEPT !.total = @ + p.ended - p.started]

\* The union of intervals that come in the order of their starts: the one that
\* grows, and the total of those before it.
Extend(union, p) ==
    IF union.ended <= union.started
    THEN [union EXCEPT !.started = p.started, !.ended = p.ended]
    ELSE IF p.started <= union.ended
         THEN [union EXCEPT !.ended = IF p.ended > @ THEN p.ended ELSE @]
         ELSE [started |-> p.started, ended |-> p.ended,
               total |-> union.total + union.ended - union.started]

\* After the n earliest phases.
Union(phases) ==
    LET after[n \in 0..Cardinality(phases)] ==
            IF n = 0 THEN [rest |-> phases, union |-> [started |-> 0, ended |-> 0, total |-> 0]]
            ELSE LET rest == after[n - 1].rest
                 IN  [rest |-> rest \ {First(rest)},
                      union |-> Extend(after[n - 1].union, First(rest))]
    IN  after[Cardinality(phases)].union

Attributed(t) ==
    LET union == Union(Noted(t))
        length == union.total + IF union.ended > union.started
                                THEN union.ended - union.started ELSE 0
    IN IF length < t.duration THEN length ELSE t.duration

-----------------------------------------------------------------------------
(* The summary                                                             *)

NoSamples == [group \in {t.group : t \in Tokens} |-> 0]

Init ==
    /\ read = <<>>
    /\ scan = [line |-> <<>>, cr |-> FALSE, lines |-> 0, state |-> "reading"]
    /\ sums = [parsed |-> 0, valid |-> 0, success |-> 0, error |-> 0, invalid |-> 0,
               ignored |-> 0, outcomeInvalid |-> 0, coverageInvalid |-> 0, stored |-> 0]
    /\ samples = [all |-> NoSamples, successful |-> NoSamples, covered |-> NoSamples,
                  attributed |-> NoSamples, parts |-> [kind \in PartEvents |-> NoSamples]]

\* What is added to the counters and the samples, or the limit that is passed.
Result(added, kept) == [sums |-> added, samples |-> kept, limit |-> FALSE]
Limit == [sums |-> sums, samples |-> samples, limit |-> TRUE]

Invalid(s) == [s EXCEPT !.invalid = @ + 1]
IsFull(kept, group) ==
    kept[group] = 0 /\ Cardinality({g \in DOMAIN kept : kept[g] > 0}) >= MaxGroups

\* A sample more than its group, or all of them, may have.
IsTooMuch(kept, group, stored) == kept[group] >= MaxPerGroup \/ stored > MaxSamples

\* readOperationCoverage: without a duration there is no ratio.
HasCoverage(t) == t.duration > 0
WellAttributed(t) == 100 * Attributed(t) >= 95 * t.duration

\* An operation is a sample of its group, one of the successful ones, and one
\* of the coverage: each counts against the limit of the samples.  A group that has
\* room among all the operations has it among the successful ones.
AddOperation(s, t) ==
    LET valid == [s EXCEPT !.valid = @ + 1, !.stored = @ + 1]
        all == [samples EXCEPT !.all[t.group] = @ + 1]
        success == [valid EXCEPT !.success = @ + 1, !.stored = @ + 1]
        successful == [all EXCEPT !.successful[t.group] = @ + 1]
        covered == [successful EXCEPT !.covered[t.group] = @ + 1,
                                      !.attributed[t.group] = @ + IF WellAttributed(t) THEN 1 ELSE 0]
    IN IF IsFull(samples.all, t.group) THEN Result(Invalid(s), samples)
       ELSE IF IsTooMuch(samples.all, t.group, valid.stored) THEN Limit
       ELSE IF t.outcome = "missing"
       THEN Result(Invalid([valid EXCEPT !.outcomeInvalid = @ + 1]), all)
       ELSE IF t.outcome = "error" THEN Result([valid EXCEPT !.error = @ + 1], all)
       ELSE IF success.stored > MaxSamples THEN Limit
       ELSE IF ~HasCoverage(t)
       THEN Result([success EXCEPT !.coverageInvalid = @ + 1], successful)
       ELSE IF success.stored + 1 > MaxSamples THEN Limit
       ELSE Result([success EXCEPT !.stored = @ + 1], covered)

\* A phase or a query: a sample that the gate does not look at, but whose line
\* is invalid when there is no room for its group.
AddOther(s, t) ==
    LET kept == samples.parts[t.event]
        valid == [s EXCEPT !.valid = @ + 1, !.stored = @ + 1]
    IN IF IsFull(kept, t.group) THEN Result(Invalid(s), samples)
       ELSE IF IsTooMuch(kept, t.group, valid.stored) THEN Limit
       ELSE Result(valid, [samples EXCEPT !.parts[t.event][t.group] = @ + 1])

\* The tokens of a line, and what it says if it has one.
Marks(line) == {i \in DOMAIN line : line[i] \in Tokens}
Said(line) == line[CHOOSE i \in Marks(line) : TRUE]

\* More than one event on a line is not JSON.
IsJson(line) == \A i, j \in Marks(line) : i = j

\* A line with nothing but white space is not parsed.
AddLine(line) ==
    LET s == [sums EXCEPT !.parsed = @ + 1]
    IN IF scan.lines + 1 > MaxLines THEN Limit
       ELSE IF Marks(line) = {} THEN Result(sums, samples)
       ELSE IF ~IsJson(line) \/ Said(line).event = "malformed" THEN Result(Invalid(s), samples)
       ELSE IF Said(line).event = "other" THEN Result([s EXCEPT !.ignored = @ + 1], samples)
       ELSE IF Said(line).event \in PartEvents THEN AddOther(s, Said(line))
       ELSE AddOperation(s, Said(line))

-----------------------------------------------------------------------------
(* The scanner                                                             *)

Stop(state) ==
    /\ scan' = [scan EXCEPT !.state = state]
    /\ UNCHANGED <<sums, samples>>

Emit(line, state) ==
    LET result == AddLine(line)
    IN /\ scan' = [line |-> <<>>, cr |-> FALSE, lines |-> scan.lines + 1,
                   state |-> IF result.limit THEN "limit" ELSE state]
       /\ sums' = result.sums
       /\ samples' = result.samples

Keep(line, cr) ==
    IF Len(line) > MaxLineBytes THEN Stop("limit")
    ELSE scan' = [scan EXCEPT !.line = line, !.cr = cr] /\ UNCHANGED <<sums, samples>>

\* A carriage return is kept back: it belongs to the line unless a line feed
\* follows.
Pending == IF scan.cr THEN Append(scan.line, CR) ELSE scan.line

Byte(byte) ==
    /\ scan.state = "reading"
    /\ read' = Append(read, byte)
    /\ IF Len(read') > MaxBytes THEN Stop("limit")
       ELSE IF byte = LF THEN Emit(scan.line, "reading")
       ELSE IF byte = CR THEN Keep(Pending, TRUE)
       ELSE Keep(Append(Pending, byte), FALSE)

\* A mutation: what follows the last line feed is no line.
DropLine == Stop("done")

\* The last line may lack its line feed.
LastLine == IF Pending = <<>> THEN Stop("done") ELSE Emit(Pending, "done")

EndOfInput ==
    /\ scan.state = "reading"
    /\ UNCHANGED read
    /\ IF Len(Pending) > MaxLineBytes THEN Stop("limit") ELSE LastLine

\* The source fails: there is no summary.
SourceFails ==
    /\ scan.state = "reading"
    /\ UNCHANGED read
    /\ Stop("error")

Next == (\E byte \in Tokens \cup {CR, LF} : Byte(byte)) \/ EndOfInput \/ SourceFails

Spec == Init /\ [][Next]_timingVars

-----------------------------------------------------------------------------
(* The gate                                                                *)

GateIsSatisfied ==
    LET of(kept) == {g \in DOMAIN kept : kept[g] > 0}
    IN /\ scan.state = "done"
       /\ sums.invalid = 0 /\ sums.outcomeInvalid = 0 /\ sums.coverageInvalid = 0
       /\ sums.success >= MinSamples
       /\ of(samples.successful) # {} /\ of(samples.covered) # {}
       /\ \A g \in of(samples.successful) : samples.successful[g] >= MinSamples
       /\ \A g \in of(samples.covered) :
            /\ samples.covered[g] >= MinSamples
            /\ 100 * samples.attributed[g] >= 95 * samples.covered[g]

(* The lines of the input, by the positions of the line feeds: a carriage   *)
(* return before one is not of the line.                                   *)
Feeds == {0} \cup {i \in DOMAIN read : read[i] = LF}

LineAfter(i) ==
    LET ends == {j \in Feeds : j > i}
        last == IF ends = {} THEN Len(read) ELSE Min(ends) - 1
        cut == IF ends # {} /\ last > i /\ read[last] = CR THEN last - 1 ELSE last
    IN SubSeq(read, i + 1, cut)

\* The positions before the lines that say something, and before those of a group
\* that succeeded.
Spoken == {i \in Feeds : Marks(LineAfter(i)) # {}}

Succeeded(g) ==
    {i \in Spoken : LET t == Said(LineAfter(i))
                    IN  t.event = "operation" /\ t.outcome = "success" /\ t.group = g}

(* A summary accounts for every line that is not blank, the last one with   *)
(* or without its line feed, wherever carriage returns are: it is valid,    *)
(* invalid or ignored, and only an operation whose outcome is unknown is    *)
(* both valid and invalid (scanTimingJsonl, addLine).                       *)
EveryLineIsCounted ==
    scan.state = "done" =>
      /\ sums.parsed = Cardinality(Spoken)
      /\ sums.valid + sums.invalid + sums.ignored = sums.parsed + sums.outcomeInvalid
      /\ sums.valid >= sums.success + sums.error

Busy(t) ==
    Cardinality({tick \in 0..t.duration - 1 :
                   \E p \in t.phases : p.started <= tick /\ tick < p.ended})

(* The gate is satisfied only by a log in which every operation that        *)
(* succeeded spent its time in phases, but for one in twenty: phases that   *)
(* overlap count once (phaseCoverage, isServerTimingCoverageGateSatisfied). *)
GateIsEarned ==
    GateIsSatisfied =>
      LET busy(i) == LET t == Said(LineAfter(i)) IN 100 * Busy(t) >= 95 * t.duration
      IN \A g \in DOMAIN NoSamples : Succeeded(g) # {} =>
           /\ Cardinality(Succeeded(g)) >= MinSamples
           /\ 100 * Cardinality({i \in Succeeded(g) : busy(i)}) >= 95 * Cardinality(Succeeded(g))

=============================================================================
