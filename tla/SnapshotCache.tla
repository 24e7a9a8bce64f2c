---------------------------- MODULE SnapshotCache ----------------------------
(***************************************************************************)
(* The rankings and records of one process: a request reads the epoch,     *)
(* forms a key, and joins or starts the computation of that key (a         *)
(* flight), which answers from the cache or from several queries that see  *)
(* the database at different moments.                                      *)
(*                                                                         *)
(* A query's answer is represented by the commit that last changed the     *)
(* view it read.  A page of records may bring the editions it has listed   *)
(* itself; its request then begins at that listing.                        *)
(***************************************************************************)
EXTENDS AnalyticsEpoch, TLC

CONSTANTS
    Requests,   \* the requests, each served once
    Kinds       \* the questions they may ask

ASSUME KindsAssumption == Kinds \subseteq {"ranking", "power", "record"}

VARIABLES
    request,    \* what each request is waiting for, has read, or was answered
    flights,    \* inFlightSnapshots
    cache       \* the entries of Next's cache

vars == <<database, request, flights, cache>>

-----------------------------------------------------------------------------

Unread == -1
Nothing == [p \in Parts |-> Unread]

\* The queries behind each answer.
Needed(kind) ==
    CASE kind = "ranking"  -> {"facts", "people"}
      [] kind = "power"    -> {"matches", "teams"}
      [] kind = "record"   -> {"editions", "facts", "people"}
      [] kind = "editions" -> {"editions"}

\* Which answers a query waits for; those of team power are asked together.
Awaits(p) ==
    CASE p = "facts"  -> {"editions"}
      [] p = "people" -> {"editions", "facts"}
      [] OTHER        -> {}

Askable(kind, got) ==
    {p \in Needed(kind) :
        got[p] = Unread /\ \A q \in Awaits(p) \cap Needed(kind) : got[q] # Unread}

Complete(kind, got) == \A p \in Needed(kind) : got[p] # Unread

\* A mutation: a key that leaves out the epoch.
KeyAcrossEpochs(kind, at, editions) == [kind |-> kind, epoch |-> 0, editions |-> editions]

\* A mutation: a record's key that leaves out the editions.
KeyAcrossEditions(kind, at, editions) == [kind |-> kind, epoch |-> at, editions |-> Unread]

\* buildAnalyticsSnapshotCacheKey; the identity of a flight has the same parts.
Key(kind, at, editions) == [kind |-> kind, epoch |-> at, editions |-> editions]

\* The flight whose result a request waits for.
WaitsFor(q, f) ==
    \/ q.pc = "editions" /\ f.key = Key("editions", q.epoch, Unread)
    \/ q.pc = "waiting" /\ f.key = Key(q.kind, q.epoch, q.got["editions"])

\* A request before it begins, and one that ended with an error.
Idle == [pc |-> "idle", kind |-> "record", epoch |-> 0, got |-> Nothing, began |-> Nothing]
Failed == [Idle EXCEPT !.pc = "failed"]

-----------------------------------------------------------------------------
(* The request                                                             *)

Ask(r) ==
    /\ request[r].pc = "idle"
    /\ \E kind \in Kinds, listed \in BOOLEAN :
          /\ listed => kind = "record"
          /\ request' = [request EXCEPT ![r] =
                [pc    |-> "asked",
                 kind  |-> kind,
                 epoch |-> 0,
                 got   |-> IF listed THEN [Nothing EXCEPT !["editions"] = version["editions"]]
                                     ELSE Nothing,
                 began |-> version]]
    /\ UNCHANGED <<database, flights, cache>>

\* runAnalyticsSnapshotSingleFlight: join the flight of the key, or start it.
Join(r, pc, key) ==
    /\ request' = [request EXCEPT ![r].pc = pc]
    /\ flights' = IF \E f \in flights : f.key = key THEN flights
                  ELSE flights \cup {[key |-> key, pc |-> "lookup", got |-> request[r].got]}
    /\ UNCHANGED <<database, cache>>

\* No epoch, or a request that cannot be a key: computed for itself.
Bypass(r, got) ==
    /\ request' = [request EXCEPT ![r].pc = "direct", ![r].got = got]
    /\ UNCHANGED <<database, flights, cache>>

\* readAnalyticsCacheEpoch: the epoch, or none when it is missing or malformed.
ReadEpoch(r) ==
    /\ request[r].pc = "asked"
    /\ \/ Bypass(r, request[r].got)
       \/ /\ request' = [request EXCEPT ![r].pc = "stamped", ![r].epoch = epoch]
          /\ UNCHANGED <<database, flights, cache>>

\* The epoch has arrived; a record's key needs the editions first.
FormKey(r) ==
    LET q == request[r]
        unlisted == q.kind = "record" /\ q.got["editions"] = Unread
    IN
    /\ q.pc = "stamped"
    /\ \/ Bypass(r, q.got)
       \/ unlisted /\ Join(r, "editions", Key("editions", q.epoch, Unread))
       \/ ~unlisted /\ Join(r, "waiting", Key(q.kind, q.epoch, q.got["editions"]))

\* The editions have arrived; too many of them or an oversized key bypass the cache.
Continue(r) ==
    LET q == request[r] IN
    /\ q.pc = "keyed"
    /\ \/ Join(r, "waiting", Key(q.kind, q.epoch, q.got["editions"]))
       \/ Bypass(r, q.got)
       \/ Bypass(r, Nothing)

DirectRead(r) ==
    LET q == request[r] IN
    /\ q.pc = "direct"
    /\ \E p \in Askable(q.kind, q.got) :
          LET got == [q.got EXCEPT ![p] = version[p]] IN
          request' = [request EXCEPT ![r].got = got,
                         ![r].pc = IF Complete(q.kind, got) THEN "answered" ELSE "direct"]
    /\ UNCHANGED <<database, flights, cache>>

DirectFailure(r) ==
    /\ request[r].pc = "direct"
    /\ request' = [request EXCEPT ![r] = Failed]
    /\ UNCHANGED <<database, flights, cache>>

-----------------------------------------------------------------------------
(* The flight                                                              *)

\* A settled flight leaves the map and hands its value to all that wait for it.
Settle(f, got) ==
    /\ flights' = flights \ {f}
    /\ request' = [r \in Requests |->
          LET q == request[r] IN
          IF ~WaitsFor(q, f) THEN q
          ELSE IF q.pc = "editions"
               THEN [q EXCEPT !.pc = "keyed", !.got["editions"] = got["editions"]]
               ELSE [q EXCEPT !.pc = "answered", !.got = got]]
    /\ UNCHANGED database

Hit(f) ==
    /\ f.pc = "lookup"
    /\ \E entry \in cache : entry.key = f.key /\ Settle(f, entry.got)
    /\ UNCHANGED cache

Miss(f) ==
    /\ f.pc = "lookup"
    /\ \A entry \in cache : entry.key # f.key
    /\ flights' = (flights \ {f}) \cup {[f EXCEPT !.pc = "load"]}
    /\ UNCHANGED <<database, request, cache>>

Load(f) ==
    /\ f.pc = "load"
    /\ \E p \in Askable(f.key.kind, f.got) :
          flights' = (flights \ {f}) \cup {[f EXCEPT !.got[p] = version[p]]}
    /\ UNCHANGED <<database, request, cache>>

\* A value that is too large for the cache is handed over all the same.
Land(f) ==
    /\ f.pc = "load"
    /\ Complete(f.key.kind, f.got)
    /\ \/ cache' = {entry \in cache : entry.key # f.key} \cup {[key |-> f.key, got |-> f.got]}
       \/ f.key.kind # "editions" /\ UNCHANGED cache
    /\ Settle(f, f.got)

\* A query fails, and with it every request that waits.
Crash(f) ==
    /\ f.pc = "load"
    /\ ~Complete(f.key.kind, f.got)
    /\ flights' = flights \ {f}
    /\ request' = [r \in Requests |-> IF WaitsFor(request[r], f)
                                      THEN Failed ELSE request[r]]
    /\ UNCHANGED <<database, cache>>

\* An entry expires, is evicted, or its tag is revalidated.
Expire ==
    /\ \E entry \in cache : cache' = cache \ {entry}
    /\ UNCHANGED <<database, request, flights>>

-----------------------------------------------------------------------------

Init ==
    /\ DatabaseInit
    /\ request = [r \in Requests |-> Idle]
    /\ flights = {}
    /\ cache = {}

Transaction == Write /\ UNCHANGED <<request, flights, cache>>

Next ==
    \/ Transaction
    \/ \E r \in Requests :
          Ask(r) \/ ReadEpoch(r) \/ FormKey(r) \/ Continue(r) \/ DirectRead(r) \/ DirectFailure(r)
    \/ \E f \in flights : Hit(f) \/ Miss(f) \/ Load(f) \/ Land(f) \/ Crash(f)
    \/ Expire

Spec == Init /\ [][Next]_vars

-----------------------------------------------------------------------------
(* Properties                                                              *)

Known == -1 .. MaxCommits
RequestSet ==
    [pc : {"idle", "asked", "stamped", "editions", "keyed", "waiting", "direct", "answered", "failed"},
     kind : {"ranking", "power", "record"}, epoch : Nat,
     got : [Parts -> Known], began : [Parts -> Known]]
KeySet ==
    [kind : {"ranking", "power", "record", "editions"}, epoch : Nat, editions : Known]

\* The types of the tables, of the requests and of the two stores of answers.
TypeOK ==
    /\ DatabaseTypeOK
    /\ request \in [Requests -> RequestSet]
    /\ flights \subseteq [key : KeySet, pc : {"lookup", "load"}, got : [Parts -> Known]]
    /\ cache \subseteq [key : KeySet, got : [Parts -> Known]]

\* No transaction changes what an analytics view shows without advancing the
\* epoch: the conditions of the triggers cover everything the views read.
ViewsFollowEpoch == [][epoch' = epoch => views' = views]_vars

\* No ranking or record is older than its request: each part of an answer was
\* still current when the request began, or is newer, whatever was cached,
\* shared with an earlier request or changed during the computation.
AnswersAreCurrent ==
    \A r \in Requests :
        LET q == request[r] IN
        q.pc = "answered" => \A p \in Needed(q.kind) : q.got[p] >= q.began[p]

\* Of what is never looked at for itself.
Symmetry == Permutations(Values) \cup Permutations(Requests)

=============================================================================
