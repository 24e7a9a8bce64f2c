---------------------------- MODULE StatQuestions ----------------------------
(***************************************************************************)
(* Ask CentrePass (app/api/stats/query/route.ts, lib/stat-query): a        *)
(* question is checked, counted against its client's limit in the          *)
(* database, parsed, and answered from the process's cache of results or   *)
(* by a query, within a time limit; what came of it is recorded.           *)
(*                                                                         *)
(* A question is what the parser finds in it: words of intent, entities, a *)
(* metric, and the scopes it asks to keep to.  The answer of a query is    *)
(* represented by the analytics epoch it saw, which changes with the data. *)
(***************************************************************************)
EXTENDS Naturals, Sequences, FiniteSets

CONSTANTS
    Requests,       \* to one process
    Clients,
    Questions,      \* that may be asked
    Limit,          \* of reservations by a client in a minute
    MaxMinutes,     \* bound on the minutes that pass
    MaxCommits,     \* bound on the changes of the data
    None

Scopes == {"last n", "date range", "stage", "opponent"}

Kinds == {"PLAYER", "TEAM"}     \* of an entity, and of the subject

Intents == {"LOOKUP", "LEADERBOARD", "COMPARISON", "RECORD"}

StatQuestionsAssumption ==
    /\ IsFiniteSet(Requests) /\ IsFiniteSet(Clients)
    /\ Limit \in Nat \ {0} /\ MaxMinutes \in Nat /\ MaxCommits \in Nat
    /\ \A q \in Questions :
         q.intent \in Intents /\ q.scopes \subseteq Scopes /\ q.entities \in Seq(Kinds)

VARIABLES
    epoch,      \* of the data
    minute,     \* of the database's clock
    buckets,    \* query_rate_limit_bucket: the reservations of this minute
    cache,      \* resultCache
    request,
    telemetry,  \* the rows written for each request
    granted     \* history: the reservations by client and minute

statVars == <<epoch, minute, buckets, cache, request, telemetry, granted>>

-----------------------------------------------------------------------------
(* The parser                                                              *)

Players(q) == SelectSeq(q.entities, LAMBDA kind : kind = "PLAYER")

Subject(q) ==
    CASE q.intent = "COMPARISON" -> "PLAYER"
      [] q.intent # "COMPARISON" /\ q.entities # <<>> -> Head(q.entities)
      [] OTHER -> IF q.teams THEN "TEAM" ELSE "PLAYER"

\* The first window wins; an opponent is looked for by lookups only.
Kept(q) ==
    {scope \in q.scopes :
        /\ scope = "date range" => "last n" \notin q.scopes
        /\ scope = "opponent" => q.intent = "LOOKUP"}

SpecOf(q) == [intent |-> q.intent, subject |-> Subject(q), scopes |-> Kept(q)]

NeedsClarification(q) ==
    \/ ~q.edition
    \/ q.metric = None /\ (q.vague \/ q.intent # "COMPARISON")
    \/ /\ q.metric # "unsupported"
       /\ \/ q.intent = "LOOKUP" /\ q.entities = <<>>
          \/ q.intent = "COMPARISON" /\ Len(Players(q)) < 2

Unsupported(q) ==
    \/ q.metric = "unsupported"
    \/ q.intent \in {"COMPARISON", "RECORD"} /\ q.scopes \cap {"date range", "stage"} # {}
    \/ Subject(q) = "TEAM" /\ Kept(q) # {}

\* A mutation: a record may have a window.
RecordsOfAnyWindow(spec) ==
    /\ spec.subject = "TEAM" => spec.intent # "COMPARISON" /\ spec.scopes = {}
    /\ spec.intent = "COMPARISON" => spec.scopes \cap {"date range", "stage", "opponent"} = {}

IsValid(spec) ==
    /\ spec.subject = "TEAM" => spec.intent # "COMPARISON" /\ spec.scopes = {}
    /\ spec.intent = "COMPARISON" => spec.scopes \cap {"date range", "stage", "opponent"} = {}
    /\ spec.intent = "RECORD" => spec.scopes = {}

Parse(q) ==
    CASE NeedsClarification(q) -> [status |-> "NEEDS_CLARIFICATION", spec |-> None]
      [] ~NeedsClarification(q) /\ (Unsupported(q) \/ ~IsValid(SpecOf(q)) \/ ~q.bounded) ->
            [status |-> "UNSUPPORTED", spec |-> None]
      [] OTHER -> [status |-> "READY", spec |-> SpecOf(q)]

\* The scopes that the executor of a specification passes on.
Applied(spec) ==
    CASE spec.intent = "LOOKUP" /\ spec.subject = "PLAYER" -> Scopes
      [] spec.intent = "LEADERBOARD" /\ spec.subject = "PLAYER" -> Scopes \ {"opponent"}
      [] spec.intent = "COMPARISON" -> {"last n"}
      [] OTHER -> {}

-----------------------------------------------------------------------------

NoRequest ==
    [pc |-> "idle", client |-> None, question |-> None, spec |-> None, key |-> None,
     began |-> 0, read |-> None, status |-> None, answer |-> None]

Init ==
    /\ epoch = 0
    /\ minute = 0
    /\ buckets = [c \in Clients |-> 0]
    /\ cache = {}
    /\ request = [r \in Requests |-> NoRequest]
    /\ telemetry = [r \in Requests |-> <<>>]
    /\ granted = [c \in Clients |-> [m \in 0..MaxMinutes |-> 0]]

Commit ==
    /\ epoch < MaxCommits
    /\ epoch' = epoch + 1
    /\ UNCHANGED <<minute, buckets, cache, request, telemetry, granted>>

PassMinute ==
    /\ minute < MaxMinutes
    /\ minute' = minute + 1
    /\ buckets' = [c \in Clients |-> 0]
    /\ UNCHANGED <<epoch, cache, request, telemetry, granted>>

\* An entry lives for a minute, and the oldest makes room for a new one.
Expire ==
    /\ \E e \in cache : cache' = cache \ {e}
    /\ UNCHANGED <<epoch, minute, buckets, request, telemetry, granted>>

Update(r, record) == request' = [request EXCEPT ![r] = record]

Only(r, record) ==
    /\ Update(r, record)
    /\ UNCHANGED <<epoch, minute, buckets, cache, telemetry, granted>>

\* The response, with what is recorded of it: written, or not, and never twice.
Ends(r, record, status) ==
    /\ Update(r, [record EXCEPT !.pc = "done", !.status = status])
    /\ \/ telemetry' = [telemetry EXCEPT ![r] = Append(@, status)]
       \/ UNCHANGED telemetry
    /\ UNCHANGED <<epoch, minute, buckets, granted>>

\* A question that is refused as it stands never reaches the database.
Ask(r, c, q) ==
    /\ request[r].pc = "idle"
    /\ Only(r, [NoRequest EXCEPT !.pc = IF q.allowed THEN "asked" ELSE "done", !.client = c,
                  !.question = q, !.began = epoch,
                  !.status = IF q.allowed THEN None ELSE "REFUSED"])

\* Both boundaries are verified.
Verify(r) ==
    /\ request[r].pc = "asked"
    /\ Only(r, [request[r] EXCEPT !.pc = "verified"])

\* reserve_stat_query_rate_limit: counted in one statement.
Reserve(r) ==
    LET c == request[r].client IN
    /\ request[r].pc = "verified"
    /\ IF buckets[c] < Limit
       THEN /\ buckets' = [buckets EXCEPT ![c] = @ + 1]
            /\ granted' = [granted EXCEPT ![c][minute] = @ + 1]
            /\ Update(r, [request[r] EXCEPT !.pc = "reserved"])
       ELSE /\ Update(r, [request[r] EXCEPT !.pc = "done", !.status = "RATE_LIMITED"])
            /\ UNCHANGED <<buckets, granted>>
    /\ UNCHANGED <<epoch, minute, cache, telemetry>>

ParseQuestion(r) ==
    LET parsed == Parse(request[r].question) IN
    /\ request[r].pc = "reserved"
    /\ IF parsed.status = "READY"
       THEN Only(r, [request[r] EXCEPT !.pc = "parsed", !.spec = parsed.spec])
       ELSE Ends(r, request[r], parsed.status) /\ UNCHANGED cache

CacheKey(spec, revision) == [spec |-> spec, revision |-> revision]

ReadRevision(r) ==
    /\ request[r].pc = "parsed"
    /\ Only(r, [request[r] EXCEPT !.pc = "keyed", !.key = CacheKey(request[r].spec, epoch)])

Cached(key) == {e \in cache : e.key = key}

Hit(r) ==
    /\ request[r].pc = "keyed"
    /\ \E e \in Cached(request[r].key) :
          Ends(r, [request[r] EXCEPT !.answer = e.value], "READY")
    /\ UNCHANGED cache

Miss(r) ==
    /\ request[r].pc = "keyed" /\ Cached(request[r].key) = {}
    /\ Only(r, [request[r] EXCEPT !.pc = "executing"])

\* The queries see the data of this instant or a later one.
Query(r) ==
    /\ request[r].pc = "executing"
    /\ Only(r, [request[r] EXCEPT !.pc = "read", !.read = epoch])

\* The result replaces what another request has put there meanwhile.
Complete(r) ==
    LET q == request[r] IN
    /\ q.pc = "read"
    /\ cache' = (cache \ Cached(q.key)) \cup {[key |-> q.key, value |-> q.read]}
    /\ Ends(r, [q EXCEPT !.answer = q.read], "READY")

\* The time limit: the queries go on, and nobody takes their result.
TimeOut(r) ==
    /\ request[r].pc \in {"executing", "read"}
    /\ Ends(r, request[r], "QUERY_TIMEOUT")
    /\ UNCHANGED cache

\* A boundary, the secret, or the database fails: recorded once there is a parse.
Unavailable(r) ==
    /\ \/ /\ request[r].pc \in {"asked", "verified", "reserved"}
          /\ Only(r, [request[r] EXCEPT !.pc = "done", !.status = "QUERY_UNAVAILABLE"])
       \/ /\ request[r].pc \in {"parsed", "keyed", "executing", "read"}
          /\ Ends(r, request[r], "QUERY_UNAVAILABLE")
          /\ UNCHANGED cache

Next ==
    \/ Commit \/ PassMinute \/ Expire
    \/ \E r \in Requests :
          \/ \E c \in Clients, q \in Questions : Ask(r, c, q)
          \/ Verify(r) \/ Reserve(r) \/ ParseQuestion(r) \/ ReadRevision(r) \/ Hit(r)
          \/ Miss(r) \/ Query(r) \/ Complete(r) \/ TimeOut(r) \/ Unavailable(r)

Spec == Init /\ [][Next]_statVars

-----------------------------------------------------------------------------
(* Properties                                                              *)

\* An answer is never of data older than its question, though the cache knows
\* of no change (cacheKey, analyticsRevision).
AnswersAreCurrent ==
    \A r \in Requests : request[r].answer # None => request[r].answer >= request[r].began

\* No scope that a specification states is left out of its query
\* (validateQuerySpec, executeQuerySpec).
ScopesAreApplied ==
    \A r \in Requests : request[r].spec # None =>
        request[r].spec.scopes \subseteq Applied(request[r].spec)

\* No more questions of a client are parsed in a minute than its limit
\* (reserve_stat_query_rate_limit), and what is recorded of one is its answer.
QuestionsAreCounted ==
    /\ \A c \in Clients : \A m \in DOMAIN granted[c] : granted[c][m] <= Limit
    /\ \A r \in Requests : telemetry[r] \in {<<>>, <<request[r].status>>}

AnswersAreEarned == AnswersAreCurrent /\ ScopesAreApplied /\ QuestionsAreCounted

=============================================================================
