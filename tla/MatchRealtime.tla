---------------------------- MODULE MatchRealtime ----------------------------
(***************************************************************************)
(* From a committed revision of a match to the page that shows it          *)
(* (src/lib/public-match.ts, broadcasting.ts, socket-server.ts and         *)
(* src/hooks/useMatchSocket.ts): one match and one page, which may be       *)
(* served by different processes, as during a rolling deploy.              *)
(*                                                                         *)
(* A broadcast never carries what its caller knew.  It looks the match up, *)
(* reads what it sends, and looks the match up again before it emits; each *)
(* of these is an await during which other processes commit, publish or    *)
(* revoke.  Lookups that overlap share one promise, and so one read of the *)
(* database.  A task resumed by a promise runs before the process handles  *)
(* anything else.                                                          *)
(*                                                                         *)
(* Abstractions.  What a commit stores is named by its revision (in        *)
(* MatchRevision a score only changes under a newer one), so a payload is  *)
(* the revision of the row it was read from.  "score" stands for the       *)
(* score:update and match:status events, which carry the match row, "flow" *)
(* for the score flow, statistics and stat events, each read on its own.   *)
(* The edition's readiness and the match's capabilities are one flag.      *)
(* The hook's enabled flag is that of the rendering: a live page is only   *)
(* rendered enabled, a court page as the match was then, and nothing       *)
(* renders a mounted page anew, so the newest revision is never forgotten  *)
(* while what it belongs to is still shown.                                *)
(***************************************************************************)
EXTENDS Naturals

CONSTANTS
    Processes,      \* server processes, each with its worker
    Subscriptions,  \* handlers of match:subscribe that may be in progress
    FirstRevisions, \* Match.sourceUpdatedAt at the start, 0 for null
    MaxRevision,    \* bound on the revisions committed
    Disturbances,   \* what else happens, see Environment
    Nowhere         \* no process

ASSUME RealtimeAssumption ==
    /\ Processes \cap Subscriptions = {}
    /\ Nowhere \notin Processes
    /\ MaxRevision \in Nat
    /\ FirstRevisions \subseteq 0..MaxRevision
    /\ Disturbances \subseteq {"failure", "request", "commit", "close", "revocation"}

VARIABLES
    row,        \* what a lookup reads of the match
    lookup,     \* each process's promise: NoLookup, Waiting, or what was read
    task,       \* the broadcasts in progress
    joined,     \* whether the page's socket is in the match's room
    page        \* the state of useMatchSocket

vars == <<row, lookup, task, joined, page>>

\* A process stands for its worker, which handles one commit at a time.
Tasks == Processes \cup Subscriptions

\* In play, or completed: a completed row always has a public result (the
\* trigger cp_prepare_legacy_match_write).
Statuses == {"LIVE", "FINAL"}

Denied == [status |-> "NONE", rev |-> 0, public |-> FALSE]
Waiting == [status |-> "WAITING", rev |-> 0, public |-> FALSE]
NoLookup == [status |-> "IDLE", rev |-> 0, public |-> FALSE]

\* isPublicMatchLiveOrFinal, with the capability of the event.
Exposed(access) == access.public /\ access.status \in {"LIVE", "FINAL"}

\* An expected revision of null is not checked.
HasRevision(access, expected) == expected = 0 \/ access.rev = expected

NoTask == [pc |-> "idle", at |-> Nowhere, live |-> FALSE, expected |-> 0, content |-> 0,
           got |-> Denied]

NoPage == [at |-> Nowhere, latest |-> 0, score |-> 0]

Init ==
    /\ row \in [status : {"LIVE", "FINAL"}, rev : FirstRevisions, public : {TRUE}]
    /\ lookup = [p \in Processes |-> NoLookup]
    /\ task = [t \in Tasks |-> NoTask]
    /\ joined = FALSE
    /\ page = NoPage

At(t, label) == task[t].pc = label

Awaits == {"subscribe", "flush", "access", "emit", "flowAccess", "flowEmit"}

\* The promise the task waits for has been answered.
Resumed(t) == task[t].pc \in Awaits /\ task[t].got # Waiting

ProcessOf(t) == IF t \in Processes THEN t ELSE task[t].at

\* No task of p is ready to run: the process turns to its next event.
Turn(p) == \A t \in Tasks : Resumed(t) => ProcessOf(t) # p

\* resolvePublicMatchAccess: join the lookup in progress, or start one.
Asking(next) == [next EXCEPT !.got = Waiting]

AwaitAt(p, t, next) ==
    /\ task' = [task EXCEPT ![t] = Asking(next)]
    /\ lookup' = [lookup EXCEPT ![p] = IF @ = NoLookup THEN Waiting ELSE @]

Await(t, next) == AwaitAt(ProcessOf(t), t, next)

Goto(t, label) ==
    /\ task' = [task EXCEPT ![t].pc = label, ![t].got = Denied]
    /\ UNCHANGED lookup

Done(t) ==
    /\ task' = [task EXCEPT ![t] = NoTask]
    /\ UNCHANGED lookup

-----------------------------------------------------------------------------
(* The match and its lookups                                               *)

\* Any request of a process may look the match up.
RequestLookup(p) ==
    /\ Turn(p)
    /\ lookup[p] = NoLookup
    /\ lookup' = [lookup EXCEPT ![p] = Waiting]
    /\ UNCHANGED <<row, task, joined, page>>

ReadLookup(p) ==
    /\ lookup[p] = Waiting
    /\ lookup' = [lookup EXCEPT ![p] = row]
    /\ UNCHANGED <<row, task, joined, page>>

\* Every caller of the shared promise gets the same answer; a failure is one.
ResolveWith(p, access) ==
    /\ task' = [t \in Tasks |-> IF task[t].pc \in Awaits /\ ProcessOf(t) = p
                                THEN [task[t] EXCEPT !.got = access] ELSE task[t]]
    /\ lookup' = [lookup EXCEPT ![p] = NoLookup]
    /\ UNCHANGED <<row, joined, page>>

ResolveLookup(p) ==
    /\ Turn(p)
    /\ lookup[p] \notin {NoLookup, Waiting}
    /\ ResolveWith(p, lookup[p])

FailLookup(p) ==
    /\ Turn(p)
    /\ lookup[p] # NoLookup
    /\ ResolveWith(p, Denied)

\* A commit of a process that serves no page, or of the other feeds.
CommitElsewhere ==
    /\ row.rev < MaxRevision
    /\ \E status \in {"LIVE", "FINAL"} : row' = [row EXCEPT !.status = status, !.rev = @ + 1]
    /\ UNCHANGED <<lookup, task, joined, page>>

\* The match is marked as completed under the revision it has.
CompleteWithoutDetail ==
    /\ row.status = "LIVE"
    /\ row' = [row EXCEPT !.status = "FINAL"]
    /\ UNCHANGED <<lookup, task, joined, page>>

Revoke ==
    /\ row.public
    /\ row' = [row EXCEPT !.public = FALSE]
    /\ UNCHANGED <<lookup, task, joined, page>>

Publish ==
    /\ ~row.public
    /\ row' = [row EXCEPT !.public = TRUE]
    /\ UNCHANGED <<lookup, task, joined, page>>

-----------------------------------------------------------------------------
(* The page and its subscription                                           *)

\* A (re)connected page subscribes; what it shows and the newest revision it
\* has seen survive the reconnection.
Connect(p, t) ==
    /\ Turn(p)
    /\ page.at = Nowhere
    /\ At(t, "idle")
    /\ page' = [page EXCEPT !.at = p]
    /\ AwaitAt(p, t, [NoTask EXCEPT !.pc = "subscribe", !.at = p])
    /\ UNCHANGED <<row, joined>>

\* The page goes away; a subscription that is still being looked up sees it.
Disconnect ==
    /\ page.at # Nowhere
    /\ Turn(page.at)
    /\ page' = [page EXCEPT !.at = Nowhere]
    /\ joined' = FALSE
    /\ task' = [t \in Tasks |-> IF At(t, "subscribe")
                                THEN NoTask ELSE task[t]]
    /\ UNCHANGED <<row, lookup>>

\* The socket joins; a completed match is then sent whole, as the revision
\* that was looked up.
Subscribe(t) ==
    /\ At(t, "subscribe")
    /\ Resumed(t)
    /\ LET access == task[t].got IN
       /\ joined' = (joined \/ Exposed(access))
       /\ IF Exposed(access) /\ access.status = "FINAL"
          THEN Await(t, [task[t] EXCEPT !.pc = "access", !.expected = access.rev])
          ELSE Done(t)
    /\ UNCHANGED <<row, page>>

-----------------------------------------------------------------------------
(* The worker's broadcasts                                                 *)

\* A mutation: the live path does not look the match up before it broadcasts.
FirstLookupAlways(live) == "access"

\* The live path looks the match up once before it broadcasts, for nothing but
\* the wait: a lookup begun before the commit cannot outlast it.
FirstLookup(live) == IF live THEN "flush" ELSE "access"

\* A worker commits a live detail or a final one, and broadcasts it.
Commit(w) ==
    /\ Turn(w)
    /\ At(w, "idle")
    /\ row.rev < MaxRevision
    /\ \E live \in BOOLEAN :
         /\ row' = [row EXCEPT !.status = IF live THEN "LIVE" ELSE "FINAL", !.rev = @ + 1]
         /\ Await(w, [NoTask EXCEPT !.pc = FirstLookup(live), !.live = live,
                                    !.expected = row.rev + 1])
    /\ UNCHANGED <<joined, page>>

Flushed(t) ==
    /\ At(t, "flush")
    /\ Resumed(t)
    /\ Await(t, [task[t] EXCEPT !.pc = "access"])
    /\ UNCHANGED <<row, joined, page>>

\* Without access, a completion ends here and a live broadcast goes on.
GiveUpScore(t) ==
    IF task[t].live THEN Await(t, [task[t] EXCEPT !.pc = "flowAccess"]) ELSE Done(t)

\* publicAccessForBroadcast
Allowed(t) == Exposed(task[t].got) /\ HasRevision(task[t].got, task[t].expected)

CheckAccess(t) ==
    /\ At(t, "access")
    /\ Resumed(t)
    /\ IF Allowed(t) THEN Goto(t, "read") ELSE GiveUpScore(t)
    /\ UNCHANGED <<row, joined, page>>

\* A mutation: whatever row is found is sent.
AnyRow(t) == TRUE

\* The row that is sent must be the expected revision, and a completion's must
\* be completed.
SendableRow(t) ==
    /\ HasRevision(row, task[t].expected)
    /\ task[t].live \/ row.status # "LIVE"

ReadRow(t) ==
    /\ Turn(ProcessOf(t))
    /\ At(t, "read")
    /\ IF SendableRow(t)
       THEN Await(t, [task[t] EXCEPT !.pc = "emit", !.content = row.rev])
       ELSE GiveUpScore(t)
    /\ UNCHANGED <<row, joined, page>>

\* canEmit
CanEmit(t) == Exposed(task[t].got) /\ HasRevision(task[t].got, task[t].expected)

\* A mutation: whatever arrives is shown.
AcceptsAny(revision) == TRUE

\* acceptsRevision: unversioned events are shown until a versioned one was.
AcceptsRevision(revision) ==
    IF revision = 0 THEN page.latest = 0 ELSE revision >= page.latest

\* An event carries its payload and the revision of the last lookup.
Emit(t, part) ==
    LET revision == task[t].got.rev IN
    page' = IF joined /\ page.at = ProcessOf(t) /\ CanEmit(t) /\ AcceptsRevision(revision)
            THEN [page EXCEPT !.latest = revision,
                              !.score = IF part = "score" THEN task[t].content ELSE @]
            ELSE page

EmitScore(t) ==
    /\ At(t, "emit")
    /\ Resumed(t)
    /\ Emit(t, "score")
    /\ Await(t, [task[t] EXCEPT !.pc = "flowAccess", !.content = 0])
    /\ UNCHANGED <<row, joined>>

CheckFlowAccess(t) ==
    /\ At(t, "flowAccess")
    /\ Resumed(t)
    /\ IF Allowed(t) THEN Goto(t, "flowRead") ELSE Done(t)
    /\ UNCHANGED <<row, joined, page>>

\* The collection is sent as it is found: it has no revision of its own.
ReadFlow(t) ==
    /\ Turn(ProcessOf(t))
    /\ At(t, "flowRead")
    /\ Await(t, [task[t] EXCEPT !.pc = "flowEmit", !.content = row.rev])
    /\ UNCHANGED <<row, joined, page>>

EmitFlow(t) ==
    /\ At(t, "flowEmit")
    /\ Resumed(t)
    /\ Emit(t, "flow")
    /\ Done(t)
    /\ UNCHANGED <<row, joined>>

-----------------------------------------------------------------------------

\* A broadcast goes on.
Proceed(t) ==
    \/ Subscribe(t) \/ Flushed(t) \/ CheckAccess(t) \/ ReadRow(t) \/ EmitScore(t)
    \/ CheckFlowAccess(t) \/ ReadFlow(t) \/ EmitFlow(t)

Environment ==
    \/ "commit" \in Disturbances /\ CommitElsewhere
    \/ "close" \in Disturbances /\ CompleteWithoutDetail
    \/ "revocation" \in Disturbances /\ (Revoke \/ Publish)
    \/ "request" \in Disturbances /\ \E p \in Processes : RequestLookup(p)
    \/ "failure" \in Disturbances /\ \E p \in Processes : FailLookup(p)

Page ==
    \/ Disconnect
    \/ \E p \in Processes : \E t \in Subscriptions : Connect(p, t)

Next ==
    \/ \E p \in Processes : ReadLookup(p) \/ ResolveLookup(p)
    \/ \E p \in Processes : Commit(p)
    \/ \E t \in Tasks : Proceed(t)
    \/ Page
    \/ Environment

\* The database answers, and the process runs what is ready to run.
Fairness ==
    /\ \A p \in Processes : WF_vars(ReadLookup(p)) /\ WF_vars(ResolveLookup(p))
    /\ \A t \in Tasks : WF_vars(Proceed(t))

Spec == Init /\ [][Next]_vars /\ Fairness

-----------------------------------------------------------------------------
(* Properties                                                              *)

Revisions == 0..MaxRevision

Accesses == [status : Statuses, rev : Revisions, public : BOOLEAN]

TaskRecords ==
    [pc : Awaits \cup {"idle", "read", "flowRead"}, at : Processes \cup {Nowhere},
     live : BOOLEAN, expected : Revisions, content : Revisions,
     got : Accesses \cup {Denied, Waiting}]

Pages == [at : Processes \cup {Nowhere}, latest : Revisions, score : Revisions]

\* The state is of the declared shape (the promises of public-match.ts, the
\* awaits of broadcasting.ts and socket-server.ts, the state of the hook).
TypeOK ==
    /\ row \in Accesses
    /\ lookup \in [Processes -> Accesses \cup {NoLookup, Waiting}]
    /\ task \in [Tasks -> TaskRecords]
    /\ joined \in BOOLEAN
    /\ page \in Pages

\* The task's next step emits.
Emitting(t) == task[t].pc \in {"emit", "flowEmit"} /\ Resumed(t) /\ CanEmit(t)

\* A versioned event never carries data older than the revision it is labelled
\* with, and a score exactly that revision's, although the lookups before and
\* after the read may be shared with requests that began earlier
\* (broadcasting.ts, canEmit and withCanonicalRevision in socket-server.ts).
VersionedEventsAreCurrent ==
    \A t \in Tasks :
        Emitting(t) /\ task[t].expected # 0 =>
            /\ task[t].content >= task[t].got.rev
            /\ At(t, "emit") => task[t].content = task[t].got.rev

\* The score on the page never goes back to an earlier revision's, whichever
\* of the overlapping broadcasts, from the worker and from resubscriptions,
\* emits last (useMatchSocket.ts).
ScoreNeverGoesBack == [][page'.score >= page.score]_vars

\* What a broadcast with the right revision owes the room: the live update of
\* the worker, and the replay after a subscription, reach a page that stays in
\* the room unless a newer revision or a revocation overtakes them (worker.ts,
\* the broadcasts after a live commit; match:subscribe in socket-server.ts).
Announced(r) ==
    /\ joined
    /\ Exposed(row) /\ row.rev = r
    /\ lookup[page.at] = Waiting \/ Exposed(lookup[page.at])
    /\ \E t \in Tasks :
          /\ page.at = ProcessOf(t)
          /\ task[t].expected = r
          /\ task[t].live \/ t \in Subscriptions
          /\ task[t].pc \in {"flush", "access"} /\ ~Resumed(t)

BroadcastsReachTheRoom ==
    \A r \in Revisions \ {0} :
        Announced(r) ~> \/ page.score >= r
                        \/ ~joined \/ row.rev > r \/ ~Exposed(row)

=============================================================================
