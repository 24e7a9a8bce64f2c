--------------------------- MODULE ScopedDatabases ---------------------------
(***************************************************************************)
(* The verified access of one process to a database role of its own        *)
(* (lib/scoped-database-boundary.ts): before the role is used, a probe     *)
(* asks the database whether the role has its reviewed privileges and no   *)
(* others.  The verdict is shared by all that ask while it is valid; its   *)
(* callers neither pass forceRefresh nor empty the cache (the tests do the *)
(* latter), so no entry is replaced before it has expired.                 *)
(*                                                                         *)
(* The privileges are those of the catalogue, one of which an operator may *)
(* take from its reviewed state and put back.  Times are in units of the   *)
(* shortest delay that matters; timers are punctual.                       *)
(***************************************************************************)
EXTENDS Naturals

CONSTANTS
    Boundary,       \* "analytics" or "statsOperations"
    Timeout,        \* DATABASE_TIMEOUT_MS
    HealthyLife,    \* HEALTHY_CACHE_TTL_MS
    UnhealthyLife,  \* UNHEALTHY_CACHE_TTL_MS
    Horizon,        \* bound on the time
    None

ScopedDatabasesAssumption ==
    /\ Boundary \in {"analytics", "statsOperations"}
    /\ {Timeout, HealthyLife, UnhealthyLife, Horizon} \subseteq Nat \ {0}
    /\ Timeout < UnhealthyLife /\ UnhealthyLife < HealthyLife

VARIABLES
    now,
    target,     \* what the connection URL of the process names
    drifted,    \* the condition of the role that is not as reviewed, or None
    reachable,  \* the database answers in time
    entry,      \* of boundaryCache, with the probe behind its promise
    answer,     \* the last one that was given
    since       \* history: since when the role can or cannot be used

scopedVars == <<now, target, drifted, reachable, entry, answer, since>>

\* The URL of the reviewed role at the reviewed host, another one, or none.
Targets == {"reviewed", "other", "missing"}

TargetOk == target = "reviewed"

AnalyticsConditions ==
    {"identity", "attributes", "memberships", "schema usage", "read only", "exact surface",
     "no writes", "no sequences", "no functions", "no schema create", "statement timeout"}

OperationsConditions ==
    {"identity", "attributes", "memberships", "schema usage", "exact functions",
     "no relations", "no sequences", "no schema create", "statement timeout"}

Conditions ==
    IF Boundary = "analytics" THEN AnalyticsConditions ELSE OperationsConditions

IntactWith(drift) == drift \notin Conditions

UsableWith(drift, up) == TargetOk /\ IntactWith(drift) /\ up

Intact == IntactWith(drifted)

Usable == UsableWith(drifted, reachable)

Init ==
    /\ now = 0
    /\ target \in Targets
    /\ drifted \in {None, "exact surface"}
    /\ reachable \in BOOLEAN
    /\ entry = None
    /\ answer = None
    /\ since = [usable |-> 0, intact |-> 0]

-----------------------------------------------------------------------------
(* The role and the database                                               *)

Change(drift, up) ==
    /\ drifted' = drift
    /\ reachable' = up
    /\ since' = [usable |-> IF UsableWith(drift, up) = Usable THEN since.usable ELSE now,
                 intact |-> IF IntactWith(drift) = Intact THEN since.intact ELSE now]
    /\ entry' = IF entry # None /\ entry.pc # "settled" /\ ~up
              THEN [entry EXCEPT !.disturbed = TRUE] ELSE entry
    /\ UNCHANGED <<now, target, answer>>

\* One condition drifts, of this role or another, and is put right.
Drift(drift) == Change(IF drifted = None THEN drift ELSE None, reachable)

Interrupt == Change(drifted, ~reachable)

-----------------------------------------------------------------------------
(* The cached probe                                                        *)

Answers(ok) == answer' = [ok |-> ok, at |-> now]

\* A mutation: a verdict is kept for the same time whatever it says.
OneLife(ok) == HealthyLife

Life(ok) == IF ok THEN HealthyLife ELSE UnhealthyLife

IsValid == entry # None /\ entry.expiresAt > now

\* The entry's promise resolves for all that wait for it, and its life begins anew.
Settle(ok) ==
    /\ entry' = [entry EXCEPT !.pc = "settled", !.ok = ok, !.expiresAt = now + Life(ok)]
    /\ Answers(ok)

\* One that asks joins a valid entry, or replaces what there is.
Join ==
    /\ IsValid
    /\ IF entry.pc = "settled" THEN Answers(entry.ok) ELSE UNCHANGED answer
    /\ UNCHANGED entry

Probe(pc) ==
    [pc |-> pc, started |-> now, ok |-> FALSE, disturbed |-> ~reachable,
     expiresAt |-> now + UnhealthyLife]

\* A wrong target is refused without asking the database.
Start ==
    /\ ~IsValid
    /\ IF TargetOk THEN entry' = Probe("asking") /\ UNCHANGED answer
       ELSE entry' = Probe("settled") /\ Answers(FALSE)

Ask ==
    /\ Join \/ Start
    /\ UNCHANGED <<now, target, drifted, reachable, since>>

\* The query sees the catalogue at one instant.
Evaluate ==
    /\ entry # None /\ entry.pc = "asking" /\ reachable
    /\ entry' = [entry EXCEPT !.pc = "evaluated", !.ok = Intact]
    /\ UNCHANGED <<now, target, drifted, reachable, answer, since>>

Reply ==
    /\ entry # None /\ entry.pc = "evaluated" /\ reachable
    /\ Settle(entry.ok)
    /\ UNCHANGED <<now, target, drifted, reachable, since>>

\* The query fails, at once or by the timeout: no row, so not ok.
Fail ==
    /\ entry # None /\ entry.pc \in {"asking", "evaluated"} /\ entry.disturbed
    /\ Settle(FALSE)
    /\ UNCHANGED <<now, target, drifted, reachable, since>>

\* A probe takes no longer than its timeout.
Overdue == entry # None /\ entry.pc # "settled" /\ now = entry.started + Timeout

Tick ==
    /\ now < Horizon /\ ~Overdue
    /\ now' = now + 1
    /\ UNCHANGED <<target, drifted, reachable, entry, answer, since>>

Next ==
    \/ Interrupt
    \/ \E condition \in {"exact surface", "no relations"} : Drift(condition)
    \/ Ask \/ Evaluate \/ Reply \/ Fail \/ Tick

Spec == Init /\ [][Next]_scopedVars

-----------------------------------------------------------------------------
(* Properties                                                              *)

\* A drift of the privileges is noticed after a probe and the life of a good
\* verdict at most; the role is refused no longer than a probe and the life of
\* a bad one after all is well again.
VerdictsAreRecent ==
    answer # None /\ answer.at = now =>
        IF answer.ok THEN Intact \/ now - since.intact <= Timeout + HealthyLife
        ELSE ~Usable \/ now - since.usable <= Timeout + UnhealthyLife

=============================================================================
