-------------------------- MODULE ProductionGuard --------------------------
(***************************************************************************)
(* Which database an operator's command reaches: the wrapper through which *)
(* the Glasgow commands run on production and the evidence it leaves       *)
(* (scripts/production-glasgow.ts), the check that each command makes      *)
(* before it touches a database (scripts/lib/glasgow-production-guard.ts), *)
(* the check of the connection URLs (scripts/production-target-guard.ts),  *)
(* queries through psql (scripts/lib/production-psql.ts) and the checks of *)
(* the tools for a preview (scripts/lib/preview-database-target.ts,        *)
(* scripts/reset-glasgow-2026-preview.ts).                                 *)
(*                                                                         *)
(* An environment is that of the shell a command is started from, and may  *)
(* be another at each start.  A URL is of a Supabase endpoint: direct,     *)
(* named for its project, or a pooler of a region, which routes by the     *)
(* user's suffix; params are the variables for which its parameters pass.  *)
(* Evidence is read with its owner and its mode as the wrapper left them,  *)
(* a nonce is the run's own, a process that has ended is nobody's parent,  *)
(* and the host's clock may be set to any time.                            *)
(***************************************************************************)
EXTENDS Integers, FiniteSets

CONSTANTS
    Approved,       \* APPROVED_PRODUCTION_PROJECT_REF
    Commands,       \* [script, glasgow, flags], as typed
    Environments,   \* of the shells: [declared, expected, rejected] and the four URLs
    PreviewShells,  \* of the preview tools: also [quiet, preview, production]
    PsqlShells,     \* of psql: [service, sole, private, entry, password, address, ...]
                    \* (those of a preview have no address, which would go first)
    Runs,           \* runs of the wrapper, each a process
    Files,          \* evidence files
    MaxAge,         \* MAX_EVIDENCE_AGE_MS, in ticks
    MaxSkew,        \* MAX_FUTURE_SKEW_MS
    Horizon,        \* the clock's bound
    None

VARIABLES
    clock,
    evidence,       \* evidence[f]: what a run writes there (whole: has written), or None
    run,            \* run[r]: the wrapper and the command it starts (alone: without it)
    last            \* history: the last thing done to a database, by whom and where

vars == <<clock, evidence, run, last>>

-----------------------------------------------------------------------------
(* Connection URLs                                                         *)

Direct(url) == url.host = "direct"

\* The project that a connection reaches, and what the guards read off the URL.
RoutedRef(url) == IF Direct(url) THEN url.hostRef ELSE url.userRef
AllRefs(url) == ((IF Direct(url) THEN {url.hostRef} ELSE {}) \cup {url.userRef}) \ {None}

PortFor(variable) == IF variable = "DIRECT_URL" THEN 5432 ELSE 6543

RoleFor(variable) ==
    CASE variable = "ANALYTICS_DATABASE_URL" -> "centrepass_analytics"
      [] variable = "STATS_OPERATIONS_DATABASE_URL" -> "centrepass_stats_operations"
      [] OTHER -> "postgres"

\* A role of its own has no direct endpoint; a pooler's user names the project.
UserIsRouted(variable, url, project) ==
    /\ url.role = RoleFor(variable)
    /\ Direct(url) => url.userRef = None /\ RoleFor(variable) = "postgres"
    /\ ~Direct(url) => url.userRef = project

Resolves(url, project, rejected) ==
    /\ rejected \notin AllRefs(url)
    /\ RoutedRef(url) = project
    /\ AllRefs(url) \subseteq {project}

\* verify-full, and the pool that a variable must have.
ParametersReviewed(variable, url) == variable \in url.params

ValidUrl(variable, url, project, rejected) ==
    /\ project # rejected
    /\ Resolves(url, project, rejected)
    /\ url.port = PortFor(variable)
    /\ UserIsRouted(variable, url, project)
    /\ ParametersReviewed(variable, url)

OneRegion(urls) == Cardinality({u.region : u \in {v \in urls : ~Direct(v)}}) <= 1

TargetsVerified(env) ==
    /\ env.expected # None /\ env.rejected # None /\ env.expected # env.rejected
    /\ ValidUrl("DATABASE_URL", env.database, env.expected, env.rejected)
    /\ ValidUrl("DIRECT_URL", env.direct, env.expected, env.rejected)
    /\ OneRegion({env.database, env.direct})

\* With includeScoped.
ScopedTargetsVerified(env) ==
    /\ TargetsVerified(env)
    /\ None \notin {env.analytics, env.operations}
    /\ ValidUrl("ANALYTICS_DATABASE_URL", env.analytics, env.expected, env.rejected)
    /\ ValidUrl("STATS_OPERATIONS_DATABASE_URL", env.operations, env.expected, env.rejected)
    /\ OneRegion({env.database, env.direct, env.analytics, env.operations})

-----------------------------------------------------------------------------
(* Commands                                                                *)

\* What the wrapper lets pass: exactly one of the modes of its usage.
Modes(script) ==
    CASE script = "prepare" -> {{}}
      [] script = "foundation" -> {{}, {"record"}, {"apply"}}
      [] script = "results" -> {{}, {"record"}, {"apply", "confirm"}}
      [] script = "publish" -> {{"dry"}, {"apply", "confirm"}}
      [] script = "unpublish" -> {{"confirm"}}

ExactMode(c) == c.flags \in Modes(c.script) /\ c.glasgow

WrapperAction(c) ==
    CASE c.script = "prepare" -> <<"prepare">>
      [] c.script = "unpublish" -> <<"unpublish", "apply">>
      [] c.script = "publish" -> <<"publish", IF "dry" \in c.flags THEN "dry-run" ELSE "apply">>
      [] OTHER -> <<c.script, IF "record" \in c.flags THEN "record-preview"
                              ELSE IF "apply" \in c.flags THEN "apply" ELSE "preview">>

\* The arguments that a script takes when it is started by itself.
FoundationTakes(flags) == Cardinality(flags \cap {"record", "apply", "offline"}) <= 1
ResultsTakes(flags) ==
    /\ ~({"record", "apply"} \subseteq flags)
    /\ "apply" \in flags <=> "confirm" \in flags
PublishTakes(flags) ==
    /\ "dry" \in flags <=> "apply" \notin flags
    /\ "apply" \in flags => "confirm" \in flags

Takes(c) ==
    CASE c.script = "foundation" -> FoundationTakes(c.flags)
      [] c.script = "results" -> ResultsTakes(c.flags)
      [] c.script = "publish" -> PublishTakes(c.flags)
      [] c.script = "unpublish" -> "confirm" \in c.flags
      [] OTHER -> TRUE

\* The action that a script asks leave for.
FoundationAction(flags) ==
    <<"foundation", IF "record" \in flags THEN "record-preview"
                    ELSE IF "apply" \in flags THEN "apply" ELSE "preview">>
ResultsAction(flags) ==
    <<"results", IF "record" \in flags THEN "record-preview"
                 ELSE IF "apply" \in flags THEN "apply" ELSE "preview">>
PublishAction(flags) == <<"publish", IF "apply" \in flags THEN "apply" ELSE "dry-run">>

ScriptAction(c) ==
    CASE c.script = "foundation" -> FoundationAction(c.flags)
      [] c.script = "results" -> ResultsAction(c.flags)
      [] c.script = "publish" -> PublishAction(c.flags)
      [] c.script = "unpublish" -> <<"unpublish", "apply">>
      [] OTHER -> <<"prepare">>

\* Whether a command then writes to its database: not for a preview or a dry run.
Writes(c) ==
    CASE c.script \in {"foundation", "results"} -> c.flags \cap {"record", "apply"} # {}
      [] c.script = "publish" -> "dry" \notin c.flags
      [] OTHER -> TRUE

-----------------------------------------------------------------------------
(* The check of a command                                                  *)

Reviewed == {"local", "development", "test", "staging", "production"}

ProductionIntent(env) ==
    \/ env.declared = "production"
    \/ env.expected = Approved
    \/ Approved \in {RoutedRef(env.database), RoutedRef(env.direct)}

Fresh(e) == clock <= e.checkedAt + MaxAge /\ e.checkedAt <= clock + MaxSkew

\* What a wrapper leaves behind, and what there is of its run.
Targets(env) == <<RoutedRef(env.database), RoutedRef(env.direct)>>

EvidenceFiles ==
    [action : {WrapperAction(c) : c \in Commands}, checkedAt : 0..Horizon, nonce : Runs,
     wrapper : Runs, targets : {Targets(env) : env \in Environments}, whole : BOOLEAN]

Processes ==
    [stage : {"verified", "created", "written", "allowed", "ended"},
     command : Commands \cup {None}, action : {WrapperAction(c) : c \in Commands},
     file : Files, env : Environments \cup {None}, checked : (0..Horizon) \cup {None},
     alone : BOOLEAN]

ProductionGuardAssumption ==
    /\ MaxAge \in Nat /\ MaxSkew \in Nat /\ Horizon \in Nat
    /\ None \notin Runs \cup Files \cup {Approved} \cup EvidenceFiles \cup Processes
    /\ \A c \in Commands :
          c.script \in {"prepare", "foundation", "results", "publish", "unpublish"}

\* The variables with which a wrapper starts its command.
Guard(r) == [action |-> run[r].action, file |-> run[r].file, nonce |-> r, wrapper |-> r]
NoGuard == [action |-> None, file |-> None, nonce |-> None, wrapper |-> None]

EvidenceStands(action, env, guard, parent) ==
    /\ guard.action = action
    /\ guard.file \in Files /\ evidence[guard.file] # None
    /\ LET e == evidence[guard.file] IN
        /\ e.whole
        /\ e.action = action
        /\ Fresh(e)
        /\ e.wrapper = guard.wrapper /\ parent = guard.wrapper
        /\ e.nonce = guard.nonce
        /\ TargetsVerified(env) /\ env.expected = Approved
        /\ e.targets = Targets(env)

\* assertGlasgowDatabaseActionAllowed.
Allowed(action, env, guard, parent) ==
    /\ env.declared \in Reviewed
    /\ ProductionIntent(env) => EvidenceStands(action, env, guard, parent)

\* Publishing and withdrawing other editions needs no leave.
Leave(c, env, guard, parent) == c.glasgow => Allowed(ScriptAction(c), env, guard, parent)

-----------------------------------------------------------------------------
(* The wrapper                                                             *)

Stage(r, stage) == [run EXCEPT ![r].stage = stage]

\* The processes are gone; their variables may still be in a shell.
Ended(r) == [run EXCEPT ![r].stage = "ended", ![r].env = None, ![r].command = None]

Init ==
    /\ clock = 0 /\ last = None
    /\ evidence = [f \in Files |-> None]
    /\ run = [r \in Runs |-> None]

\* executeGuardedGlasgowAction up to its first await: the URLs are verified.
Start(r, c, f, env) ==
    /\ run[r] = None
    /\ ExactMode(c) /\ TargetsVerified(env)
    /\ run' = [run EXCEPT ![r] =
          [stage |-> "verified", command |-> c, action |-> WrapperAction(c), file |-> f,
           env |-> env, checked |-> None, alone |-> FALSE]]
    /\ UNCHANGED <<clock, evidence, last>>

Evidence(r, whole) ==
    [action |-> run[r].action, checkedAt |-> clock, nonce |-> r, wrapper |-> r,
     targets |-> Targets(run[r].env), whole |-> whole]

\* A mutation: a file that is there already is opened and written over.
OpenOver(r) ==
    /\ run[r] # None /\ run[r].stage = "verified"
    /\ evidence' = [evidence EXCEPT ![run[r].file] = Evidence(r, FALSE)]
    /\ run' = Stage(r, "created")
    /\ UNCHANGED <<clock, last>>

\* The file is created, and the run fails when it exists.
CreateEvidence(r) ==
    /\ run[r] # None /\ run[r].stage = "verified"
    /\ \/ /\ evidence[run[r].file] = None
          /\ evidence' = [evidence EXCEPT ![run[r].file] = Evidence(r, FALSE)]
          /\ run' = Stage(r, "created")
       \/ /\ evidence[run[r].file] # None
          /\ run' = Ended(r)
          /\ UNCHANGED evidence
    /\ UNCHANGED <<clock, last>>

\* It is written, and the command is started.
WriteEvidence(r) ==
    /\ run[r] # None /\ run[r].stage = "created"
    /\ evidence' = [evidence EXCEPT ![run[r].file] = Evidence(r, TRUE)]
    /\ run' = Stage(r, "written")
    /\ UNCHANGED <<clock, last>>

Parent(r) == IF run[r].alone THEN None ELSE r

\* The command that the wrapper started checks its leave, which may be much later.
CheckChild(r) ==
    /\ run[r] # None /\ run[r].stage = "written"
    /\ LET c == run[r].command IN
        run' = IF Takes(c) /\ Leave(c, run[r].env, Guard(r), Parent(r))
               THEN [run EXCEPT ![r].stage = "allowed", ![r].checked = clock]
               ELSE Ended(r)
    /\ UNCHANGED <<clock, evidence, last>>

Deed(c, env, r) ==
    [tool |-> "command", action |-> ScriptAction(c), writes |-> Writes(c),
     glasgow |-> c.glasgow, project |-> RoutedRef(env.database), run |-> r]

\* It opens DATABASE_URL and does its work.
Perform(r) ==
    /\ run[r] # None /\ run[r].stage = "allowed"
    /\ last' = Deed(run[r].command, run[r].env, r)
    /\ run' = Ended(r)
    /\ UNCHANGED <<clock, evidence>>

\* The wrapper ends, by a check that fails or by the operator, and its command with
\* it; the file stays, empty or not.
Interrupt(r) ==
    /\ run[r] # None /\ run[r].stage # "ended"
    /\ run' = Ended(r)
    /\ UNCHANGED <<clock, evidence, last>>

\* The wrapper is killed by itself.
Orphan(r) ==
    /\ run[r] # None /\ run[r].stage \in {"written", "allowed"}
    /\ run' = [run EXCEPT ![r].alone = TRUE]
    /\ UNCHANGED <<clock, evidence, last>>

\* A script is started by itself, from a shell that may still have the variables
\* of an earlier run.  An offline preview opens no database.
RunDirectly(c, env, guard) ==
    /\ Takes(c) /\ "offline" \notin c.flags
    /\ Leave(c, env, guard, None)
    /\ last' = Deed(c, env, None)
    /\ UNCHANGED <<clock, evidence, run>>

-----------------------------------------------------------------------------
(* The other tools                                                         *)

ReviewedService == "centrepass-production-direct"

\* libpq: an address in the environment goes before the service's host.
PsqlReaches(env) == IF env.address # None THEN env.address ELSE RoutedRef(env.entry)

\* PGPASSFILE has one entry, which is that of the service.
PasswordMatches(env) == env.password = "entry"

\* validateProtectedLibpqEnvironment: no other PG variable, two private files, and
\* one service, which would be a valid DIRECT_URL.
PsqlVerified(env) ==
    /\ env.service = ReviewedService
    /\ env.address = None
    /\ env.expected # None /\ env.rejected # None
    /\ env.private /\ env.sole
    /\ ValidUrl("DIRECT_URL", env.entry, env.expected, env.rejected)
    /\ PasswordMatches(env)

\* verifyPreviewDatabaseTarget, before a rehearsal on a preview.
PreviewVerified(env) ==
    /\ env.declared = "staging" /\ env.quiet
    /\ env.preview # None /\ env.production # None /\ env.preview # env.production
    /\ env.direct.port = 5432
    /\ RoutedRef(env.database) = env.preview /\ RoutedRef(env.direct) = env.preview

\* reset-glasgow-2026-preview.ts reads the refs off the text of the URL.
ResetAllowed(env) ==
    /\ env.declared = "staging" /\ env.quiet
    /\ env.preview # None /\ env.production # None /\ env.preview # env.production
    /\ env.preview \in AllRefs(env.database) /\ env.production \notin AllRefs(env.database)

Landing(tool, project, meant, forbidden) ==
    [tool |-> tool, project |-> project, meant |-> meant, forbidden |-> forbidden]

\* npm run guard:production-target, with the scoped roles or not: what each URL of
\* those it passes reaches.
Verify(env) ==
    /\ TargetsVerified(env)
    /\ \E url \in {env.database, env.direct}
                 \cup (IF ScopedTargetsVerified(env) THEN {env.analytics, env.operations} ELSE {}) :
          last' = Landing("verified", RoutedRef(url), env.expected, env.rejected)
    /\ UNCHANGED <<clock, evidence, run>>

Query(env) ==
    /\ PsqlVerified(env)
    /\ last' = Landing("psql", PsqlReaches(env), env.expected, env.rejected)
    /\ UNCHANGED <<clock, evidence, run>>

Rehearse(env) ==
    /\ PreviewVerified(env)
    /\ \E url \in {env.database, env.direct} :
          last' = Landing("rehearsal", RoutedRef(url), env.preview, env.production)
    /\ UNCHANGED <<clock, evidence, run>>

ResetPreview(env) ==
    /\ ResetAllowed(env)
    /\ last' = Landing("reset", RoutedRef(env.database), RoutedRef(env.database),
                         env.production)
    /\ UNCHANGED <<clock, evidence, run>>

\* Time passes, or the clock is set.
Tick == clock' \in 0..Horizon /\ UNCHANGED <<evidence, run, last>>

Left == {NoGuard} \cup {Guard(r) : r \in {q \in Runs : run[q] # None}}

Next ==
    \/ Tick
    \/ \E c \in Commands, env \in Environments :
          \/ \E r \in Runs, f \in Files : Start(r, c, f, env)
          \/ \E guard \in Left : RunDirectly(c, env, guard)
    \/ \E r \in Runs :
          \/ CreateEvidence(r) \/ WriteEvidence(r) \/ CheckChild(r) \/ Perform(r)
          \/ Interrupt(r) \/ Orphan(r)
    \/ \E env \in Environments : Verify(env)
    \/ \E env \in PsqlShells : Query(env)
    \/ \E env \in PreviewShells : Rehearse(env) \/ ResetPreview(env)

Spec == Init /\ [][Next]_vars

-----------------------------------------------------------------------------
WritingActions ==
    {<<"prepare">>, <<"unpublish", "apply">>, <<"publish", "apply">>}
        \cup ({"foundation", "results"} \X {"record-preview", "apply"})

\* What the wrapper started can be accounted for: the evidence of the run stands, for
\* the action under its own name and for the project that was reached.
Accounted(deed) ==
    /\ deed.run \in Runs
    /\ LET e == evidence[run[deed.run].file] IN
        /\ e # None
        /\ e.whole /\ e.wrapper = deed.run /\ e.action = deed.action
        /\ e.targets = <<deed.project, deed.project>>
    /\ deed.writes => deed.action \in WritingActions

\* The evidence was fresh when the command looked.
InTime(deed) ==
    run[deed.run].checked - evidence[run[deed.run].file].checkedAt \in -MaxSkew..MaxAge

\* What the Glasgow commands do to the production project was started by the
\* wrapper, whose evidence of both URLs stands and was fresh when the command
\* looked; no evidence serves two of them, and one that evidence calls a preview
\* writes nothing (glasgow-production-guard.ts, production-glasgow.ts;
\* docs/runbooks/glasgow-2026-launch.md).  Other tools land where they were meant
\* to, and never on the project their shell forbids.
ProductionIsGuarded ==
    last # None =>
        IF last.tool = "command"
        THEN /\ last.project = Approved /\ last.glasgow => last.run # None /\ InTime(last)
             /\ last.run # None => Accounted(last)
        ELSE last.project = last.meant /\ last.project # last.forbidden

=============================================================================
