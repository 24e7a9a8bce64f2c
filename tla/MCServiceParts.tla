---------------------------- MODULE MCServiceParts ----------------------------
(***************************************************************************)
(* Small instances of the services of ServiceParts: the values that a      *)
(* configuration cannot write down.                                        *)
(***************************************************************************)
EXTENDS ServiceParts, Naturals, Sequences, TLC

CONSTANTS
    k1, k2, d1,             \* requests to a process, a client of it
    p1, p2, p3, victory,    \* phases of the Glasgow feed
    m1, m2,                 \* its match codes
    x,                      \* a file
    e1, e2,                 \* editions
    t1, t2,                 \* what a user may save
    reader, old, new,       \* an address and two passwords
    q1, q2, q3,             \* what is searched for or asked
    f1, f2, a1              \* matches, and a player

\* Of the questions and runs that overlap.
Symmetry == Permutations({k1, k2})

-----------------------------------------------------------------------------
(* The pages: a league whose season has begun and a tournament with the    *)
(* Glasgow gate.                                                           *)

Seasons == <<<<1, 3>>, <<2, None>>>>

\* The league is public from the beginning, and the tournament was published.
ServicesInit == PartsInit /\ (part = "pages" => status[1] = "viable" /\ status[2] # "DRAFT")

ServicesSpec == ServicesInit /\ [][PartsNext]_partsVars

-----------------------------------------------------------------------------
(* Questions of every intent: some that are answered, some the parser      *)
(* turns back, and some it passes on and the validation does not.          *)

Question(intent, entities, metric, scopes) ==
    [intent |-> intent, entities |-> entities, teams |-> FALSE, metric |-> metric,
     vague |-> FALSE, edition |-> TRUE, scopes |-> scopes, bounded |-> TRUE,
     allowed |-> TRUE]

QuestionsAsked ==
    {Question("LOOKUP", <<"PLAYER">>, "goals", {"opponent", "last n"}),
     Question("LOOKUP", <<"TEAM">>, "goals", {"opponent"}),
     Question("LEADERBOARD", <<"TEAM">>, "goals", {"opponent"}),
     Question("COMPARISON", <<"PLAYER", "PLAYER">>, None, {"last n"}),
     Question("COMPARISON", <<"PLAYER">>, None, {"last n"}),
     Question("RECORD", <<>>, "goals", {"last n"}),
     [Question("RECORD", <<>>, "goals", {}) EXCEPT !.teams = TRUE],
     Question("RECORD", <<>>, "unsupported", {"stage"}),
     [Question("RECORD", <<>>, "goals", {}) EXCEPT !.allowed = FALSE]}

-----------------------------------------------------------------------------
(* Requests of a user who may keep one thing, in a Map of two scopes.      *)

Limits ==
    [scope \in {"user-resource-mutation", "signup-ip", "credential-login-ip",
                "credential-login-account"} |->
        CASE scope = "credential-login-account" -> 1
          [] OTHER -> 2]

-----------------------------------------------------------------------------
(* Three phases of the Glasgow feed with results, and answers of every     *)
(* kind for them.                                                          *)

Report(code, unit, result) ==
    [code |-> code, unit |-> unit, first |-> result, second |-> result]

Results ==
    {Report(m1, "UPCOMING", "RUNNING"), Report(m1, "LIVE", "GETTING_READY"),
     Report(m1, "LIVE", "RUNNING"), Report(m1, "LIVE", "FINISHED"),
     Report(m1, "null", "SCHEDULED_BREAK"), Report(m2, "COMPLETE", "OFFICIAL"),
     [Report(m1, "COMPLETE", "OFFICIAL") EXCEPT !.second = "FINISHED"]}

PhaseListings == {{}, {"UPCOMING"}, {"null"}, {"LIVE"}, {"LIVE", "COMPLETE"}}

Answers ==
    {{}} \cup {{kind} : kind \in Results}
    \cup {{Report(m1, "LIVE", "RUNNING"), Report(m2, "COMPLETE", "OFFICIAL")},
          {Report(m1, "LIVE", "GETTING_READY"), Report(m2, "COMPLETE", "OFFICIAL")},
          {Report(m1, "LIVE", "FINISHED"), Report(m1, "LIVE", "RUNNING")}}

-----------------------------------------------------------------------------
(* A text that names a match and a player, and one that names the match.   *)

NamesOf == q1 :> {f1, a1} @@ q2 :> {f1}

-----------------------------------------------------------------------------
(* Previews with six migrations, the first four, more or less of which are *)
(* there, and grants of every kind.                                        *)

Materialized(n) == [m \in 1..6 |-> IF m <= n THEN "whole" ELSE "absent"]

PreviewSchemas ==
    {Materialized(4), Materialized(5), [Materialized(4) EXCEPT ![2] = "some"],
     [Materialized(4) EXCEPT ![5] = "some"]}

NoneGranted == [current |-> {}, defaults |-> {}, owned |-> FALSE]
DefaultTo(owner, grantee) ==
    [NoneGranted EXCEPT !.defaults = {[owner |-> owner, grantee |-> grantee]}]

PreviewAcls ==
    {NoneGranted, DefaultTo("supabase_admin", "anon"), DefaultTo("postgres", "service_role"),
     [DefaultTo("postgres", "service_role") EXCEPT !.current = {"service_role"}],
     [NoneGranted EXCEPT !.current = {"anon"}, !.owned = TRUE]}

ScopedRoles == <<"analytics", "operations">>

-----------------------------------------------------------------------------
(* Shells of production (e1), of a preview (e2) and of neither, with URLs  *)
(* that agree or not.                                                      *)

Endpoint(host, project, port, params) ==
    [host |-> host, hostRef |-> IF host = "direct" THEN project ELSE None, region |-> host,
     userRef |-> IF host = "direct" THEN None ELSE project, role |-> "postgres",
     port |-> port, params |-> params]
Pooled(project) ==
    Endpoint("sydney", project, 6543, {"DATABASE_URL", "ANALYTICS_DATABASE_URL"})
Session(project, region) == Endpoint(region, project, 5432, {"DIRECT_URL"})
Own(project) == Endpoint("direct", project, 5432, {"DIRECT_URL"})
Role(role, variable) ==
    [Endpoint("sydney", e1, 6543, {variable}) EXCEPT !.role = role]
Typed(script, flags) == [script |-> script, glasgow |-> TRUE, flags |-> flags]

Shell(declared, expected, database, direct) ==
    [declared |-> declared, expected |-> expected, rejected |-> IF expected = e1 THEN e2 ELSE e1,
     database |-> database, direct |-> direct, analytics |-> None, operations |-> None]

CommandsTyped ==
    {Typed("foundation", {"offline"}), Typed("foundation", {"record"}),
     Typed("results", {"apply", "confirm"}),
     Typed("publish", {"dry", "apply"}), Typed("unpublish", {"confirm"}),
     [Typed("unpublish", {"confirm"}) EXCEPT !.glasgow = FALSE]}

Shells ==
    {Shell("production", e1, Pooled(e1), Own(e1)),
     [Shell("staging", e1, Pooled(e1), Own(e1)) EXCEPT
        !.analytics = Role("centrepass_analytics", "ANALYTICS_DATABASE_URL"),
        !.operations = Role("centrepass_stats_operations", "STATS_OPERATIONS_DATABASE_URL")],
     Shell("production", e2, Pooled(e2), Session(e2, "tokyo")),
     Shell("staging", e2, Pooled(e2), Session(e2, "sydney")),
     Shell("staging", None, Pooled(e2), Own(e1)),
     Shell("local", e1, Pooled(e2), Session(e2, "tokyo"))}

ShellsOfPsql ==
    {[service |-> "centrepass-production-direct", address |-> host, private |-> TRUE,
      sole |-> TRUE, entry |-> own, password |-> "entry", expected |-> e1,
      rejected |-> e2] : host \in {None, e2}, own \in {Own(e1), Own(e2)}}

ShellsOfPreviews ==
    [declared : {"staging"}, quiet : {TRUE}, preview : {e2}, production : {e1},
     database : {Pooled(e1), Pooled(e2), [Own(e1) EXCEPT !.userRef = e2]},
     direct : {Session(e2, "tokyo"), Own(e1)}]

=============================================================================
