-------------------------- MODULE PreviewRehearsal --------------------------
(***************************************************************************)
(* The rehearsal of a release on a preview database (the job               *)
(* glasgow-preview-rehearsal of .github/workflows/ci.yml): commands of     *)
(* scripts/, one after the other, that verify what the database holds,     *)
(* record it as migrated, deploy the rest, provision the scoped roles and  *)
(* verify the privileges.  Rehearsals of one preview wait for each other;  *)
(* any may end before its next step, and the database stays as it is then. *)
(* Beside them people work on the preview by hand.                         *)
(*                                                                         *)
(* Migrations are numbered in their order.  The first four are part of the *)
(* schema a preview is created with, the last repairs an earlier one.      *)
(* What a migration makes is there as a whole, in part or not at all; how  *)
(* the catalog shows it is left out.  A grant is known by whom it favours, and *)
(* a privilege of a role by how it came to be: by the reviewed list, by a  *)
(* grant in an application schema, or in ways a provisioning cannot revoke.*)
(* Prisma itself (migrate resolve and deploy) is modelled from its use.    *)
(***************************************************************************)
EXTENDS Naturals, Sequences

CONSTANTS
    Chain,          \* the number of checked-in migrations
    Contracts,      \* the scoped roles in the order they are provisioned
    Schemas,        \* what previews are created with: how much of each migration
    Acls,           \* and the grants they have
    MaxRehearsals,  \* bound
    MaxHandwork,    \* bound: changes by hand
    None

VARIABLES
    ledger,     \* _prisma_migrations
    effects,    \* how much there is of each migration
    roles,      \* the scoped roles
    acl,        \* current and default grants, and whether the provider owns objects
    job,        \* the command and step of the rehearsal
    altered,    \* history: migrations whose effects were changed by hand
    quiet,      \* history: no change by hand since the rehearsal began
    rehearsals, handiwork

previewVars == <<ledger, effects, roles, acl, job, altered, quiet, rehearsals, handiwork>>

Baselined == 4      \* BASELINED_MIGRATIONS
FirstUnapplied == 5

Migrations == 1..Chain
Extents == {"absent", "some", "whole"}

Grantees == {"anon", "service_role"}
ObjectOwners == {"postgres", "supabase_admin"}
Default == [owner : ObjectOwners, grantee : Grantees]
Grants == [current : SUBSET Grantees, defaults : SUBSET Default, owned : BOOLEAN]

Names == {Contracts[i] : i \in DOMAIN Contracts}
Privileges == {"reviewed", "direct", "inherited"}
Role == [attributes : {"restricted", "configured", "elevated"},
         privileges : SUBSET Privileges, settings : BOOLEAN]

\* The migrations are the expected chain (verifyContiguousOrder).
PreviewAssumption ==
    /\ Chain \in Nat /\ Chain > FirstUnapplied
    /\ Contracts \in Seq(Names)
    /\ Schemas \subseteq [Migrations -> Extents]
    /\ Acls \subseteq Grants
    /\ MaxRehearsals \in Nat /\ MaxHandwork \in Nat
    /\ None \notin Role

-----------------------------------------------------------------------------
(* The ledger                                                              *)

Row(m, sum, finished) ==
    [name |-> m, sum |-> sum, finished |-> finished, rolledBack |-> FALSE]

Applied(row) == row.finished /\ ~row.rolledBack

HasApplied(m) == \E i \in DOMAIN ledger : ledger[i].name = m /\ Applied(ledger[i])

Unfinished == \E i \in DOMAIN ledger : ~ledger[i].finished /\ ~ledger[i].rolledBack

\* Exactly the first n migrations as they are checked in, each of them applied.
Exact(n) ==
    /\ Len(ledger) = n
    /\ \A m \in 1..n : \E i \in DOMAIN ledger : ledger[i].name = m
    /\ \A i \in DOMAIN ledger : ledger[i].sum = "checked in" /\ Applied(ledger[i])

-----------------------------------------------------------------------------
(* The rehearsal                                                           *)

At(pc) == job.pc = pc

Step(pc) == [pc |-> pc, next |-> 1]
Stopped == Step("idle")

\* A verification that fails ends the rehearsal.
Verify(pc, holds, then) ==
    /\ At(pc)
    /\ job' = IF holds THEN Step(then) ELSE Stopped
    /\ UNCHANGED <<ledger, effects, roles, acl, altered, quiet, rehearsals, handiwork>>

Begin ==
    /\ At("idle") \/ At("passed")
    /\ rehearsals < MaxRehearsals
    /\ rehearsals' = rehearsals + 1
    /\ job' = Step("baseline")
    /\ quiet' = TRUE
    /\ UNCHANGED <<ledger, effects, roles, acl, altered, handiwork>>

\* A command fails, or the time of the job is over.
Abort ==
    /\ ~At("idle") /\ ~At("passed")
    /\ job' = Stopped
    /\ UNCHANGED <<ledger, effects, roles, acl, altered, quiet, rehearsals, handiwork>>

\* validatePreviewPrismaLedger: without rows the baseline is verified, with those of
\* all migrations but the last the repair, and everything else is refused.
ReadLedger ==
    IF ledger = <<>> THEN Verify("baseline", TRUE, "initial")
    ELSE Verify("baseline", Exact(Chain - 1), "repair")

\* Default grants are the provider's own, which owns nothing then.
DefaultsAreSafe(grantees) ==
    LET relevant == {d \in acl.defaults : d.grantee \in grantees}
    IN  /\ \A d \in relevant : d.owner = "supabase_admin"
        /\ relevant # {} => ~acl.owned

InitialIsThere == effects[1] = "whole"
\* A mutation: an index is known by its name.
IndexesAreNamed == effects[2] # "absent"

HotIndexesAreThere == effects[2] = "whole"
HardeningIsThere ==
    /\ effects[3] = "whole"
    /\ "anon" \notin acl.current
    /\ DefaultsAreSafe({"anon"})
FinalsAreThere == effects[4] = "whole"
FirstIsAbsent == effects[FirstUnapplied] = "absent"
RepairIsAbsent == effects[Chain] = "absent"

VerifyInitialMigration == Verify("initial", InitialIsThere, "indexes")
VerifyHotIndexes == Verify("indexes", HotIndexesAreThere, "hardening")
VerifyPublicSchemaHardening == Verify("hardening", HardeningIsThere, "finals")
VerifyFinalsColumns == Verify("finals", FinalsAreThere, "first")
VerifyMigrationEffectsAbsent == Verify("first", FirstIsAbsent, "resolve")
VerifyRepairMigrationEffectsAbsent == Verify("repair", RepairIsAbsent, "deploy")

\* A process of its own for each; a migration that is recorded is refused.
Resolve ==
    /\ At("resolve")
    /\ IF HasApplied(job.next)
       THEN job' = Stopped /\ UNCHANGED ledger
       ELSE /\ ledger' = Append(ledger, Row(job.next, "checked in", TRUE))
            /\ job' = IF job.next < Baselined THEN [job EXCEPT !.next = @ + 1]
                      ELSE Step("deploy")
    /\ UNCHANGED <<effects, roles, acl, altered, quiet, rehearsals, handiwork>>

\* The first migration that is not applied, if there is one and none is unfinished.
StartMigration ==
    /\ At("deploy") /\ ~Unfinished
    /\ \E m \in Migrations :
          /\ ~HasApplied(m) /\ \A n \in 1..m - 1 : HasApplied(n)
          /\ ledger' = Append(ledger, Row(m, "checked in", FALSE))
          /\ job' = [pc |-> "apply", next |-> m]
    /\ UNCHANGED <<effects, roles, acl, altered, quiet, rehearsals, handiwork>>

\* New objects have the grants that are the default, unless the migration revokes them.
AppliedAcl(next) ==
    /\ next.current \subseteq
          acl.current \cup {d.grantee : d \in {e \in acl.defaults : e.owner = "postgres"}}
    /\ next.defaults \subseteq acl.defaults
    /\ next.owned = acl.owned

\* What is there already cannot be made, and the row stays unfinished.
ApplyMigration ==
    /\ At("apply")
    /\ IF effects[job.next] = "absent"
       THEN /\ effects' = [effects EXCEPT ![job.next] = "whole"]
            /\ acl' \in {next \in Acls : AppliedAcl(next)}
            /\ job' = [job EXCEPT !.pc = "finish"]
       ELSE UNCHANGED <<effects, acl>> /\ job' = Stopped
    /\ UNCHANGED <<ledger, roles, altered, quiet, rehearsals, handiwork>>

FinishMigration ==
    /\ At("finish")
    /\ ledger' = [i \in DOMAIN ledger |->
                    IF ledger[i].name = job.next /\ ~ledger[i].rolledBack
                    THEN [ledger[i] EXCEPT !.finished = TRUE] ELSE ledger[i]]
    /\ job' = Step("deploy")
    /\ UNCHANGED <<effects, roles, acl, altered, quiet, rehearsals, handiwork>>

EndDeploy ==
    /\ \A m \in Migrations : HasApplied(m)
    /\ Verify("deploy", ~Unfinished, "ledger")

VerifyMigrations == Verify("ledger", Exact(Chain), "role")

-----------------------------------------------------------------------------
(* The scoped roles                                                        *)

Current == Contracts[job.next]

\* The steps of a provisioning are committed one by one.
Provision(pc, role, then) ==
    /\ At(pc)
    /\ roles' = [roles EXCEPT ![Current] = role]
    /\ job' = [job EXCEPT !.pc = then]
    /\ UNCHANGED <<ledger, effects, acl, altered, quiet, rehearsals, handiwork>>

NewRole == [attributes |-> "restricted", privileges |-> {}, settings |-> FALSE]

\* ALTER ROLE cannot take elevated attributes away, and a role that has one is refused.
CreateRole ==
    /\ At("role")
    /\ roles[Current] # None => roles[Current].attributes # "elevated"
    /\ Provision("role", IF roles[Current] = None THEN NewRole ELSE roles[Current],
                 "revoke")

RevokeAll ==
    Provision("revoke", [roles[Current] EXCEPT !.privileges = @ \cap {"inherited"}],
              "grant")

GrantReviewed ==
    Provision("grant", [roles[Current] EXCEPT !.privileges = @ \cup {"reviewed"},
                                              !.settings = TRUE], "check")

\* The provisioning sees some of what is inherited, and leaves the rest to the
\* verification.
CheckRole ==
    /\ At("check")
    /\ {"reviewed"} \subseteq roles[Current].privileges
    /\ "direct" \notin roles[Current].privileges
    /\ job' = IF job.next < Len(Contracts) THEN [pc |-> "role", next |-> job.next + 1]
              ELSE Step("roles")
    /\ UNCHANGED <<ledger, effects, roles, acl, altered, quiet, rehearsals, handiwork>>

ExactRole == [attributes |-> "restricted", privileges |-> {"reviewed"}, settings |-> TRUE]

RolesAreExact == \A r \in Names : roles[r] = ExactRole

\* A mutation: what is missing fails, what there is besides does not.
VerifyGrants ==
    Verify("roles",
           \A r \in Names : roles[r] # None /\ "reviewed" \in roles[r].privileges, "acls")

VerifyScopedRoles == Verify("roles", RolesAreExact, "acls")

NoGrants == acl.current = {} /\ ~acl.owned /\ DefaultsAreSafe(Grantees)

VerifyDataApiAcls == Verify("acls", NoGrants, "passed")

-----------------------------------------------------------------------------
(* By hand                                                                 *)

Handwork ==
    /\ handiwork < MaxHandwork
    /\ handiwork' = handiwork + 1
    /\ quiet' = FALSE
    /\ UNCHANGED <<job, rehearsals>>

\* Somebody changes what a migration has made,
AlterSchema(m) ==
    /\ Handwork
    /\ \E extent \in Extents : effects' = [effects EXCEPT ![m] = extent]
    /\ altered' = altered \cup {m}
    /\ UNCHANGED <<ledger, roles, acl>>

\* deploys the next migration of a branch of their own,
DeployElsewhere(m) ==
    /\ Handwork
    /\ ~Unfinished /\ ~HasApplied(m) /\ effects[m] = "absent"
    /\ \A n \in 1..m - 1 : HasApplied(n)
    /\ \E sum \in {"checked in", "another"} :
          /\ ledger' = Append(ledger, Row(m, sum, TRUE))
          /\ effects' = [effects EXCEPT ![m] = IF sum = "another" THEN "some" ELSE "whole"]
    /\ UNCHANGED <<roles, acl, altered>>

\* has a migration that is unfinished applied again, whatever it made,
MarkRolledBack ==
    /\ Handwork
    /\ \E i \in DOMAIN ledger :
          /\ ~ledger[i].finished /\ ~ledger[i].rolledBack
          /\ ledger' = [ledger EXCEPT ![i].rolledBack = TRUE]
    /\ UNCHANGED <<effects, roles, acl, altered>>

\* or changes a role or the grants.
AlterRole(r) ==
    /\ Handwork
    /\ \E role \in Role : roles' = [roles EXCEPT ![r] = role]
    /\ UNCHANGED <<ledger, effects, acl, altered>>

AlterGrants ==
    /\ Handwork
    /\ acl' \in Acls
    /\ UNCHANGED <<ledger, effects, roles, altered>>

-----------------------------------------------------------------------------
\* A preview is created with a schema, or a rehearsal has left it before the repair.
Init ==
    /\ effects \in Schemas
    /\ ledger = <<>> \/ /\ \A m \in 1..Chain - 1 : effects[m] = "whole"
                        /\ ledger = [m \in 1..Chain - 1 |-> Row(m, "checked in", TRUE)]
    /\ roles = [r \in Names |-> None]
    /\ acl \in Acls
    /\ job = Stopped
    /\ altered = {}
    /\ quiet = TRUE
    /\ rehearsals = 0 /\ handiwork = 0

Next ==
    \/ Begin \/ Abort \/ ReadLedger
    \/ VerifyInitialMigration \/ VerifyHotIndexes \/ VerifyPublicSchemaHardening
    \/ VerifyFinalsColumns \/ VerifyMigrationEffectsAbsent
    \/ VerifyRepairMigrationEffectsAbsent
    \/ Resolve
    \/ StartMigration \/ ApplyMigration \/ FinishMigration \/ EndDeploy
    \/ VerifyMigrations
    \/ CreateRole \/ RevokeAll \/ GrantReviewed \/ CheckRole
    \/ VerifyScopedRoles \/ VerifyDataApiAcls
    \/ \E m \in Migrations : AlterSchema(m) \/ DeployElsewhere(m)
    \/ MarkRolledBack
    \/ \E r \in Names : AlterRole(r)
    \/ AlterGrants

Spec == Init /\ [][Next]_previewVars

-----------------------------------------------------------------------------
(* Properties                                                              *)

\* What the ledger says was applied as it is checked in is in the database as a whole,
\* but for what was changed by hand: recorded by a rehearsal that verified it or by a
\* deploy that made it, ended wherever it may (verify-preview-prisma-baseline.ts).
LedgerIsEarned ==
    \A i \in DOMAIN ledger :
        LET row == ledger[i]
        IN  Applied(row) /\ row.sum = "checked in" /\ row.name \notin altered
                => effects[row.name] = "whole"

\* When a rehearsal passes and nobody else was at work during it, the ledger is the
\* checked-in chain and the chain is there, the roles have exactly what was reviewed, and
\* nothing is granted besides, now or by default: whatever was interrupted or changed
\* before it (verify-preview-migrations.ts, verify-preview-scoped-roles.ts,
\* verify-preview-data-api-acls.ts).
PassedIsSound ==
    (At("passed") /\ quiet) =>
        /\ Exact(Chain)
        /\ \A m \in Migrations \ altered : effects[m] = "whole"
        /\ RolesAreExact
        /\ NoGrants

RehearsalIsEarned == LedgerIsEarned /\ PassedIsSound

=============================================================================
