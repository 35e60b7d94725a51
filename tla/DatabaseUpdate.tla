---------------------------- MODULE DatabaseUpdate ----------------------------
(***************************************************************************)
(* DatabaseUpdateService (src/backend/services/database_update_service.py):*)
(* a migration job with its back-up, its verification and its roll-back.   *)
(*                                                                         *)
(* The schema is a version number; a migration that raises may leave it    *)
(* Torn.  What Alembic, the validator, the files and the history tables    *)
(* answer is open: each may fail.                                          *)
(***************************************************************************)
EXTENDS Naturals

CONSTANTS
    Migrations,      \* calls of start_migration; each may become a job
    Torn             \* the schema of a migration that stopped half-way

ASSUME DatabaseUpdateAssumption == Torn \notin Nat

VARIABLES
    _migration_in_progress,
    schema,          \* of the database file
    job,             \* per call: its place
    backup,          \* per job: the schema in its back-up, 0 for none
    current_version, \* per job: the version it read before it migrates
    result,          \* per job: its status, "none" until it says how it ends
    rolledBack,      \* per job: rollback_status is "success"
    was,             \* per job: the schema when it began (history)
    left,            \* per job: the schema when it ended (history)
    alone,           \* per job: no other ran at any time meanwhile (history)
    slipped,         \* per job: a step of the roll-back itself failed (history)
    raced            \* a job was accepted while another was running (history)

duVars == <<_migration_in_progress, schema, job, backup, current_version, result,
            rolledBack, was, left, alone, slipped, raced>>

Running == {m \in Migrations : job[m] \notin {"idle", "checked", "ended"}}

\* start_migration tests the flag, then awaits the validator ...
CheckMigration(m) ==
    /\ job[m] = "idle" /\ ~_migration_in_progress
    /\ job' = [job EXCEPT ![m] = "checked"]
    /\ UNCHANGED <<_migration_in_progress, schema, backup, current_version, result,
                   rolledBack, was, left, alone, slipped, raced>>

\* ... and sets it, without another look.  The job begins.
AcceptMigration(m) ==
    /\ job[m] = "checked"
    /\ _migration_in_progress' = TRUE
    /\ job' = [job EXCEPT ![m] = "begin"]
    /\ was' = [was EXCEPT ![m] = schema]
    /\ alone' = [n \in Migrations |-> IF n = m THEN Running = {} ELSE alone[n] /\ n \notin Running]
    /\ raced' = (raced \/ _migration_in_progress)
    /\ UNCHANGED <<schema, backup, current_version, result, rolledBack, left, slipped>>

StepTo(m, pc) == job' = [job EXCEPT ![m] = pc]

\* The finally clause.
Finish(m) ==
    /\ StepTo(m, "ended")
    /\ _migration_in_progress' = FALSE
    /\ left' = [left EXCEPT ![m] = schema']

\* The job goes on to pc; it is not over.
GoOn(m, pc) == StepTo(m, pc) /\ UNCHANGED <<_migration_in_progress, left>>

\* A step of the job raises.
Raises(m) ==
    /\ job[m] \in {"begin", "planning", "migrating", "verifying", "recording"}
    /\ GoOn(m, "failing")
    /\ UNCHANGED <<schema, backup, current_version, result, rolledBack, was, alone, slipped, raced>>

\* The back-up is copied and recorded, unless the caller skips it.
BackUp(m) ==
    /\ job[m] = "begin"
    /\ backup' \in {backup, [backup EXCEPT ![m] = schema]}
    /\ GoOn(m, "planning")
    /\ UNCHANGED <<schema, current_version, result, rolledBack, was, alone, slipped, raced>>

Plan(m) ==
    /\ job[m] = "planning"
    /\ current_version' = [current_version EXCEPT ![m] = schema]
    /\ GoOn(m, "migrating")
    /\ UNCHANGED <<schema, backup, result, rolledBack, was, alone, slipped, raced>>

\* The migration runs without a pause; it changes the schema, does not, or raises.
Migrate(m) ==
    /\ job[m] = "migrating"
    /\ \/ GoOn(m, "verifying") /\ schema' \in {schema, IF schema = Torn THEN Torn ELSE schema + 1}
       \/ GoOn(m, "failing") /\ schema' \in {schema, Torn}
    /\ UNCHANGED <<backup, current_version, result, rolledBack, was, alone, slipped, raced>>

\* Mutant: the new version is not compared with the old one.
VerifiedAnyway(m) == schema # Torn
Verified(m) == schema # current_version[m]

\* The job says that it is completed before that is in the history.
Verify(m) ==
    /\ job[m] = "verifying"
    /\ IF Verified(m)
       THEN GoOn(m, "recording") /\ result' = [result EXCEPT ![m] = "completed"]
       ELSE GoOn(m, "failing") /\ result' = result
    /\ UNCHANGED <<schema, backup, current_version, rolledBack, was, alone, slipped, raced>>

Complete(m) ==
    /\ job[m] = "recording"
    /\ UNCHANGED schema
    /\ Finish(m)
    /\ UNCHANGED <<backup, current_version, result, rolledBack, was, alone, slipped, raced>>

\* The failure is recorded first.  If that raises, the handler ends there, and a
\* job that said completed still does.
RecordFailure(m) ==
    /\ job[m] = "failing"
    /\ UNCHANGED schema
    /\ \/ /\ slipped' = slipped
          /\ IF backup[m] = 0
             THEN Finish(m) /\ result' = [result EXCEPT ![m] = "failed"]
             ELSE GoOn(m, "restoring") /\ result' = [result EXCEPT ![m] = "rolling_back"]
       \/ /\ result' = result
          /\ slipped' = [slipped EXCEPT ![m] = TRUE]
          /\ Finish(m)
    /\ UNCHANGED <<backup, current_version, rolledBack, was, alone, raced>>

\* The back-up is copied over the database and the connections are reopened;
\* each step may fail, before or after the copy.
Restore(m) ==
    /\ job[m] = "restoring"
    /\ \/ schema' = backup[m] /\ rolledBack' = [rolledBack EXCEPT ![m] = TRUE] /\ slipped' = slipped
       \/ /\ schema' \in {schema, backup[m]}
          /\ rolledBack' = rolledBack
          /\ slipped' = [slipped EXCEPT ![m] = TRUE]
    /\ Finish(m)
    /\ UNCHANGED <<backup, current_version, result, was, alone, raced>>

DUInit ==
    /\ _migration_in_progress = FALSE
    /\ schema = 1
    /\ job = [m \in Migrations |-> "idle"]
    /\ backup = [m \in Migrations |-> 0]
    /\ current_version = [m \in Migrations |-> 0]
    /\ result = [m \in Migrations |-> "none"]
    /\ rolledBack = [m \in Migrations |-> FALSE]
    /\ was = [m \in Migrations |-> 0]
    /\ left = [m \in Migrations |-> 0]
    /\ alone = [m \in Migrations |-> TRUE]
    /\ slipped = [m \in Migrations |-> FALSE]
    /\ raced = FALSE

DUNext ==
    \E m \in Migrations :
        \/ CheckMigration(m) \/ AcceptMigration(m) \/ Raises(m)
        \/ BackUp(m) \/ Plan(m) \/ Migrate(m) \/ Verify(m) \/ Complete(m)
        \/ RecordFailure(m) \/ Restore(m)

DUSpec == DUInit /\ [][DUNext]_duVars

-----------------------------------------------------------------------------
(* Properties.                                                             *)

\* A job that ran alone migrates or leaves the database as it found it: when it
\* says completed the schema is a new one, and when it had a back-up and did not
\* complete the schema is the old one, unless a step of the roll-back - the record
\* of the failure comes first and counts as one - failed.  Two jobs run at once
\* only after two calls passed the test of the flag before either had set it.
MigrationAllOrNothing ==
    /\ \A m \in Migrations : job[m] = "ended" /\ alone[m] =>
         /\ result[m] = "completed" => left[m] \notin {was[m], Torn}
         /\ result[m] # "completed" /\ backup[m] # 0 /\ ~slipped[m]
                => rolledBack[m] /\ left[m] = was[m]
    /\ (\E m, n \in Running : m # n) => raced

===============================================================================
