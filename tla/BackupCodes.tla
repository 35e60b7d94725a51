------------------------------ MODULE BackupCodes ------------------------------
(***************************************************************************)
(* Multi-factor set-up and backup codes of one user: generate_mfa_secret,  *)
(* verify_mfa_setup, verify_mfa_code, disable_mfa and                      *)
(* regenerate_backup_codes of backend/services/auth_manager.py over the    *)
(* tables of auth_repository.py.                                           *)
(*                                                                         *)
(* A backup code goes through five awaits: it is looked up, marked used,   *)
(* the mark is committed, the codes left are counted, and all are replaced *)
(* when few are left.  With SQLite all sessions share one connection       *)
(* (StaticPool in database_engine.py), and SQLAlchemy rolls it back when   *)
(* any of them ends: a mark not yet committed is lost then.  The other     *)
(* methods of the repository are atomic.  A secret, with the codes made    *)
(* for it, is a generation number; failing statements and codes of the     *)
(* authenticator, which only touch the time of last use, are left out.     *)
(***************************************************************************)
EXTENDS Integers, FiniteSets

CONSTANTS
    MfaRequests,     \* verifications and set-ups that may be under way at once
    CodesPerBatch,   \* how many backup codes are generated
    RegenerateAt,    \* mfa_backup_code_regeneration_threshold
    MaxSecrets,      \* bound on the secrets generated
    MaxBatches,      \* bound on the batches of codes generated
    MaxUndone        \* bound on the codes whose mark is rolled back

ASSUME BackupCodesAssumption ==
    /\ IsFiniteSet(MfaRequests)
    /\ \A n \in {CodesPerBatch, RegenerateAt, MaxSecrets, MaxBatches, MaxUndone} : n \in Nat

VARIABLES
    mfaRow,       \* the UserMFA row: its secret, 0 for no row
    mfaEnabled,   \* is_enabled of the row
    secrets,      \* secrets generated so far
    batches,      \* batches of codes generated so far
    unused,       \* the unused codes of the row, as <<batch, number>>
    marked,       \* the codes whose mark as used is not yet committed
    mfaRequest,   \* a request's place and what it has read
    taken,        \* code -> how often it was marked used for a request, up to 2 (history)
    undone        \* the codes whose mark was rolled back (history)

bcVars == <<mfaRow, mfaEnabled, secrets, batches, unused, marked, mfaRequest, taken, undone>>

Codes == (1..MaxBatches) \X (1..CodesPerBatch)
NewCodes == {batches'} \X (1..CodesPerBatch)
NoRequest == [pc |-> "idle"]
Answer(m) == mfaRequest' = [mfaRequest EXCEPT ![m] = NoRequest]
\* Whoever commits the connection, commits every mark.
Commit == marked' = {}

\* generate_mfa_secret; a second one is refused while there is a row.
GenerateMfaSecret ==
    /\ mfaRow = 0
    /\ secrets < MaxSecrets /\ batches < MaxBatches
    /\ secrets' = secrets + 1
    /\ batches' = batches + 1
    /\ mfaRow' = secrets'
    /\ mfaEnabled' = FALSE
    /\ unused' = NewCodes
    /\ Commit
    /\ UNCHANGED <<mfaRequest, taken, undone>>

\* verify_mfa_setup reads the row and compares the code with its secret.
ReadSetup(m) ==
    /\ mfaRequest[m] = NoRequest
    /\ mfaRow # 0
    /\ mfaRequest' = [mfaRequest EXCEPT ![m] = [pc |-> "enable"]]
    /\ UNCHANGED <<mfaRow, mfaEnabled, secrets, batches, unused, marked, taken, undone>>

\* The right code enables whatever row the user has by now; with none it
\* raises.
EnableMfa(m) ==
    /\ mfaRequest[m].pc = "enable"
    /\ mfaEnabled' = (mfaRow # 0)
    /\ Answer(m) /\ Commit
    /\ UNCHANGED <<mfaRow, secrets, batches, unused, taken, undone>>

\* verify_mfa_code reads the row, which must be enabled.
ReadMfa(m) ==
    /\ mfaRequest[m] = NoRequest
    /\ mfaRow # 0 /\ mfaEnabled
    /\ mfaRequest' = [mfaRequest EXCEPT ![m] = [pc |-> "lookup"]]
    /\ UNCHANGED <<mfaRow, mfaEnabled, secrets, batches, unused, marked, taken, undone>>

\* verify_backup_code: is c an unused code of the user?
LookUpCode(m, c) ==
    /\ mfaRequest[m].pc = "lookup"
    /\ IF c \in unused
       THEN mfaRequest' = [mfaRequest EXCEPT ![m] = [pc |-> "use", code |-> c]]
       ELSE Answer(m)
    /\ UNCHANGED <<mfaRow, mfaEnabled, secrets, batches, unused, marked, taken, undone>>

\* Mutant: the update does not ask again whether the code is unused.
UpdateMatches(c) == mfaRow # 0

\* The WHERE clause of use_backup_code.
StillUnused(c) == c \in unused

UseCode(m) ==
    /\ mfaRequest[m].pc = "use"
    /\ LET c == mfaRequest[m].code
       IN IF StillUnused(c)
          THEN /\ unused' = unused \ {c}
               /\ marked' = marked \cup {c}
               /\ taken' = [taken EXCEPT ![c] = IF @ = 0 THEN 1 ELSE 2]
               /\ mfaRequest' = [mfaRequest EXCEPT ![m] = [pc |-> "commit"]]
          ELSE Answer(m) /\ Commit /\ UNCHANGED <<unused, taken>>
    /\ UNCHANGED <<mfaRow, mfaEnabled, secrets, batches, undone>>

\* The code lets its request in by the rows the UPDATE matched, also when there
\* is nothing left to commit.
CommitUse(m) ==
    /\ mfaRequest[m].pc = "commit"
    /\ Commit
    /\ mfaRequest' = [mfaRequest EXCEPT ![m] = [pc |-> "count"]]
    /\ UNCHANGED <<mfaRow, mfaEnabled, secrets, batches, unused, taken, undone>>

\* Some other session of the application ends, after a query or a commit.
RollBack ==
    /\ marked # {} /\ Cardinality(undone \cup marked) <= MaxUndone
    /\ unused' = unused \cup marked
    /\ undone' = undone \cup marked
    /\ marked' = {}
    /\ UNCHANGED <<mfaRow, mfaEnabled, secrets, batches, mfaRequest, taken>>

\* With few codes left, all of them are to be replaced.
CountCodes(m) ==
    /\ mfaRequest[m].pc = "count"
    /\ IF Cardinality(unused) <= RegenerateAt
       THEN mfaRequest' = [mfaRequest EXCEPT ![m] = [pc |-> "replace"]]
       ELSE Answer(m)
    /\ UNCHANGED <<mfaRow, mfaEnabled, secrets, batches, unused, marked, taken, undone>>

Replaced(old) == NewCodes

\* regenerate_backup_codes of the repository, which raises without a row.
ReplaceCodes ==
    IF mfaRow # 0
    THEN /\ batches < MaxBatches
         /\ batches' = batches + 1
         /\ unused' = Replaced(unused)
         /\ Commit
    ELSE UNCHANGED <<batches, unused, marked>>

RegenerateAfterUse(m) ==
    /\ mfaRequest[m].pc = "replace"
    /\ ReplaceCodes
    /\ Answer(m)
    /\ UNCHANGED <<mfaRow, mfaEnabled, secrets, taken, undone>>

\* regenerate_backup_codes, asked for by the user.
RegenerateBackupCodes ==
    /\ mfaRow # 0
    /\ ReplaceCodes
    /\ UNCHANGED <<mfaRow, mfaEnabled, secrets, mfaRequest, taken, undone>>

DisableMfa ==
    /\ mfaRow # 0
    /\ mfaRow' = 0
    /\ mfaEnabled' = FALSE
    /\ unused' = {}
    /\ Commit
    /\ UNCHANGED <<secrets, batches, mfaRequest, taken, undone>>

BCInit ==
    /\ mfaRow = 0
    /\ mfaEnabled = FALSE
    /\ secrets = 0
    /\ batches = 0
    /\ unused = {} /\ marked = {} /\ undone = {}
    /\ mfaRequest = [m \in MfaRequests |-> NoRequest]
    /\ taken = [c \in Codes |-> 0]

BCNext ==
    \/ GenerateMfaSecret
    \/ \E m \in MfaRequests :
         \/ ReadSetup(m) \/ EnableMfa(m) \/ ReadMfa(m)
         \/ \E c \in Codes : LookUpCode(m, c)
         \/ UseCode(m) \/ CommitUse(m) \/ CountCodes(m) \/ RegenerateAfterUse(m)
    \/ RegenerateBackupCodes
    \/ DisableMfa
    \/ RollBack

BCSpec == BCInit /\ [][BCNext]_bcVars

-----------------------------------------------------------------------------
(* Properties.                                                             *)

\* A backup code lets one request in, and no second one, whatever happens
\* between its look-up and its use: another request with the same code, a new
\* batch, a disabling and a new set-up.  The exception is a code whose mark the
\* end of another session rolled back before it was committed.
CodeUsedOnce == \A c \in Codes : taken[c] <= 1 \/ c \in undone

===============================================================================
