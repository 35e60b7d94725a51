--------------------------- MODULE PlatformProofs ---------------------------
(***************************************************************************)
(* Proofs about the services that everything else runs on: the queue of    *)
(* notifications, the update of the database, the service registry and the *)
(* brake safety monitor, for every set of notifications, migrations, services *)
(* and operations, every batch size and every deadline.                    *)
(***************************************************************************)
EXTENDS NotificationQueue, DatabaseUpdate, ServiceRegistry, BrakeSafetyMonitor,
        SequenceLemmas

-----------------------------------------------------------------------------
(* The notification queue.                                                 *)

\* Who holds the lock is flushing, and the flush writes the whole batch.
LockInv ==
    /\ lockHolder \in Notifications \cup {"nobody", "timer", "close"}
    /\ \A n \in Notifications : enqueued[n] = "flushing" <=> lockHolder = n
    /\ _batch_timer = "flushing" <=> lockHolder = "timer"
    /\ closing = "flushing" <=> lockHolder = "close"
    /\ writing = IF lockHolder = "nobody" THEN {} ELSE ToSet(_write_batch)

\* What has been appended is in the batch or in the table; if it is only in the
\* batch, a timer that is not done will see it.
KeptInv ==
    /\ _write_batch \in Seq(Notifications)
    /\ enqueued \in [Notifications -> {"no", "waiting", "flushing", "returned"}]
    /\ _batch_timer \in {"none", "sleeping", "waiting", "flushing", "cancelled", "done"}
    /\ closing = "no" => _batch_timer # "cancelled"
    /\ \A n \in Notifications : enqueued[n] \in {"flushing", "returned"} =>
         /\ n \in rows \cup ToSet(_write_batch)
         /\ n \in rows \/ flushFailed \/ closing # "no"
                \/ _batch_timer \in {"sleeping", "waiting"} \/ n \in writing

\* The queue is closed with nothing left behind.
ClosedInv ==
    /\ closing \in {"no", "waiting", "flushing", "closed"}
    /\ before \subseteq {n \in Notifications : enqueued[n] = "returned"}
    /\ closing = "closed" /\ ~flushFailed => before \subseteq rows

QueueInv == LockInv /\ KeptInv /\ ClosedInv

LEMMA EmptyBatch == ToSet(<<>>) = {}
BY DEF ToSet

\* Appending adds one notification.
LEMMA AppendedBatch ==
    ASSUME NEW S, NEW s \in Seq(S), NEW n \in S
    PROVE  ToSet(Append(s, n)) = ToSet(s) \cup {n}
<1>1. ASSUME NEW x \in ToSet(Append(s, n)) PROVE x \in ToSet(s) \cup {n}
  <2>1. PICK i \in DOMAIN Append(s, n) : x = Append(s, n)[i]
    BY <1>1 DEF ToSet
  <2>2. CASE i = Len(s) + 1
    BY <2>1, <2>2
  <2>3. CASE i # Len(s) + 1
    <3>1. i \in DOMAIN s /\ Append(s, n)[i] = s[i]
      BY <2>1, <2>3
    <3> QED
      BY <2>1, <3>1 DEF ToSet
  <2> QED
    BY <2>2, <2>3
<1>2. ASSUME NEW x \in ToSet(s) PROVE x \in ToSet(Append(s, n))
  <2>1. PICK i \in DOMAIN s : x = s[i]
    BY <1>2 DEF ToSet
  <2>2. i \in DOMAIN Append(s, n) /\ Append(s, n)[i] = s[i]
    BY <2>1
  <2> QED
    BY <2>1, <2>2 DEF ToSet
<1>3. n \in ToSet(Append(s, n))
  <2>1. Len(s) + 1 \in DOMAIN Append(s, n) /\ Append(s, n)[Len(s) + 1] = n
    OBVIOUS
  <2> QED
    BY <2>1 DEF ToSet
<1> QED
  BY <1>1, <1>2, <1>3

LEMMA InitialQueue == NQInit => QueueInv
BY NotificationAssumption, EmptyBatch DEF NQInit, QueueInv, LockInv, KeptInv, ClosedInv

\* A notification joins the batch under the lock.
LEMMA AppendKeeps ==
    ASSUME QueueInv, NEW n \in Notifications, AppendToBatch(n)
    PROVE  QueueInv'
<1>1. /\ _write_batch' = Append(_write_batch, n)
      /\ _write_batch' \in Seq(Notifications)
      /\ ToSet(_write_batch') = ToSet(_write_batch) \cup {n}
      /\ lockHolder = "nobody" /\ writing = {} /\ enqueued[n] = "waiting"
  BY AppendedBatch DEF QueueInv, KeptInv, LockInv, AppendToBatch, MayAppend, LockFree
<1>2. n \notin before
  BY <1>1 DEF QueueInv, ClosedInv
<1>3. LockInv'
  BY <1>1, NotificationAssumption DEF QueueInv, LockInv, KeptInv, AppendToBatch
<1>4. KeptInv'
  <2>1. /\ _batch_timer' = IF _batch_timer \in {"none", "done"} THEN "sleeping" ELSE _batch_timer
        /\ UNCHANGED <<rows, closing, flushFailed>>
    BY DEF AppendToBatch
  <2>2. /\ _batch_timer' \in {"none", "sleeping", "waiting", "flushing", "cancelled", "done"}
        /\ closing' = "no" => _batch_timer' # "cancelled"
    BY <2>1 DEF QueueInv, KeptInv
  <2>3. /\ enqueued' \in [Notifications -> {"no", "waiting", "flushing", "returned"}]
        /\ \A p \in Notifications \ {n} : enqueued'[p] = enqueued[p]
    BY DEF QueueInv, KeptInv, AppendToBatch
  <2>4. ASSUME NEW p \in Notifications, enqueued'[p] \in {"flushing", "returned"}
        PROVE  /\ p \in rows' \cup ToSet(_write_batch')
               /\ p \in rows' \/ flushFailed' \/ closing' # "no"
                      \/ _batch_timer' \in {"sleeping", "waiting"} \/ p \in writing'
    <3>1. CASE p # n
      BY <1>1, <2>1, <2>3, <2>4, <3>1 DEF QueueInv, KeptInv
    <3>2. CASE p = n
      <4>1. _batch_timer \in {"none", "sleeping", "waiting", "done"} \/ closing # "no"
        BY <1>1, NotificationAssumption DEF QueueInv, KeptInv, LockInv
      <4> QED
        BY <1>1, <2>1, <3>2, <4>1
    <3> QED
      BY <3>1, <3>2
  <2> QED
    BY <1>1, <2>2, <2>3, <2>4 DEF KeptInv
<1>5. ClosedInv'
  BY <1>1, <1>2 DEF QueueInv, ClosedInv, KeptInv, AppendToBatch
<1> QED
  BY <1>3, <1>4, <1>5 DEF QueueInv

\* A flush that ends has the whole batch in the table, or has failed.
LEMMA FlushWritesBatch ==
    ASSUME QueueInv, NEW h, h # "nobody", FlushEnds(h)
    PROVE  /\ lockHolder = h /\ lockHolder' = "nobody" /\ writing' = {}
           /\ _write_batch' \in Seq(Notifications)
           /\ rows \subseteq rows'
           /\ rows \cup ToSet(_write_batch) \subseteq rows' \cup ToSet(_write_batch')
           /\ rows \cup ToSet(_write_batch) \subseteq rows' \/ flushFailed'
           /\ flushFailed => flushFailed'
<1>1. /\ lockHolder = h /\ writing = ToSet(_write_batch) /\ _write_batch \in Seq(Notifications)
      /\ lockHolder' = "nobody" /\ writing' = {}
  BY DEF FlushEnds, QueueInv, LockInv, KeptInv
<1>2. CASE rows' = rows \cup writing /\ _write_batch' = <<>> /\ flushFailed' = flushFailed
  BY <1>1, <1>2
<1>3. CASE UNCHANGED <<rows, _write_batch>> /\ flushFailed' = TRUE
  BY <1>1, <1>3
<1> QED
  BY <1>2, <1>3 DEF FlushEnds

LEMMA EnqueueFlushedKeeps ==
    ASSUME QueueInv, NEW n \in Notifications, EnqueueFlushed(n)
    PROVE  QueueInv'
<1>1. n # "nobody" /\ n # "timer" /\ n # "close" /\ FlushEnds(n)
  BY NotificationAssumption DEF EnqueueFlushed
<1>2. LockInv'
  BY <1>1, FlushWritesBatch, NotificationAssumption DEF EnqueueFlushed, QueueInv, LockInv, KeptInv
<1>3. KeptInv'
  BY <1>1, FlushWritesBatch DEF EnqueueFlushed, QueueInv, LockInv, KeptInv
<1>4. ClosedInv'
  BY <1>1, FlushWritesBatch DEF EnqueueFlushed, QueueInv, ClosedInv, KeptInv
<1> QED
  BY <1>2, <1>3, <1>4 DEF QueueInv

LEMMA TimerFlushedKeeps ==
    ASSUME QueueInv, TimerFlushed
    PROVE  QueueInv'
<1>1. FlushEnds("timer")
  BY DEF TimerFlushed
<1>2. LockInv'
  BY <1>1, FlushWritesBatch, NotificationAssumption DEF TimerFlushed, QueueInv, LockInv
<1>3. KeptInv'
  BY <1>1, FlushWritesBatch DEF TimerFlushed, QueueInv, KeptInv
<1>4. ClosedInv'
  BY <1>1, FlushWritesBatch DEF TimerFlushed, QueueInv, ClosedInv
<1> QED
  BY <1>2, <1>3, <1>4 DEF QueueInv

LEMMA CloseFlushedKeeps ==
    ASSUME QueueInv, CloseFlushed
    PROVE  QueueInv'
<1>1. FlushEnds("close")
  BY DEF CloseFlushed
<1>2. LockInv'
  BY <1>1, FlushWritesBatch, NotificationAssumption
     DEF CloseFlushed, CancelTimer, QueueInv, LockInv
<1>3. KeptInv'
  BY <1>1, FlushWritesBatch DEF CloseFlushed, CancelTimer, QueueInv, KeptInv
<1>4. ClosedInv'
  BY <1>1, FlushWritesBatch DEF CloseFlushed, QueueInv, ClosedInv, KeptInv
<1> QED
  BY <1>2, <1>3, <1>4 DEF QueueInv

\* Every other step leaves the batch and the table as they are.
LEMMA OthersKeep ==
    ASSUME QueueInv,
           \/ \E n \in Notifications : Enqueue(n)
           \/ TimerWakes \/ TimerFlushes \/ TimerCancelled \/ BeginClose \/ CloseFlushes
           \/ UNCHANGED nqVars
    PROVE  QueueInv'
<1>1. ASSUME NEW n \in Notifications, Enqueue(n) PROVE QueueInv'
  BY <1>1 DEF Enqueue, QueueInv, LockInv, KeptInv, ClosedInv
<1>2. CASE TimerWakes
  BY <1>2 DEF TimerWakes, QueueInv, LockInv, KeptInv, ClosedInv
<1>3. CASE TimerFlushes
  BY <1>3, EmptyBatch, NotificationAssumption
     DEF TimerFlushes, LockFree, QueueInv, LockInv, KeptInv, ClosedInv
<1>4. CASE BeginClose
  BY <1>4 DEF BeginClose, QueueInv, LockInv, KeptInv, ClosedInv
<1>5. CASE CloseFlushes
  BY <1>5, EmptyBatch, NotificationAssumption
     DEF CloseFlushes, CancelTimer, LockFree, QueueInv, LockInv, KeptInv, ClosedInv
<1>6. CASE TimerCancelled
  BY <1>6 DEF TimerCancelled, QueueInv, LockInv, KeptInv, ClosedInv
<1>7. CASE UNCHANGED nqVars
  BY <1>7 DEF nqVars, QueueInv, LockInv, KeptInv, ClosedInv
<1> QED
  BY <1>1, <1>2, <1>3, <1>4, <1>5, <1>6, <1>7

\* No notification whose enqueue has returned is forgotten, whichever of the
\* calls, the timer and close() flush in whatever order, and none that was
\* enqueued before the queue was closed is left unwritten unless a flush failed.
THEOREM NoNotificationForgotten == NQSpec => []EnqueuedIsWritten
<1>1. QueueInv /\ [NQNext]_nqVars => QueueInv'
  BY AppendKeeps, EnqueueFlushedKeeps, TimerFlushedKeeps, CloseFlushedKeeps, OthersKeep
     DEF NQNext
<1>2. QueueInv => EnqueuedIsWritten
  BY DEF QueueInv, KeptInv, ClosedInv, EnqueuedIsWritten
<1> QED
  BY InitialQueue, <1>1, <1>2, PTL DEF NQSpec

-----------------------------------------------------------------------------
(* The update of the database.                                             *)

Versions == (Nat \ {0}) \cup {Torn}

DUTypeOK ==
    /\ schema \in Versions
    /\ job \in [Migrations -> {"idle", "checked", "begin", "planning", "migrating", "verifying",
                               "recording", "failing", "restoring", "ended"}]
    /\ backup \in [Migrations -> Versions \cup {0}]
    /\ current_version \in [Migrations -> Versions \cup {0}]
    /\ was \in [Migrations -> Versions \cup {0}]
    /\ left \in [Migrations -> Versions \cup {0}]
    /\ result \in [Migrations -> {"none", "completed", "failed", "rolling_back"}]
    /\ rolledBack \in [Migrations -> BOOLEAN]
    /\ alone \in [Migrations -> BOOLEAN]
    /\ slipped \in [Migrations -> BOOLEAN]

\* The flag misses a running job only after two calls have raced.
FlagInv ==
    ~raced => /\ \A m, n \in Running : m = n
              /\ Running # {} => _migration_in_progress

\* A job that is alone is the only one running.
AloneInv == \A m, n \in Running : alone[m] => n = m

\* What a job that is alone knows of the schema at each place: it is the one it
\* found until it migrates, and the back-up, if there is one, is that one.
JobInv(m) ==
    /\ result[m] = "completed" => job[m] \in {"recording", "failing", "ended"}
    /\ job[m] = "recording" => result[m] = "completed"
    /\ job[m] \in {"idle", "checked"} => backup[m] = 0
    /\ job[m] = "restoring" => backup[m] # 0
    /\ job[m] # "idle" /\ job[m] # "checked" /\ alone[m] =>
         /\ backup[m] \in {0, was[m]}
         /\ job[m] \in {"begin", "planning", "migrating"} => schema = was[m]
         /\ job[m] \in {"migrating", "verifying"} => current_version[m] = was[m]
         /\ job[m] = "verifying" => (schema = Torn => was[m] = Torn)
         /\ job[m] # "ended" /\ result[m] = "completed" => schema # was[m] /\ schema # Torn
         /\ job[m] = "ended" =>
              /\ result[m] = "completed" => left[m] \notin {was[m], Torn}
              /\ result[m] # "completed" /\ backup[m] # 0 /\ ~slipped[m]
                     => rolledBack[m] /\ left[m] = was[m]

DUInv == DUTypeOK /\ FlagInv /\ AloneInv /\ \A m \in Migrations : JobInv(m)

\* The steps of a running job.
Step(m) ==
    \/ Raises(m) \/ BackUp(m) \/ Plan(m) \/ Migrate(m) \/ Verify(m) \/ Complete(m)
    \/ RecordFailure(m) \/ Restore(m)

LEMMA InitialUpdate == DUInit => DUInv
BY DatabaseUpdateAssumption
   DEF DUInit, DUInv, DUTypeOK, FlagInv, AloneInv, JobInv, Running, Versions

LEMMA CheckKeeps ==
    ASSUME DUInv, NEW m \in Migrations, CheckMigration(m)
    PROVE  DUInv'
<1>1. DUTypeOK' /\ Running' = Running
  BY DEF DUInv, DUTypeOK, CheckMigration, Running
<1>2. FlagInv' /\ AloneInv'
  BY <1>1 DEF DUInv, FlagInv, AloneInv, CheckMigration
<1>3. ASSUME NEW n \in Migrations PROVE JobInv(n)'
  BY <1>1 DEF DUInv, DUTypeOK, JobInv, CheckMigration
<1> QED
  BY <1>1, <1>2, <1>3 DEF DUInv

LEMMA AcceptKeeps ==
    ASSUME DUInv, NEW m \in Migrations, AcceptMigration(m)
    PROVE  DUInv'
<1>1. DUTypeOK'
  BY DEF DUInv, DUTypeOK, AcceptMigration
<1>2. Running' = Running \cup {m} /\ m \notin Running
  BY DEF DUInv, DUTypeOK, AcceptMigration, Running
<1>3. FlagInv'
  BY <1>2 DEF DUInv, FlagInv, AcceptMigration
<1>4. AloneInv'
  BY <1>2 DEF DUInv, DUTypeOK, AloneInv, AcceptMigration, Running
<1>5. ASSUME NEW n \in Migrations PROVE JobInv(n)'
  <2>1. CASE n = m
    BY <2>1 DEF DUInv, DUTypeOK, JobInv, AcceptMigration
  <2>2. CASE n # m
    BY <2>2, <1>2 DEF DUInv, DUTypeOK, JobInv, AcceptMigration, Running
  <2> QED
    BY <2>1, <2>2
<1> QED
  BY <1>1, <1>3, <1>4, <1>5 DEF DUInv

\* A step of a job concerns that job, and ends it or keeps it running.
LEMMA StepShape ==
    ASSUME DUInv, NEW m \in Migrations, Step(m)
    PROVE  /\ DUTypeOK'
           /\ m \in Running
           /\ Running' \in {Running, Running \ {m}}
           /\ Running' = Running => UNCHANGED _migration_in_progress
           /\ UNCHANGED <<was, alone, raced>>
           /\ \A n \in Migrations \ {m} :
                /\ job'[n] = job[n] /\ backup'[n] = backup[n] /\ left'[n] = left[n]
                /\ current_version'[n] = current_version[n] /\ result'[n] = result[n]
                /\ rolledBack'[n] = rolledBack[n] /\ slipped'[n] = slipped[n]
<1> USE DatabaseUpdateAssumption DEF DUInv, DUTypeOK, Running, Versions, GoOn, Finish, StepTo
<1>1. CASE Raises(m)
  BY <1>1 DEF Raises
<1>2. CASE BackUp(m)
  BY <1>2 DEF BackUp
<1>3. CASE Plan(m)
  BY <1>3 DEF Plan
<1>4. CASE Migrate(m)
  BY <1>4 DEF Migrate
<1>5. CASE Verify(m)
  BY <1>5 DEF Verify
<1>6. CASE Complete(m)
  BY <1>6 DEF Complete
<1>7. CASE RecordFailure(m)
  <2>1. slipped' \in {slipped, [slipped EXCEPT ![m] = TRUE]}
    BY <1>7 DEF RecordFailure
  <2>2. job' \in {[job EXCEPT ![m] = "ended"], [job EXCEPT ![m] = "restoring"]}
    BY <1>7 DEF RecordFailure
  <2>3. \/ result' = result
        \/ result' = [result EXCEPT ![m] = "failed"]
        \/ result' = [result EXCEPT ![m] = "rolling_back"]
    BY <1>7 DEF RecordFailure
  <2>4. left' \in {left, [left EXCEPT ![m] = schema]}
    BY <1>7 DEF RecordFailure
  <2>5. job'[m] = "restoring" => UNCHANGED _migration_in_progress
    BY <1>7 DEF RecordFailure
  <2>6. UNCHANGED <<schema, backup, current_version, rolledBack, was, alone, raced>> /\ job[m] = "failing"
    BY <1>7 DEF RecordFailure
  <2>7. DUTypeOK'
    <3>1. slipped' \in [Migrations -> BOOLEAN]
      BY <2>1
    <3>2. result' \in [Migrations -> {"none", "completed", "failed", "rolling_back"}]
      BY <2>3
    <3>3. left' \in [Migrations -> Versions \cup {0}]
      BY <2>4
    <3>4. job' \in [Migrations -> {"idle", "checked", "begin", "planning", "migrating", "verifying",
                                   "recording", "failing", "restoring", "ended"}]
      BY <2>2
    <3> QED
      BY <2>6, <3>1, <3>2, <3>3, <3>4
  <2>8. CASE job' = [job EXCEPT ![m] = "ended"]
    BY <2>1, <2>3, <2>4, <2>6, <2>7, <2>8
  <2>9. CASE job' = [job EXCEPT ![m] = "restoring"]
    BY <2>1, <2>3, <2>4, <2>5, <2>6, <2>7, <2>9
  <2> QED
    BY <2>2, <2>8, <2>9
<1>8. CASE Restore(m)
  <2>1. /\ slipped' \in {slipped, [slipped EXCEPT ![m] = TRUE]}
        /\ rolledBack' \in {rolledBack, [rolledBack EXCEPT ![m] = TRUE]}
    BY <1>8 DEF Restore
  <2>2. schema' \in {schema, backup[m]} /\ job[m] = "restoring" /\ backup[m] # 0
    BY <1>8 DEF Restore, JobInv
  <2>3. /\ job' = [job EXCEPT ![m] = "ended"]
        /\ left' = [left EXCEPT ![m] = schema']
        /\ UNCHANGED <<backup, current_version, result, was, alone, raced>>
    BY <1>8 DEF Restore
  <2> QED
    BY <2>1, <2>2, <2>3
<1> QED
  BY <1>1, <1>2, <1>3, <1>4, <1>5, <1>6, <1>7, <1>8 DEF Step

\* What the job that steps knows afterwards.
LEMMA StepKeepsOwn ==
    ASSUME DUInv, NEW m \in Migrations, Step(m)
    PROVE  JobInv(m)'
<1> USE DatabaseUpdateAssumption DEF DUInv, DUTypeOK, JobInv, Versions, GoOn, Finish, StepTo
<1>1. CASE Raises(m)
  BY <1>1 DEF Raises
<1>2. CASE BackUp(m)
  BY <1>2 DEF BackUp
<1>3. CASE Plan(m)
  BY <1>3 DEF Plan
<1>4. CASE Migrate(m)
  BY <1>4 DEF Migrate
<1>5. CASE Verify(m)
  BY <1>5 DEF Verify, Verified
<1>6. CASE Complete(m)
  BY <1>6 DEF Complete
<1>7. CASE RecordFailure(m)
  BY <1>7 DEF RecordFailure
<1>8. CASE Restore(m)
  BY <1>8 DEF Restore
<1> QED
  BY <1>1, <1>2, <1>3, <1>4, <1>5, <1>6, <1>7, <1>8 DEF Step

LEMMA StepKeeps ==
    ASSUME DUInv, NEW m \in Migrations, Step(m)
    PROVE  DUInv'
<1>1. AloneInv'
  BY StepShape DEF DUInv, AloneInv
<1>2. FlagInv'
  BY StepShape DEF DUInv, FlagInv
<1>3. ASSUME NEW n \in Migrations, n # m PROVE JobInv(n)'
  <2>1. CASE n \in Running
    <3>1. ~alone[n]
      BY <1>3, <2>1, StepShape DEF DUInv, AloneInv
    <3> QED
      BY <1>3, <2>1, <3>1, StepShape DEF DUInv, JobInv, Running
  <2>2. CASE n \notin Running
    BY <1>3, <2>2, StepShape DEF DUInv, JobInv, Running
  <2> QED
    BY <2>1, <2>2
<1> QED
  BY <1>1, <1>2, <1>3, StepShape, StepKeepsOwn DEF DUInv

\* A job that ran alone migrates the database or leaves it as it was, whatever
\* fails, unless the roll-back itself does; and jobs overlap only after two calls
\* have raced for the flag.
THEOREM UpdatesAllOrNothing == DUSpec => []MigrationAllOrNothing
<1>1. DUInv /\ [DUNext]_duVars => DUInv'
  <2>1. ASSUME DUInv, UNCHANGED duVars PROVE DUInv'
    BY <2>1 DEF duVars, DUInv, DUTypeOK, FlagInv, AloneInv, JobInv, Running
  <2> QED
    BY <2>1, CheckKeeps, AcceptKeeps, StepKeeps DEF DUNext, Step
<1>2. DUInv => MigrationAllOrNothing
  BY DEF DUInv, JobInv, FlagInv, MigrationAllOrNothing
<1> QED
  BY InitialUpdate, <1>1, <1>2, PTL DEF DUSpec

-----------------------------------------------------------------------------
(* The stages of the services.                                             *)

\* A set of integers between two numbers, not empty, has a smallest and a largest
\* element, which Min and Max are.
LEMMA SmallestElement ==
    ASSUME NEW n \in Nat, NEW S \in SUBSET 1..n, S # {}
    PROVE  Min(S) \in S /\ \A y \in S : Min(S) <= y
<1>1. S \in SUBSET Nat
  OBVIOUS
<1>2. \E x \in S : \A y \in S : x <= y
  BY <1>1, LeastElement
<1> QED
  BY <1>2 DEF Min

LEMMA LargestElement ==
    ASSUME NEW n \in Nat, NEW S \in SUBSET -1..n, S # {}
    PROVE  Max(S) \in S /\ \A y \in S : y <= Max(S)
<1> DEFINE T == {n - x : x \in S}
<1>1. \A x \in S : x \in Int /\ n - x \in Nat
  OBVIOUS
<1>2. T \in SUBSET Nat /\ T # {}
  BY <1>1
<1>3. PICK t \in T : \A u \in T : t <= u
  <2> HIDE DEF T
  <2> QED
    BY <1>2, LeastElement
<1>4. PICK x \in S : t = n - x
  BY <1>3
<1>5. \A y \in S : y <= x
  <2> TAKE y \in S
  <2>1. n - x <= n - y
    BY <1>3, <1>4
  <2> QED
    BY <2>1, <1>1
<1>6. \E z \in S : \A y \in S : z >= y
  BY <1>1, <1>5
<1> QED
  BY <1>1, <1>6 DEF Max

\* The recursion by which the services become ready.
LEMMA ReadyAfter ==
    /\ N \in Nat
    /\ Ready[0] = {}
    /\ \A n \in 1..N : Ready[n] = {s \in Services : requires[s] \subseteq Ready[n - 1]}
<1> DEFINE T == SUBSET Services
           g == [p \in (1..N) \X T |-> {s \in Services : requires[s] \subseteq p[2]}]
           Is(f) == f = [n \in 0..N |->
               IF n = 0 THEN {} ELSE {s \in Services : requires[s] \subseteq f[n - 1]}]
<1>1. N \in Nat
  BY ServiceRegistryAssumption, FS_CardinalityType DEF N
<1>2. g \in Steps(N, T) /\ {} \in T
  BY DEF Steps
<1>3. PICK f \in [0..N -> T] : f[0] = {} /\ \A i \in 1..N : f[i] = g[<<i, f[i - 1]>>]
  <2>1. Recursion(N, T, {}, g) # {}
    <3> HIDE DEF g, T
    <3> QED
      BY <1>1, <1>2, RecursionExists
  <2> QED
    BY <2>1 DEF Recursion
<1>4. \A i \in 1..N : f[i] = {s \in Services : requires[s] \subseteq f[i - 1]}
  <2> TAKE i \in 1..N
  <2>1. i - 1 \in 0..N
    BY <1>1
  <2>2. <<i, f[i - 1]>> \in (1..N) \X T
    BY <2>1, <1>3
  <2> QED
    BY <2>2, <1>3
<1>5. Is(f)
  BY <1>1, <1>3, <1>4
<1>6. Is(CHOOSE h : Is(h))
  <2> HIDE DEF Is
  <2> QED
    BY <1>5
<1>7. Is(Ready)
  BY <1>6 DEF Ready
<1>8. 0 \in 0..N /\ \A n \in 1..N : n \in 0..N /\ n # 0
  BY <1>1
<1> QED
  BY <1>1, <1>7, <1>8

\* The rounds in which a service is ready, when there is no cycle.
Rounds(s) == {n \in 1..N : s \in Ready[n]}

LEMMA LayerIs ==
    ASSUME Acyclic, NEW s \in Services
    PROVE  /\ Layer(s) + 1 \in Rounds(s)
           /\ Layer(s) \in 0..N /\ \A n \in Rounds(s) : Layer(s) + 1 <= n
<1>1. s \in Ready[N] /\ N \in Nat
  BY ReadyAfter DEF Acyclic
<1>2. N # 0
  BY <1>1, ReadyAfter
<1>3. Rounds(s) # {} /\ Rounds(s) \in SUBSET 1..N
  BY <1>1, <1>2 DEF Rounds
<1>4. Min(Rounds(s)) \in Rounds(s) /\ \A y \in Rounds(s) : Min(Rounds(s)) <= y
  BY <1>1, <1>3, SmallestElement
<1>5. Layer(s) = Min(Rounds(s)) - 1 /\ Min(Rounds(s)) \in 1..N
  BY <1>3, <1>4 DEF Layer, Rounds
<1> HIDE DEF Layer
<1> QED
  BY <1>1, <1>4, <1>5

LEMMA LayersGrow ==
    ASSUME Acyclic, NEW s \in Services, NEW d \in Services, d \in requires[s]
    PROVE  Layer(d) < Layer(s)
<1> DEFINE n == Layer(s) + 1
<1>1. n \in 1..N /\ s \in Ready[n] /\ N \in Nat /\ Layer(s) \in Nat
  BY LayerIs, ReadyAfter DEF Rounds
<1>2. d \in Ready[n - 1] /\ n - 1 \in 0..N
  BY <1>1, ReadyAfter
<1>3. n - 1 # 0
  BY <1>2, ReadyAfter
<1>4. n - 1 \in Rounds(d)
  BY <1>1, <1>2, <1>3 DEF Rounds
<1>5. Layer(d) + 1 <= n - 1 /\ Layer(d) \in Nat
  BY <1>4, LayerIs, ReadyAfter
<1> QED
  BY <1>1, <1>5

\* The stages of what a service requires come before its own.
LEMMA StagesGrow ==
    ASSUME Acyclic, requires \in [Services -> SUBSET Services], NEW s \in Services
    PROVE  StageOf(s) \in Nat /\ \A d \in requires[s] : StageOf(d) < StageOf(s)
<1> DEFINE Below(t) == {-1} \cup {Layer(d) : d \in requires[t]}
<1>1. N \in Nat
  BY ReadyAfter
<1>2. ASSUME NEW t \in Services
      PROVE  /\ StageOf(t) = Max(Below(t)) + 1
             /\ Max(Below(t)) \in Below(t) /\ Max(Below(t)) \in -1..N
             /\ \A d \in requires[t] : d \in Services /\ Layer(d) \in 0..N /\ Layer(d) <= Max(Below(t))
  <2>1. \A d \in requires[t] : d \in Services /\ Layer(d) \in 0..N
    BY LayerIs
  <2>2. Below(t) \in SUBSET -1..N /\ Below(t) # {} /\ \A d \in requires[t] : Layer(d) \in Below(t)
    BY <2>1, <1>1
  <2>3. StageOf(t) = Max(Below(t)) + 1
    BY DEF StageOf
  <2> HIDE DEF Below
  <2>4. Max(Below(t)) \in Below(t) /\ \A y \in Below(t) : y <= Max(Below(t))
    BY <1>1, <2>2, LargestElement
  <2> QED
    BY <2>1, <2>2, <2>3, <2>4
<1>3. ASSUME NEW d \in requires[s] PROVE StageOf(d) < StageOf(s)
  <2>1. d \in Services /\ Layer(d) \in Nat /\ Layer(d) <= Max(Below(s)) /\ Max(Below(s)) \in -1..N
    <3> HIDE DEF Below
    <3>1. d \in Services /\ Layer(d) \in 0..N /\ Layer(d) <= Max(Below(s)) /\ Max(Below(s)) \in -1..N
      BY <1>2, <1>3
    <3> QED
      BY <3>1, <1>1
  <2>2. Max(Below(d)) < Layer(d)
    <3>1. CASE Max(Below(d)) = -1
      BY <2>1, <3>1
    <3>2. CASE \E e \in requires[d] : Max(Below(d)) = Layer(e)
      <4>1. PICK e \in requires[d] : Max(Below(d)) = Layer(e)
        BY <3>2
      <4>2. e \in Services
        BY <2>1, <4>1
      <4>3. Layer(e) < Layer(d)
        BY <2>1, <4>1, <4>2, LayersGrow
      <4> QED
        BY <4>1, <4>3
    <3>3. Max(Below(d)) \in Below(d)
      BY <2>1, <1>2
    <3> QED
      BY <3>1, <3>2, <3>3
  <2>3. Max(Below(d)) \in -1..N /\ StageOf(d) = Max(Below(d)) + 1 /\ StageOf(s) = Max(Below(s)) + 1
    BY <2>1, <1>2
  <2> HIDE DEF Below
  <2> QED
    BY <2>1, <2>2, <2>3, <1>1
<1>4. StageOf(s) \in Nat
  <2> HIDE DEF Below
  <2>1. StageOf(s) = Max(Below(s)) + 1 /\ Max(Below(s)) \in -1..N
    BY <1>2
  <2> QED
    BY <2>1, <1>1
<1> QED
  BY <1>3, <1>4

-----------------------------------------------------------------------------
(* The start-up.                                                           *)

IsCreated(s) == \E i \in DOMAIN created : created[i] = s

\* The stages before the current one are up, those after it have not begun;
\* while the clean-up goes on, what was created is to come or has been shut down.
StartupInv ==
    /\ requires \in [Services -> SUBSET Services]
    /\ serviceStatus \in [Services -> {"none", "starting", "created", "healthy", "failed"}]
    /\ phase \in {"new", "starting", "cleaning", "failed", "started", "closed"}
    /\ created \in Seq(Services) /\ toClean \in Seq(Services) /\ stage \in Int
    /\ phase = "new" => stage = 0 /\ created = <<>> /\ toClean = <<>> /\ \A s \in Services : serviceStatus[s] = "none"
    /\ phase = "starting" => Acyclic /\ \A s \in Services : StageOf(s) < stage => serviceStatus[s] = "healthy"
    /\ \A s \in Services : serviceStatus[s] \in {"starting", "created"} =>
         phase = "starting" /\ StageOf(s) = stage
    /\ \A s \in Services : serviceStatus[s] \in {"created", "healthy"} => IsCreated(s)
    /\ phase \in {"cleaning", "failed"} =>
         \A s \in Services : IsCreated(s) => s \in shutDown \/ \E i \in DOMAIN toClean : toClean[i] = s
    /\ phase = "failed" => toClean = <<>>
    /\ FailsOnlyByItself

LEMMA StagesFixed ==
    ASSUME UNCHANGED requires
    PROVE  /\ Acyclic' = Acyclic
           /\ \A s : StageOf(s)' = StageOf(s)
<1>1. Ready' = Ready
  BY DEF Ready
<1>2. \A s : Layer(s)' = Layer(s)
  BY <1>1 DEF Layer
<1> QED
  BY <1>1, <1>2 DEF Acyclic, StageOf

\* What a step on one service, in the current stage, must keep to.
LEMMA StatusKeeps ==
    ASSUME StartupInv, NEW s \in Services, phase = "starting", StageOf(s) = stage,
           NEW to \in {"starting", "created", "healthy", "failed"},
           serviceStatus' = [serviceStatus EXCEPT ![s] = to], serviceStatus[s] # "healthy",
           UNCHANGED <<requires, undefined, phase, stage, toClean, shutDown>>,
           created' \in Seq(Services),
           \A t \in Services : IsCreated(t) => IsCreated(t)',
           to \in {"created", "healthy"} => IsCreated(s)',
           raised \subseteq raised', to = "failed" => s \in raised'
    PROVE  StartupInv'
<1>1. Acyclic' = Acyclic /\ \A t : StageOf(t)' = StageOf(t)
  BY StagesFixed
<1>2. /\ serviceStatus' \in [Services -> {"none", "starting", "created", "healthy", "failed"}]
      /\ serviceStatus'[s] = to
      /\ \A t \in Services : t # s => serviceStatus'[t] = serviceStatus[t]
  BY DEF StartupInv
<1>3. stage \in Int /\ Acyclic
  BY DEF StartupInv
<1>4. ASSUME NEW t \in Services, StageOf(t) < stage PROVE serviceStatus'[t] = "healthy"
  <2>1. t # s
    BY <1>3, <1>4
  <2> QED
    BY <2>1, <1>2, <1>4 DEF StartupInv
<1>5. ASSUME NEW t \in Services, serviceStatus'[t] \in {"starting", "created"}
      PROVE  StageOf(t) = stage
  BY <1>2, <1>5 DEF StartupInv
<1>6. ASSUME NEW t \in Services, serviceStatus'[t] \in {"created", "healthy"}
      PROVE  IsCreated(t)'
  BY <1>2, <1>6 DEF StartupInv
<1>7. FailsOnlyByItself'
  BY <1>2 DEF StartupInv, FailsOnlyByItself
<1> QED
  BY <1>1, <1>2, <1>4, <1>5, <1>6, <1>7 DEF StartupInv

\* The end of a stage, of the resolution or of the clean-up.
LEMMA PhaseKeeps ==
    ASSUME StartupInv, UNCHANGED <<requires, serviceStatus, created, shutDown, raised>>,
           Resolve \/ NextStage \/ StartupRaises \/ Shutdown
    PROVE  StartupInv'
<1>0. /\ Acyclic' = Acyclic /\ \A t : StageOf(t)' = StageOf(t)
      /\ \A t : IsCreated(t)' = IsCreated(t)
      /\ stage \in Int
  BY StagesFixed DEF IsCreated, StartupInv
<1>1. CASE Resolve
  <2>1. /\ phase = "new" /\ stage' = stage /\ toClean' = toClean /\ toClean = <<>> /\ created = <<>>
        /\ phase' \in {"cleaning", "starting"} /\ (phase' = "starting" => Acyclic)
        /\ \A s \in Services : serviceStatus[s] = "none"
    BY <1>1 DEF Resolve, StartupInv
  <2>2. ASSUME Acyclic PROVE \A s \in Services : ~(StageOf(s) < stage)
    <3> TAKE s \in Services
    <3>1. StageOf(s) \in Nat
      BY <2>2, StagesGrow DEF StartupInv
    <3>2. stage = 0
      BY <2>1 DEF StartupInv
    <3> QED
      BY <3>1, <3>2
  <2>3. \A s \in Services : ~IsCreated(s)
    BY <2>1 DEF IsCreated
  <2>4. FailsOnlyByItself'
    BY <2>1 DEF FailsOnlyByItself
  <2> QED
    BY <1>0, <2>1, <2>2, <2>3, <2>4 DEF StartupInv
<1>2. CASE NextStage
  <2>1. phase = "starting" /\ Acyclic /\ \A s \in Services : StageOf(s) \in Nat
    BY <1>2, StagesGrow DEF NextStage, StartupInv
  <2>2. \A s \in Services : StageOf(s) = stage => serviceStatus[s] \in {"healthy", "failed"}
    BY <1>2 DEF NextStage, StageDone, InStage
  <2>3. \A s \in Services : serviceStatus[s] \notin {"starting", "created"}
    BY <2>2 DEF StartupInv
  <2>4. CASE phase' = "cleaning" /\ toClean' = created /\ stage' = stage
    <3>1. FailsOnlyByItself'
      BY <2>4 DEF FailsOnlyByItself, StartupInv
    <3>2. \A s \in Services : IsCreated(s)' => \E i \in DOMAIN toClean' : toClean'[i] = s
      BY <2>4 DEF IsCreated
    <3> QED
      BY <1>0, <2>3, <2>4, <3>1, <3>2 DEF StartupInv
  <2>5. CASE /\ \A s \in Services : StageOf(s) = stage => serviceStatus[s] # "failed"
             /\ phase' = IF \A s \in Services : StageOf(s) <= stage THEN "started" ELSE phase
             /\ stage' = stage + 1 /\ toClean' = toClean
    <3>1. ASSUME NEW s \in Services, StageOf(s) <= stage PROVE serviceStatus[s] = "healthy"
      <4>1. CASE StageOf(s) = stage
        BY <2>2, <2>5, <4>1
      <4>2. CASE StageOf(s) < stage
        BY <2>1, <4>2 DEF StartupInv
      <4> QED
        BY <3>1, <2>1, <1>0, <4>1, <4>2
    <3>2. \A s \in Services : StageOf(s) < stage + 1 => StageOf(s) <= stage
      BY <2>1, <1>0
    <3>3. phase' \in {"starting", "started"} /\ stage + 1 \in Int
      BY <2>1, <2>5, <1>0
    <3>4. FailsOnlyByItself'
      BY <2>5, <2>1, <3>1 DEF FailsOnlyByItself, StartupInv
    <3> QED
      BY <1>0, <2>1, <2>3, <2>5, <3>1, <3>2, <3>3, <3>4 DEF StartupInv
  <2> QED
    BY <1>2, <2>4, <2>5 DEF NextStage, InStage
<1>3. CASE StartupRaises
  BY <1>0, <1>3 DEF StartupRaises, StartupInv, FailsOnlyByItself
<1>4. CASE Shutdown
  BY <1>0, <1>4 DEF Shutdown, StartupInv, FailsOnlyByItself
<1> QED
  BY <1>1, <1>2, <1>3, <1>4

LEMMA CleanUpKeeps ==
    ASSUME StartupInv, CleanUpNext
    PROVE  StartupInv'
<1>0. /\ Acyclic' = Acyclic /\ \A t : StageOf(t)' = StageOf(t)
      /\ \A t : IsCreated(t)' = IsCreated(t)
  BY StagesFixed DEF IsCreated, CleanUpNext
<1>1. /\ phase = "cleaning" /\ phase' = phase /\ toClean \in Seq(Services) /\ toClean # <<>>
      /\ toClean' = Tail(toClean) /\ shutDown' = shutDown \cup {Head(toClean)}
      /\ UNCHANGED <<requires, undefined, stage, serviceStatus, created, raised>>
  BY DEF CleanUpNext, StartupInv
<1>2. /\ toClean' \in Seq(Services)
      /\ \A i \in DOMAIN toClean : i = 1 \/ (i - 1 \in DOMAIN toClean' /\ toClean'[i - 1] = toClean[i])
      /\ Head(toClean) = toClean[1]
  <2>1. Len(toClean) \in Nat \ {0} /\ DOMAIN toClean = 1..Len(toClean)
    BY <1>1, EmptySeq
  <2>2. /\ Tail(toClean) \in Seq(Services) /\ Len(Tail(toClean)) = Len(toClean) - 1
        /\ \A i \in 1..Len(Tail(toClean)) : Tail(toClean)[i] = toClean[i + 1]
        /\ DOMAIN Tail(toClean) = 1..Len(Tail(toClean))
    BY <1>1, HeadTailProperties
  <2>3. ASSUME NEW i \in 1..Len(toClean), i # 1
        PROVE  i - 1 \in 1..Len(Tail(toClean)) /\ Tail(toClean)[i - 1] = toClean[i]
    <3>1. i - 1 \in 1..Len(Tail(toClean)) /\ (i - 1) + 1 = i
      BY <2>1, <2>2, <2>3
    <3> QED
      BY <3>1, <2>2
  <2> QED
    BY <1>1, <2>1, <2>2, <2>3
<1>3. ASSUME NEW s \in Services, IsCreated(s)
      PROVE  s \in shutDown' \/ \E i \in DOMAIN toClean' : toClean'[i] = s
  <2>1. CASE s \in shutDown
    BY <2>1, <1>1
  <2>2. CASE \E i \in DOMAIN toClean : toClean[i] = s
    <3>1. PICK i \in DOMAIN toClean : toClean[i] = s
      BY <2>2
    <3>2. CASE i = 1
      BY <3>1, <3>2, <1>1, <1>2
    <3>3. CASE i # 1
      BY <3>1, <3>3, <1>2
    <3> QED
      BY <3>2, <3>3
  <2> QED
    BY <1>1, <1>3, <2>1, <2>2 DEF StartupInv
<1>4. FailsOnlyByItself'
  BY <1>1 DEF FailsOnlyByItself, StartupInv
<1> QED
  BY <1>0, <1>1, <1>2, <1>3, <1>4 DEF StartupInv

LEMMA StartupInvHolds == SRSpec => []StartupInv
<1>1. SRInit => StartupInv
  <2> SUFFICES ASSUME SRInit PROVE StartupInv
    OBVIOUS
  <2>1. <<>> \in Seq(Services)
    OBVIOUS
  <2> QED
    BY <2>1 DEF SRInit, StartupInv, FailsOnlyByItself
<1>2. StartupInv /\ [SRNext]_srVars => StartupInv'
  <2> SUFFICES ASSUME StartupInv, [SRNext]_srVars PROVE StartupInv'
    OBVIOUS
  <2>0. /\ created \in Seq(Services)
        /\ requires \in [Services -> SUBSET Services] /\ stage \in Int
        /\ phase = "starting" => Acyclic
        /\ \A s \in Services : serviceStatus[s] \in {"starting", "created"} =>
               phase = "starting" /\ StageOf(s) = stage
    BY DEF StartupInv
  <2>1. CASE Resolve \/ NextStage \/ StartupRaises \/ Shutdown
    BY <2>1, PhaseKeeps DEF Resolve, NextStage, StartupRaises, Shutdown
  <2>2. CASE CleanUpNext
    BY <2>2, CleanUpKeeps
  <2>3. ASSUME NEW s \in Services, BeginService(s) PROVE StartupInv'
    <3>1. phase = "starting" /\ StageOf(s) = stage /\ serviceStatus[s] = "none"
      BY <2>3 DEF BeginService, InStage
    <3>2. \A d \in requires[s] : d \in Services /\ serviceStatus[d] = "healthy"
      <4>1. \A d \in requires[s] : d \in Services /\ StageOf(d) < stage
        BY <2>0, <3>1, StagesGrow
      <4> QED
        BY <4>1, <3>1 DEF StartupInv
    <3>3. serviceStatus' = [serviceStatus EXCEPT ![s] = "starting"]
      BY <2>3, <3>2 DEF BeginService, HasService
    <3>4. UNCHANGED <<requires, undefined, phase, stage, created, toClean, shutDown, raised>>
      BY <2>3 DEF BeginService
    <3>5. \A t \in Services : IsCreated(t)' = IsCreated(t)
      BY <3>4 DEF IsCreated
    <3> QED
      BY <2>0, <3>1, <3>3, <3>4, <3>5, StatusKeeps
  <2>4. ASSUME NEW s \in Services, CreateService(s) PROVE StartupInv'
    <3>1. phase = "starting" /\ StageOf(s) = stage /\ serviceStatus[s] = "starting"
      BY <2>0, <2>4 DEF CreateService
    <3>2. /\ created' = Append(created, s) /\ serviceStatus' = [serviceStatus EXCEPT ![s] = "created"]
          /\ UNCHANGED <<requires, undefined, phase, stage, toClean, shutDown, raised>>
      BY <2>4 DEF CreateService
    <3>3. /\ created' \in Seq(Services) /\ DOMAIN created = 1..Len(created)
          /\ Len(created) \in Nat /\ DOMAIN created' = 1..(Len(created) + 1)
          /\ created'[Len(created) + 1] = s
          /\ \A i \in 1..Len(created) : created'[i] = created[i]
      BY <2>0, <3>2, AppendProperties
    <3>4. IsCreated(s)' /\ \A t \in Services : IsCreated(t) => IsCreated(t)'
      BY <3>3 DEF IsCreated
    <3> QED
      BY <3>1, <3>2, <3>3, <3>4, StatusKeeps
  <2>5. ASSUME NEW s \in Services, ServiceUp(s) PROVE StartupInv'
    <3>1. phase = "starting" /\ StageOf(s) = stage /\ serviceStatus[s] = "created" /\ IsCreated(s)
      BY <2>5 DEF ServiceUp, StartupInv
    <3>2. UNCHANGED <<requires, undefined, phase, stage, created, toClean, shutDown, raised>>
          /\ serviceStatus' = [serviceStatus EXCEPT ![s] = "healthy"]
      BY <2>5 DEF ServiceUp
    <3>3. \A t \in Services : IsCreated(t)' = IsCreated(t)
      BY <3>2 DEF IsCreated
    <3> QED
      BY <2>0, <3>1, <3>2, <3>3, StatusKeeps
  <2>6. ASSUME NEW s \in Services, ServiceRaises(s) PROVE StartupInv'
    <3>1. phase = "starting" /\ StageOf(s) = stage /\ serviceStatus[s] \in {"starting", "created"}
      BY <2>0, <2>6 DEF ServiceRaises
    <3>2. UNCHANGED <<requires, undefined, phase, stage, created, toClean, shutDown>>
          /\ serviceStatus' = [serviceStatus EXCEPT ![s] = "failed"] /\ raised' = raised \cup {s}
      BY <2>6 DEF ServiceRaises
    <3>3. \A t \in Services : IsCreated(t)' = IsCreated(t)
      BY <3>2 DEF IsCreated
    <3> QED
      BY <2>0, <3>1, <3>2, <3>3, StatusKeeps
  <2>7. CASE UNCHANGED srVars
    <3>1. /\ Acyclic' = Acyclic /\ \A t : StageOf(t)' = StageOf(t)
          /\ \A t : IsCreated(t)' = IsCreated(t)
      BY <2>7, StagesFixed DEF srVars, IsCreated
    <3>2. FailsOnlyByItself'
      BY <2>7 DEF srVars, FailsOnlyByItself, StartupInv
    <3> QED
      BY <2>7, <3>1, <3>2 DEF srVars, StartupInv
  <2> QED
    BY <2>1, <2>2, <2>3, <2>4, <2>5, <2>6, <2>7 DEF SRNext
<1> QED
  BY <1>1, <1>2, PTL DEF SRSpec

\* For every graph of required dependencies a service fails only because its own
\* code raised, and a start-up that ends well has brought every service up.
THEOREM StagesRespectDependencies == SRSpec => []FailsOnlyByItself
<1>1. StartupInv => FailsOnlyByItself
  BY DEF StartupInv
<1> QED
  BY <1>1, StartupInvHolds, PTL

\* Whatever failed, and however far the start-up came: when it raises, the clean-up
\* has come to all that was created and nothing is still being started.
THEOREM FailureIsCleanedUp == SRSpec => []FailedStartupCleansUp
<1>1. StartupInv => FailedStartupCleansUp
  <2> SUFFICES ASSUME StartupInv, phase = "failed", NEW s \in Services
               PROVE  /\ serviceStatus[s] \notin {"starting", "created"}
                      /\ serviceStatus[s] = "healthy" => s \in shutDown
                      /\ IsCreated(s) => s \in shutDown
    BY DEF FailedStartupCleansUp, IsCreated
  <2>1. toClean = <<>> /\ (IsCreated(s) => s \in shutDown \/ \E i \in DOMAIN toClean : toClean[i] = s)
    BY DEF StartupInv
  <2>2. IsCreated(s) => s \in shutDown
    BY <2>1
  <2> QED
    BY <2>2 DEF StartupInv
<1> QED
  BY <1>1, StartupInvHolds, PTL

-----------------------------------------------------------------------------
(* The deadlines of brake operations.                                      *)

Tracked(o) == started[o] # 0

\* The operation was not answered by its deadline, and its response or its task
\* has come since.
Overdue(o) == answered[o] = "late" \/ (watch[o] = "ended" /\ answered[o] = "no")

\* Every identifier that is pending or a violation is that of an operation.  One
\* that an undisrupted operation has for itself is pending, since the operation's
\* start, for as long as neither its response nor its task has come, and the wall
\* clock is past the deadline when the task wakes.
Undisrupted(o) == o \notin disrupted /\ Tracked(o) /\ Alone(o)

\* The wall clock is past the deadline; it will be when the countdown is over.
Past(o) == wallTime > started[o] + Deadline
WillBePast(o) ==
    /\ watch[o] = "created" => wallTime + due[o] > started[o]
    /\ watch[o] = "sleeping" => wallTime + due[o] > started[o] + Deadline
    /\ watch[o] = "ended" /\ answered[o] = "no" => Past(o)

BrakeTypes ==
    /\ wallTime \in Nat /\ wallTime # 0
    /\ started \in [Operations -> Nat] /\ due \in [Operations -> Nat]
    /\ answered \in [Operations -> {"no", "in time", "late"}]
    /\ watch \in [Operations -> {"none", "created", "sleeping", "ended"}]

OwnedInv ==
    /\ ~_enabled => DOMAIN pending_operations = {}
    /\ \A o \in Operations : ~Tracked(o) => watch[o] = "none" /\ answered[o] = "no"
    /\ \A id \in DOMAIN pending_operations :
         \E o \in Operations :
             Tracked(o) /\ Id(o) = id /\ pending_operations[id] = started[o]
    /\ \A id \in violations : \E o \in Operations : Tracked(o) /\ Id(o) = id

StillPending(o) ==
    Id(o) \in DOMAIN pending_operations <=> answered[o] = "no" /\ watch[o] # "ended"
Counted(o) == Id(o) \in violations <=> Overdue(o)

Watched ==
    \A id \in DOMAIN pending_operations :
        \E o \in Operations : Tracked(o) /\ Id(o) = id /\ watch[o] \in {"created", "sleeping"}

BrakeInv ==
    /\ BrakeTypes /\ OwnedInv /\ Watched
    /\ \A o \in Operations : Undisrupted(o) => StillPending(o) /\ WillBePast(o) /\ Counted(o)

LEMMA BrakeNumbers ==
    ASSUME BrakeTypes, NEW o \in Operations
    PROVE  /\ wallTime \in Nat /\ started[o] \in Nat /\ due[o] \in Nat /\ Deadline \in Nat
           /\ wallTime - started[o] > Deadline <=> Past(o)
<1>1. /\ wallTime \in Nat /\ started[o] \in Nat /\ due[o] \in Nat
  BY DEF BrakeTypes
<1>2. Deadline \in Nat
  BY BrakeAssumption
<1> QED
  BY <1>1, <1>2 DEF Past

LEMMA LateIs ==
    ASSUME BrakeTypes, OwnedInv, NEW o \in Operations, Undisrupted(o),
           Id(o) \in DOMAIN pending_operations
    PROVE  Late(Id(o)) <=> Past(o)
<1>1. pending_operations[Id(o)] = started[o]
  BY DEF OwnedInv, Undisrupted, Alone, Tracked
<1> QED
  BY <1>1, BrakeNumbers DEF Late

\* What is left of the pending operations after one is completed; when there are
\* any the monitor is switched on.
LEMMA CompletedOne ==
    ASSUME BrakeInv, NEW o \in Operations, Tracked(o), CompleteId(Id(o)), UNCHANGED started
    PROVE  /\ DOMAIN pending_operations' = DOMAIN pending_operations \ {Id(o)}
           /\ \A id \in DOMAIN pending_operations' : pending_operations'[id] = pending_operations[id]
           /\ \A id : id # Id(o) => (id \in violations' <=> id \in violations)
           /\ Id(o) \in violations' <=>
                Id(o) \in violations \/ (Id(o) \in DOMAIN pending_operations /\ Late(Id(o)))
           /\ violations' \subseteq violations \cup {Id(o)}
           /\ \A p \in Operations : Id(p)' = Id(p)
<1>1. Completed(Id(o)) = DOMAIN pending_operations \cap {Id(o)}
  BY DEF Completed, BrakeInv, OwnedInv
<1>2. /\ DOMAIN pending_operations' = DOMAIN pending_operations \ {Id(o)}
      /\ \A id \in DOMAIN pending_operations' : pending_operations'[id] = pending_operations[id]
  BY <1>1 DEF CompleteId
<1>3. violations' = violations \cup {i \in DOMAIN pending_operations \cap {Id(o)} : Late(i)}
  BY <1>1 DEF CompleteId
<1>4. \A p \in Operations : Id(p)' = Id(p)
  BY DEF Id
<1> QED
  BY <1>2, <1>3, <1>4

\* The steps that complete an operation: its response, and its task, which finds
\* the wall clock past the deadline unless the operation was disrupted.
LEMMA CompletionKeeps ==
    ASSUME BrakeInv, NEW o \in Operations, Tracked(o), CompleteId(Id(o)),
           UNCHANGED <<wallTime, _enabled, started, due, disrupted>>,
           \/ /\ answered[o] = "no" /\ watch' = watch
              /\ answered' = [answered EXCEPT ![o] = IF Past(o) THEN "late" ELSE "in time"]
           \/ /\ answered' = answered /\ watch[o] # "ended"
              /\ watch' = [watch EXCEPT ![o] = "ended"]
              /\ Undisrupted(o) => Past(o)
    PROVE  BrakeInv'
<1>1. /\ \A p \in Operations : Tracked(p)' = Tracked(p) /\ Id(p)' = Id(p)
      /\ \A p \in Operations : Undisrupted(p)' = Undisrupted(p) /\ Past(p)' = Past(p)
  BY DEF Tracked, Id, Alone, Undisrupted, Past
<1>2. BrakeTypes' /\ \A p \in Operations : p # o => answered'[p] = answered[p] /\ watch'[p] = watch[p]
  BY DEF BrakeInv, BrakeTypes
<1>3. OwnedInv'
  <2>1. \A id \in DOMAIN pending_operations' :
          \E p \in Operations : Tracked(p)' /\ Id(p)' = id /\ pending_operations'[id] = started'[p]
    <3> TAKE id \in DOMAIN pending_operations'
    <3>1. id \in DOMAIN pending_operations /\ pending_operations'[id] = pending_operations[id]
      BY CompletedOne
    <3>2. PICK p \in Operations : Tracked(p) /\ Id(p) = id /\ pending_operations[id] = started[p]
      BY <3>1 DEF BrakeInv, OwnedInv
    <3> QED
      BY <1>1, <3>1, <3>2
  <2>2. \A id \in violations' : \E p \in Operations : Tracked(p)' /\ Id(p)' = id
    <3> TAKE id \in violations'
    <3>1. CASE id = Id(o)
      BY <1>1, <3>1
    <3>2. CASE id # Id(o)
      <4>1. id \in violations
        BY <3>2, CompletedOne
      <4> QED
        <5>1. PICK p \in Operations : Tracked(p) /\ Id(p) = id
          BY <4>1 DEF BrakeInv, OwnedInv
        <5> QED
          BY <1>1, <5>1
    <3> QED
      BY <3>1, <3>2
  <2>3. \A p \in Operations : ~Tracked(p)' => watch'[p] = "none" /\ answered'[p] = "no"
    BY <1>1, <1>2 DEF BrakeInv, OwnedInv
  <2>4. ~_enabled' => DOMAIN pending_operations' = {}
    BY CompletedOne DEF BrakeInv, OwnedInv
  <2> QED
    BY <2>1, <2>2, <2>3, <2>4 DEF OwnedInv
<1>4. Watched'
  <2> SUFFICES ASSUME NEW id \in DOMAIN pending_operations'
               PROVE  \E p \in Operations : Tracked(p)' /\ Id(p)' = id /\ watch'[p] \in {"created", "sleeping"}
    BY DEF Watched
  <2>1. id \in DOMAIN pending_operations /\ id # Id(o)
    BY CompletedOne
  <2>2. PICK p \in Operations : Tracked(p) /\ Id(p) = id /\ watch[p] \in {"created", "sleeping"}
    BY <2>1 DEF BrakeInv, Watched
  <2>3. p # o
    BY <2>1, <2>2
  <2> QED
    BY <1>1, <1>2, <2>2, <2>3
<1>5. ASSUME NEW p \in Operations, Undisrupted(p), p # o
      PROVE  StillPending(p)' /\ WillBePast(p)' /\ Counted(p)'
  <2>1. Id(p) # Id(o)
    BY <1>5 DEF Alone, Tracked, Undisrupted
  <2>2. /\ Id(p)' \in DOMAIN pending_operations' <=> Id(p) \in DOMAIN pending_operations
        /\ Id(p)' \in violations' <=> Id(p) \in violations
    BY <1>1, <2>1, CompletedOne
  <2>3. answered'[p] = answered[p] /\ watch'[p] = watch[p] /\ Past(p)' = Past(p)
    BY <1>1, <1>2, <1>5
  <2>4. StillPending(p) /\ WillBePast(p) /\ Counted(p)
    BY <1>5 DEF BrakeInv
  <2>5. StillPending(p)' /\ Counted(p)'
    BY <2>2, <2>3, <2>4 DEF StillPending, Counted, Overdue
  <2>6. WillBePast(p)'
    BY <2>3, <2>4 DEF WillBePast
  <2> QED
    BY <2>5, <2>6
<1>6. ASSUME Undisrupted(o)
      PROVE  StillPending(o)' /\ WillBePast(o)' /\ Counted(o)'
  <2>0. StillPending(o) /\ WillBePast(o) /\ Counted(o)
    BY <1>6 DEF BrakeInv
  <2>1. /\ Id(o)' \notin DOMAIN pending_operations'
        /\ Id(o)' \in violations' <=>
              Id(o) \in violations \/ (Id(o) \in DOMAIN pending_operations /\ Past(o))
    BY <1>1, <1>6, CompletedOne, LateIs DEF BrakeInv
  <2>2. CASE /\ answered[o] = "no" /\ watch' = watch
             /\ answered' = [answered EXCEPT ![o] = IF Past(o) THEN "late" ELSE "in time"]
    <3>1. answered'[o] = (IF Past(o) THEN "late" ELSE "in time") /\ watch'[o] = watch[o]
      BY <2>2 DEF BrakeInv, BrakeTypes
    <3>2. answered'[o] # "no" /\ (answered'[o] = "late" <=> Past(o))
      BY <3>1
    <3>3. Id(o) \in violations \/ Id(o) \in DOMAIN pending_operations
      BY <2>0, <2>2 DEF StillPending, Counted, Overdue
    <3>4. Id(o) \in violations => Past(o)
      BY <2>0, <2>2 DEF WillBePast, Counted, Overdue
    <3>5. StillPending(o)' /\ Counted(o)'
      BY <2>1, <3>2, <3>3, <3>4 DEF StillPending, Counted, Overdue
    <3>6. WillBePast(o)'
      BY <2>0, <3>1, <3>2 DEF WillBePast
    <3> QED
      BY <3>5, <3>6
  <2>3. CASE /\ answered' = answered /\ watch[o] # "ended"
             /\ watch' = [watch EXCEPT ![o] = "ended"]
             /\ Past(o)
    <3>1. answered'[o] = answered[o] /\ watch'[o] = "ended" /\ Past(o)'
      BY <1>1, <2>3 DEF BrakeInv, BrakeTypes
    <3>2. Id(o) \in DOMAIN pending_operations <=> answered[o] = "no"
      BY <2>0, <2>3 DEF StillPending
    <3>3. Id(o) \in violations <=> answered[o] = "late"
      BY <2>0, <2>3 DEF Counted, Overdue
    <3>4. StillPending(o)' /\ Counted(o)'
      BY <2>1, <2>3, <3>1, <3>2, <3>3 DEF StillPending, Counted, Overdue
    <3>5. WillBePast(o)'
      BY <3>1 DEF WillBePast
    <3> QED
      BY <3>4, <3>5
  <2> QED
    BY <1>6, <2>2, <2>3
<1> QED
  BY <1>1, <1>2, <1>3, <1>4, <1>5, <1>6 DEF BrakeInv

LEMMA TrackKeeps ==
    ASSUME BrakeInv, NEW o \in Operations, Track(o)
    PROVE  BrakeInv'
<1> DEFINE ms == Ms(wallTime)
<1>1. /\ started[o] = 0 /\ wallTime \in Nat /\ wallTime # 0 /\ _enabled
      /\ UNCHANGED <<wallTime, _enabled, violations, answered, disrupted>>
      /\ started' = [started EXCEPT ![o] = wallTime]
      /\ watch' = [watch EXCEPT ![o] = "created"]
      /\ due' = [due EXCEPT ![o] = 1]
      /\ DOMAIN pending_operations' = DOMAIN pending_operations \cup {ms}
      /\ pending_operations'[ms] = wallTime
      /\ \A id \in DOMAIN pending_operations : id # ms => pending_operations'[id] = pending_operations[id]
  BY DEF Track, BrakeInv, BrakeTypes
<1>2. /\ BrakeTypes' /\ started'[o] = wallTime /\ watch'[o] = "created" /\ due'[o] = 1
      /\ \A p \in Operations : p # o => /\ started'[p] = started[p] /\ watch'[p] = watch[p]
                                        /\ due'[p] = due[p]
  BY <1>1 DEF BrakeInv, BrakeTypes
<1>3. /\ Id(o)' = ms /\ Tracked(o)'
      /\ \A p \in Operations : Tracked(p) => Tracked(p)' /\ Id(p)' = Id(p) /\ p # o
      /\ \A p \in Operations : Tracked(p)' /\ p # o => Tracked(p)
  BY <1>1, <1>2 DEF Id, Tracked, Ms
<1> HIDE DEF ms
<1>4. OwnedInv'
  <2>1. \A id \in DOMAIN pending_operations' :
          \E p \in Operations : Tracked(p)' /\ Id(p)' = id /\ pending_operations'[id] = started'[p]
    <3> TAKE id \in DOMAIN pending_operations'
    <3>1. CASE id = ms
      BY <3>1, <1>1, <1>2, <1>3
    <3>2. CASE id # ms
      <4>1. PICK p \in Operations : Tracked(p) /\ Id(p) = id /\ pending_operations[id] = started[p]
        BY <3>2, <1>1 DEF BrakeInv, OwnedInv
      <4> QED
        BY <3>2, <4>1, <1>1, <1>2, <1>3
    <3> QED
      BY <3>1, <3>2
  <2>2. \A id \in violations' : \E p \in Operations : Tracked(p)' /\ Id(p)' = id
    BY <1>1, <1>3 DEF BrakeInv, OwnedInv
  <2>3. \A p \in Operations : ~Tracked(p)' => watch'[p] = "none" /\ answered'[p] = "no"
    BY <1>1, <1>2, <1>3 DEF BrakeInv, OwnedInv, Tracked
  <2> QED
    BY <1>1, <2>1, <2>2, <2>3 DEF OwnedInv
<1>5. Watched'
  <2> SUFFICES ASSUME NEW id \in DOMAIN pending_operations'
               PROVE  \E p \in Operations : Tracked(p)' /\ Id(p)' = id /\ watch'[p] \in {"created", "sleeping"}
    BY DEF Watched
  <2>1. CASE id = ms
    BY <2>1, <1>2, <1>3
  <2>2. CASE id # ms
    <3>1. PICK p \in Operations : Tracked(p) /\ Id(p) = id /\ watch[p] \in {"created", "sleeping"}
      BY <2>2, <1>1 DEF BrakeInv, Watched
    <3> QED
      BY <3>1, <1>2, <1>3
  <2> QED
    BY <2>1, <2>2
<1>6. ASSUME NEW p \in Operations, Undisrupted(p)', p # o
      PROVE  StillPending(p)' /\ WillBePast(p)' /\ Counted(p)'
  <2>1. Tracked(p) /\ Id(p)' = Id(p) /\ started'[p] = started[p] /\ watch'[p] = watch[p]
        /\ answered'[p] = answered[p] /\ due'[p] = due[p] /\ Past(p)' = Past(p)
    BY <1>6, <1>1, <1>2, <1>3 DEF Undisrupted, Past
  <2>2. Id(p) # ms
    BY <1>6, <1>3, <2>1 DEF Alone, Tracked, Undisrupted
  <2>3. Undisrupted(p)
    <3> SUFFICES ASSUME NEW q \in Operations \ {p}, started[q] # 0 PROVE Id(q) # Id(p)
      BY <1>1, <1>6, <2>1 DEF Alone, Undisrupted
    <3>1. started'[q] # 0 /\ Id(q)' = Id(q)
      BY <1>3 DEF Tracked
    <3> QED
      BY <3>1, <2>1, <1>6 DEF Alone, Undisrupted
  <2>4. StillPending(p) /\ WillBePast(p) /\ Counted(p)
    BY <2>3 DEF BrakeInv
  <2>5. StillPending(p)' /\ Counted(p)'
    BY <1>1, <2>1, <2>2, <2>4 DEF StillPending, Counted, Overdue
  <2>6. WillBePast(p)'
    BY <1>1, <2>1, <2>4 DEF WillBePast
  <2> QED
    BY <2>5, <2>6
<1>7. ASSUME Undisrupted(o)'
      PROVE  StillPending(o)' /\ WillBePast(o)' /\ Counted(o)'
  <2>1. answered'[o] = "no" /\ watch'[o] = "created" /\ Id(o)' = ms
    BY <1>1, <1>2, <1>3 DEF BrakeInv, OwnedInv, Tracked
  <2>2. ms \notin violations
    <3> SUFFICES ASSUME ms \in violations PROVE FALSE
      OBVIOUS
    <3>1. PICK q \in Operations : Tracked(q) /\ Id(q) = ms
      BY DEF BrakeInv, OwnedInv
    <3>2. q # o /\ started'[q] # 0 /\ Id(q)' = ms
      BY <3>1, <1>3 DEF Tracked
    <3> QED
      BY <1>7, <2>1, <3>2 DEF Alone, Undisrupted
  <2>3. wallTime' + due'[o] > started'[o]
    BY <1>1, <1>2
  <2>4. StillPending(o)' /\ Counted(o)'
    BY <1>1, <2>1, <2>2 DEF StillPending, Counted, Overdue
  <2> QED
    BY <2>1, <2>3, <2>4 DEF WillBePast
<1> QED
  BY <1>2, <1>4, <1>5, <1>6, <1>7 DEF BrakeInv

\* Time, and a task that only looks or goes to sleep.
LEMMA WaitingKeeps ==
    ASSUME BrakeInv, BrakeTypes',
           UNCHANGED <<_enabled, pending_operations, started, violations, answered, disrupted>>,
           wallTime' \in {wallTime, wallTime + 1},
           \A o \in Operations :
             \/ watch'[o] = watch[o] /\ wallTime' + due'[o] >= wallTime + due[o]
             \/ Tracked(o) /\ watch[o] = "created" /\ watch'[o] = "sleeping"
                /\ due[o] = 0 /\ due'[o] = Deadline
             \/ Tracked(o) /\ watch[o] = "created" /\ watch'[o] = "ended"
                /\ Id(o) \notin DOMAIN pending_operations
    PROVE  BrakeInv'
<1>1. \A o \in Operations : /\ Tracked(o)' = Tracked(o) /\ Id(o)' = Id(o)
                            /\ Undisrupted(o)' = Undisrupted(o)
  BY DEF Tracked, Id, Alone, Undisrupted
<1>2. \A o \in Operations : watch'[o] = watch[o] \/ (Tracked(o) /\ watch[o] = "created")
  OBVIOUS
<1>3. OwnedInv'
  <2>1. \A id \in DOMAIN pending_operations' :
          \E p \in Operations : Tracked(p)' /\ Id(p)' = id /\ pending_operations'[id] = started'[p]
    BY <1>1 DEF BrakeInv, OwnedInv
  <2>2. \A id \in violations' : \E p \in Operations : Tracked(p)' /\ Id(p)' = id
    BY <1>1 DEF BrakeInv, OwnedInv
  <2>3. \A p \in Operations : ~Tracked(p)' => watch'[p] = "none" /\ answered'[p] = "no"
    BY <1>1, <1>2 DEF BrakeInv, OwnedInv
  <2> QED
    BY <2>1, <2>2, <2>3 DEF BrakeInv, OwnedInv
<1>4. Watched'
  <2> SUFFICES ASSUME NEW id \in DOMAIN pending_operations
               PROVE  \E p \in Operations : Tracked(p)' /\ Id(p)' = id /\ watch'[p] \in {"created", "sleeping"}
    BY DEF Watched
  <2>1. PICK p \in Operations : Tracked(p) /\ Id(p) = id /\ watch[p] \in {"created", "sleeping"}
    BY DEF BrakeInv, Watched
  <2> QED
    BY <1>1, <2>1
<1>5. ASSUME NEW p \in Operations, Undisrupted(p)
      PROVE  StillPending(p)' /\ WillBePast(p)' /\ Counted(p)'
  <2>1. StillPending(p) /\ WillBePast(p) /\ Counted(p) /\ Id(p)' = Id(p)
    BY <1>1, <1>5 DEF BrakeInv
  <2>2. /\ wallTime \in Nat /\ started[p] \in Nat /\ due[p] \in Nat /\ Deadline \in Nat
        /\ wallTime' \in Nat /\ due'[p] \in Nat /\ wallTime' >= wallTime
    <3>1. wallTime \in Nat /\ started[p] \in Nat /\ due[p] \in Nat /\ Deadline \in Nat
      BY BrakeNumbers DEF BrakeInv
    <3>2. wallTime' \in Nat /\ due'[p] \in Nat
      BY DEF BrakeTypes
    <3> QED
      BY <3>1, <3>2
  <2>3. Past(p) => Past(p)'
    BY <2>2 DEF Past
  <2>4. CASE watch'[p] = watch[p] /\ wallTime' + due'[p] >= wallTime + due[p]
    <3>1. WillBePast(p)'
      BY <2>1, <2>2, <2>3, <2>4 DEF WillBePast
    <3> QED
      BY <2>1, <2>4, <3>1 DEF StillPending, Counted, Overdue
  <2>5. CASE watch[p] = "created" /\ watch'[p] = "sleeping" /\ due[p] = 0 /\ due'[p] = Deadline
    <3>1. WillBePast(p)'
      BY <2>1, <2>2, <2>5 DEF WillBePast
    <3> QED
      BY <2>1, <2>5, <3>1 DEF StillPending, Counted, Overdue
  <2>6. CASE /\ watch[p] = "created" /\ watch'[p] = "ended"
             /\ Id(p) \notin DOMAIN pending_operations
    <3>1. answered[p] # "no"
      BY <2>1, <2>6 DEF StillPending
    <3> QED
      BY <2>1, <2>6, <3>1 DEF StillPending, Counted, Overdue, WillBePast
  <2> QED
    BY <2>4, <2>5, <2>6
<1> QED
  BY <1>1, <1>3, <1>4, <1>5 DEF BrakeInv

\* The monitor is switched off, or the wall clock set: nothing called so far is
\* undisrupted any more.
LEMMA DisruptionKeeps ==
    ASSUME BrakeInv, Disable \/ SetClock
    PROVE  BrakeInv'
<1>1. /\ disrupted' = disrupted \cup Called /\ UNCHANGED <<started, watch, due, violations, answered>>
      /\ UNCHANGED <<pending_operations, _enabled>> \/ DOMAIN pending_operations' = {}
  BY DEF Disable, SetClock
<1>2. wallTime' \in Nat /\ wallTime' # 0
  <2>1. CASE Disable
    BY <2>1 DEF Disable, BrakeInv, BrakeTypes
  <2>2. CASE SetClock
    <3>1. wallTime' \in 1..MaxBrakeTime /\ MaxBrakeTime \in Nat
      BY <2>2, BrakeAssumption DEF SetClock
    <3> QED
      BY <3>1
  <2> QED
    BY <2>1, <2>2
<1>3. \A o \in Operations : Tracked(o)' = Tracked(o) /\ Id(o)' = Id(o) /\ ~Undisrupted(o)'
  BY <1>1 DEF Tracked, Id, Undisrupted, Called
<1>4. Watched'
  BY <1>1, <1>3 DEF BrakeInv, Watched
<1>5. OwnedInv'
  BY <1>1, <1>3 DEF BrakeInv, OwnedInv
<1>6. BrakeTypes'
  BY <1>1, <1>2 DEF BrakeInv, BrakeTypes
<1> QED
  BY <1>3, <1>4, <1>5, <1>6 DEF BrakeInv

LEMMA EnableKeeps ==
    ASSUME BrakeInv, Enable
    PROVE  BrakeInv'
<1>1. /\ _enabled' = TRUE
      /\ UNCHANGED <<wallTime, pending_operations, started, watch, due, violations, answered, disrupted>>
  BY DEF Enable
<1>2. \A o \in Operations : /\ Tracked(o)' = Tracked(o) /\ Id(o)' = Id(o)
                            /\ Undisrupted(o)' = Undisrupted(o) /\ Past(o)' = Past(o)
  BY <1>1 DEF Tracked, Id, Alone, Undisrupted, Past
<1>3. BrakeTypes' /\ Watched'
  BY <1>1, <1>2 DEF BrakeInv, BrakeTypes, Watched
<1>4. OwnedInv'
  BY <1>1, <1>2 DEF BrakeInv, OwnedInv
<1>5. ASSUME NEW o \in Operations, Undisrupted(o)
      PROVE  StillPending(o)' /\ WillBePast(o)' /\ Counted(o)'
  BY <1>1, <1>2, <1>5 DEF BrakeInv, StillPending, WillBePast, Counted, Overdue
<1> QED
  BY <1>2, <1>3, <1>4, <1>5 DEF BrakeInv

\* Whatever the delays of the event loop, however operations share an identifier and
\* whenever the monitor is switched off and on or the wall clock is set, every pending
\* operation keeps a task that will look at its deadline; what has its identifier for
\* itself, in a monitor that stayed on and with a clock that was not set, is a
\* violation exactly when it was not answered in time.
THEOREM DeadlinesAreSeen == BSSpec => []BrakeDeadlinesSeen
<1>1. BSInit => BrakeInv
  <2> SUFFICES ASSUME BSInit PROVE BrakeInv
    OBVIOUS
  <2>1. DOMAIN pending_operations = {} /\ violations = {}
    BY DEF BSInit
  <2>2. \A o \in Operations : ~Tracked(o) /\ ~Undisrupted(o)
    BY DEF BSInit, Tracked, Undisrupted
  <2>3. BrakeTypes
    BY BrakeAssumption DEF BSInit, BrakeTypes
  <2> QED
    BY <2>1, <2>2, <2>3 DEF BSInit, BrakeInv, OwnedInv, Watched
<1>2. BrakeInv /\ [BSNext]_bsVars => BrakeInv'
  <2> SUFFICES ASSUME BrakeInv, [BSNext]_bsVars PROVE BrakeInv'
    OBVIOUS
  <2>0. BrakeTypes /\ OwnedInv
    BY DEF BrakeInv
  <2>1. ASSUME NEW o \in Operations, Track(o) PROVE BrakeInv'
    BY <2>1, TrackKeeps
  <2>2. ASSUME NEW o \in Operations, Respond(o) PROVE BrakeInv'
    <3>1. (wallTime - started[o] > Deadline) = Past(o)
      BY <2>0, BrakeNumbers DEF Past
    <3>2. answered' = [answered EXCEPT ![o] = IF Past(o) THEN "late" ELSE "in time"]
      BY <2>2, <3>1 DEF Respond
    <3> QED
      BY <2>2, <3>2, CompletionKeeps DEF Respond, Tracked
  <2>3. ASSUME NEW o \in Operations, DeadlinePassed(o) PROVE BrakeInv'
    <3>1. Tracked(o)
      BY <2>0, <2>3 DEF DeadlinePassed, OwnedInv
    <3>2. Undisrupted(o) => Past(o)
      <4>1. due[o] = 0 /\ watch[o] = "sleeping" /\ wallTime \in Nat
        BY <2>0, <2>3, BrakeNumbers DEF DeadlinePassed
      <4>2. Undisrupted(o) => WillBePast(o)
        BY DEF BrakeInv
      <4> QED
        BY <4>1, <4>2 DEF WillBePast, Past
    <3>3. watch[o] # "ended" /\ watch' = [watch EXCEPT ![o] = "ended"] /\ CompleteId(Id(o))
          /\ UNCHANGED <<wallTime, _enabled, started, due, answered, disrupted>>
      BY <2>3 DEF DeadlinePassed
    <3> QED
      BY <3>1, <3>2, <3>3, CompletionKeeps
  <2>4. ASSUME NEW o \in Operations, BeginWatch(o) PROVE BrakeInv'
    <3>1. Tracked(o) /\ Deadline \in Nat /\ watch[o] = "created" /\ due[o] = 0
      BY <2>0, <2>4, BrakeAssumption DEF BeginWatch, OwnedInv
    <3>2. BrakeTypes'
      BY <2>0, <2>4, <3>1 DEF BeginWatch, BrakeTypes
    <3>3. ASSUME NEW p \in Operations
          PROVE \/ watch'[p] = watch[p] /\ due'[p] = due[p]
                \/ Tracked(p) /\ watch[p] = "created" /\ watch'[p] = "sleeping"
                   /\ due[p] = 0 /\ due'[p] = Deadline
                \/ Tracked(p) /\ watch[p] = "created" /\ watch'[p] = "ended"
                   /\ Id(p) \notin DOMAIN pending_operations
      BY <2>0, <2>4, <3>1 DEF BeginWatch, BrakeTypes
    <3>4. UNCHANGED <<wallTime, _enabled, pending_operations, started, violations, answered, disrupted>>
      BY <2>4 DEF BeginWatch
    <3>5. \A p \in Operations : wallTime + due[p] \in Nat
      BY <2>0, BrakeNumbers
    <3>6. \A p \in Operations : due'[p] = due[p] => wallTime' + due'[p] >= wallTime + due[p]
      BY <3>4, <3>5
    <3> QED
      BY <3>2, <3>3, <3>4, <3>6, WaitingKeeps
  <2>5. CASE BSTick
    <3>1. wallTime' = wallTime + 1 /\ due' = [o \in Operations |-> IF due[o] = 0 THEN 0 ELSE due[o] - 1]
      BY <2>5 DEF BSTick
    <3>2. ASSUME NEW p \in Operations
          PROVE  due'[p] \in Nat /\ wallTime' + due'[p] >= wallTime + due[p]
      <4>1. wallTime \in Nat /\ due[p] \in Nat
        BY <2>0, BrakeNumbers
      <4>2. due'[p] = IF due[p] = 0 THEN 0 ELSE due[p] - 1
        BY <3>1
      <4> QED
        BY <3>1, <4>1, <4>2
    <3>3. due' \in [Operations -> Nat]
      BY <3>1, <3>2
    <3>4. BrakeTypes'
      <4>1. wallTime' \in Nat /\ wallTime' # 0
        <5>1. wallTime \in Nat
          BY <2>0 DEF BrakeTypes
        <5> QED
          BY <3>1, <5>1
      <4>2. UNCHANGED <<started, watch, answered>>
        BY <2>5 DEF BSTick
      <4> QED
        BY <2>0, <3>3, <4>1, <4>2 DEF BrakeTypes
    <3> QED
      BY <2>5, <3>1, <3>2, <3>4, WaitingKeeps DEF BSTick
  <2>6. CASE UNCHANGED bsVars
    <3>1. UNCHANGED <<wallTime, _enabled, pending_operations, started, watch, due, violations,
                      answered, disrupted>>
      BY <2>6 DEF bsVars
    <3>2. \A p \in Operations : wallTime + due[p] \in Nat
      BY <2>0, BrakeNumbers
    <3>3. BrakeTypes'
      BY <2>0, <3>1 DEF BrakeTypes
    <3>4. \A p \in Operations : wallTime' + due'[p] >= wallTime + due[p]
      BY <3>1, <3>2
    <3> QED
      BY <3>1, <3>3, <3>4, WaitingKeeps
  <2> QED
    BY <2>1, <2>2, <2>3, <2>4, <2>5, <2>6, DisruptionKeeps, EnableKeeps DEF BSNext
<1>3. BrakeInv => BrakeDeadlinesSeen
  BY DEF BrakeInv, Watched, Undisrupted, Counted, Overdue, Tracked, BrakeDeadlinesSeen
<1> QED
  BY <1>1, <1>2, <1>3, PTL DEF BSSpec
=============================================================================
