---------------------------- MODULE EntityProofs ----------------------------
(***************************************************************************)
(* EntityPersistence implements DurableState, a clean stop loses no change, *)
(* and every running operation of the safe control is tracked, for every set *)
(* of entities, every batch size, number of retries, of failures, of restarts *)
(* and of operations.                                                      *)
(***************************************************************************)
EXTENDS EntityPersistence, EntityControl, FiniteSetTheorems, SequenceTheorems,
        TLAPS

Writing == worker.pc \in {"write", "final"}

\* The states taken for a write.
Snapshots == UNION {[S -> EntityStates] : S \in SUBSET Entities}

EPTypeOK ==
    /\ registered \subseteq Entities
    /\ entityState \in [Entities -> EntityStates]
    /\ stored \in [Entities -> EntityStates]
    /\ changes \in 0..MaxChanges
    /\ worker = [pc |-> worker.pc, batch |-> worker.batch,
                 snapshot |-> worker.snapshot, attempt |-> worker.attempt]
    /\ Writing => worker.snapshot \in Snapshots

\* No state is from the future, and an entity in memory is not behind its row.
MemoryInv ==
    /\ \A e \in Entities : entityState[e].at <= changes /\ stored[e].at <= changes
    /\ \A e \in registered : stored[e].at <= entityState[e].at

\* What is being written is at or after what is stored, and at or before what is
\* in memory.
SnapshotInv ==
    Writing => \A e \in DOMAIN worker.snapshot :
        /\ worker.snapshot[e].at <= entityState[e].at
        /\ stored[e].at <= worker.snapshot[e].at

\* A load, which may take memory back, does not run beside the worker.
LoadInv == persistence = "loading" => worker.pc = "none"

DurableInv == EPTypeOK /\ MemoryInv /\ SnapshotInv /\ LoadInv

-----------------------------------------------------------------------------

LEMMA SnapshotOf ==
    ASSUME NEW S \in Snapshots
    PROVE  DOMAIN S \subseteq Entities /\ \A e \in DOMAIN S : S[e] \in EntityStates
BY DEF Snapshots

\* A write begins with what is in memory now, which is not behind the rows.
LEMMA SnapshotTaken ==
    ASSUME registered \subseteq Entities, entityState \in [Entities -> EntityStates],
           NEW rows, \A e \in registered : rows[e].at <= entityState[e].at,
           NEW batch
    PROVE  /\ Snapshot(batch) \in Snapshots
           /\ \A e \in DOMAIN Snapshot(batch) :
                /\ Snapshot(batch)[e].at <= entityState[e].at
                /\ rows[e].at <= Snapshot(batch)[e].at
<1> DEFINE S == batch \cap registered
<1>1. S \subseteq Entities /\ Snapshot(batch) \in [S -> EntityStates]
  BY DEF Snapshot
<1>2. Snapshot(batch) \in Snapshots
  BY <1>1 DEF Snapshots
<1>3. ASSUME NEW e \in S
      PROVE  /\ Snapshot(batch)[e].at <= entityState[e].at
             /\ rows[e].at <= Snapshot(batch)[e].at
  BY <1>1 DEF Snapshot, EntityStates
<1> QED
  BY <1>1, <1>2, <1>3

\* The worker after a step that takes from the queue: it does not write, or writes
\* what is in memory now.
Quiet(w) ==
    /\ w = [pc |-> w.pc, batch |-> w.batch, snapshot |-> w.snapshot, attempt |-> w.attempt]
    /\ w.pc \notin {"write", "final"}

Fresh(w) == Quiet(w) \/ \E batch : \E pc \in {"write", "final"} : w = Persisting(pc, batch)

LEMMA QuietWorkers ==
    /\ Quiet(NoWorker) /\ Quiet(DoneWorker) /\ Quiet([NoWorker EXCEPT !.pc = "get"])
    /\ NoWorker.pc = "none" /\ DoneWorker.pc = "done"
<1>1. NoWorker = [pc |-> "none", batch |-> {}, snapshot |-> <<>>, attempt |-> 0]
  BY DEF NoWorker
<1>2. DoneWorker = [pc |-> "done", batch |-> {}, snapshot |-> <<>>, attempt |-> 0]
  BY DEF DoneWorker, NoWorker
<1>3. [NoWorker EXCEPT !.pc = "get"] = [pc |-> "get", batch |-> {}, snapshot |-> <<>>, attempt |-> 0]
  BY DEF NoWorker
<1> QED
  BY <1>1, <1>2, <1>3 DEF Quiet

\* A step of the worker, after which memory is not behind the rows.
LEMMA FreshWorkerKeeps ==
    ASSUME DurableInv, Fresh(worker'), MemoryInv', stored' \in [Entities -> EntityStates],
           UNCHANGED <<registered, entityState, changes>>,
           persistence' = "loading" => worker'.pc = "none"
    PROVE  DurableInv'
<1>1. CASE Quiet(worker')
  BY <1>1 DEF DurableInv, EPTypeOK, SnapshotInv, LoadInv, Writing, Quiet
<1>2. ASSUME NEW batch, NEW pc \in {"write", "final"}, worker' = Persisting(pc, batch)
      PROVE  DurableInv'
  <2>1. worker' = [pc |-> pc, batch |-> batch, snapshot |-> Snapshot(batch), attempt |-> 1]
    BY <1>2 DEF Persisting
  <2>2. \A e \in registered : stored'[e].at <= entityState[e].at
    BY DEF MemoryInv
  <2>3. /\ Snapshot(batch) \in Snapshots
        /\ \A e \in DOMAIN Snapshot(batch) :
             /\ Snapshot(batch)[e].at <= entityState[e].at
             /\ stored'[e].at <= Snapshot(batch)[e].at
    BY <2>2, SnapshotTaken DEF DurableInv, EPTypeOK
  <2>4. EPTypeOK'
    BY <2>1, <2>3 DEF DurableInv, EPTypeOK
  <2>5. SnapshotInv'
    BY <2>1, <2>3 DEF SnapshotInv
  <2> QED
    BY <2>4, <2>5 DEF DurableInv, LoadInv
<1> QED
  BY <1>1, <1>2 DEF Fresh

\* The same with the rows at rest.
LEMMA ReadingKeeps ==
    ASSUME DurableInv, Fresh(worker'),
           UNCHANGED <<registered, entityState, changes, stored>>,
           persistence' = "loading" => worker'.pc = "none"
    PROVE  DurableInv'
<1>1. MemoryInv' /\ stored' \in [Entities -> EntityStates]
  BY DEF DurableInv, MemoryInv, EPTypeOK
<1> QED
  BY <1>1, FreshWorkerKeeps

LEMMA DrainingFresh == \A q : Fresh(Draining(q)) /\ Draining(q).pc # "none"
<1> TAKE q
<1>1. Draining(q) = DoneWorker \/ \E batch : Draining(q) = Persisting("final", batch)
  BY DEF Draining
<1> QED
  BY <1>1, QuietWorkers DEF Fresh, Persisting

LEMMA LoopFresh ==
    ASSUME NEW q, NEW stopping, Loop(q, stopping)
    PROVE  Fresh(worker')
BY DrainingFresh, QuietWorkers DEF Loop, Fresh

LEMMA ContinueFresh ==
    ASSUME NEW q, Continue(q)
    PROVE  Fresh(worker')
BY LoopFresh, QuietWorkers DEF Continue, Fresh

\* The rows after a commit are as new as they were, or newer, and not ahead of memory.
LEMMA CommitMovesOn ==
    ASSUME DurableInv, Writing
    PROVE  /\ Upserted \in [Entities -> EntityStates]
           /\ \A e \in Entities :
                /\ \/ Upserted[e].at = stored[e].at
                   \/ stored[e].at < Upserted[e].at /\ Upserted[e].at <= entityState[e].at
                /\ Upserted[e].at <= changes
                /\ stored[e].at <= entityState[e].at => Upserted[e].at <= entityState[e].at
<1>1. /\ DOMAIN worker.snapshot \subseteq Entities
      /\ \A e \in DOMAIN worker.snapshot : worker.snapshot[e] \in EntityStates
  BY SnapshotOf DEF DurableInv, EPTypeOK
<1>2. Upserted \in [Entities -> EntityStates]
  BY <1>1 DEF Upserted, DurableInv, EPTypeOK
<1>3. ASSUME NEW e \in Entities
      PROVE  /\ \/ Upserted[e].at = stored[e].at
                \/ stored[e].at < Upserted[e].at /\ Upserted[e].at <= entityState[e].at
             /\ Upserted[e].at <= changes
             /\ stored[e].at <= entityState[e].at => Upserted[e].at <= entityState[e].at
  <2>1. /\ entityState[e].at \in Int /\ stored[e].at \in Int /\ changes \in Int
        /\ entityState[e].at <= changes /\ stored[e].at <= changes
    BY DEF DurableInv, EPTypeOK, MemoryInv, EntityStates
  <2>2. CASE e \in DOMAIN worker.snapshot
    <3>1. Upserted[e] = worker.snapshot[e]
      BY <2>2 DEF Upserted
    <3>2. worker.snapshot[e].at \in Int
      BY <1>1, <2>2 DEF EntityStates
    <3>3. worker.snapshot[e].at <= entityState[e].at /\ stored[e].at <= worker.snapshot[e].at
      BY <2>2 DEF DurableInv, SnapshotInv
    <3> QED
      BY <2>1, <3>1, <3>2, <3>3
  <2>3. CASE e \notin DOMAIN worker.snapshot
    <3>1. Upserted[e] = stored[e]
      BY <2>3 DEF Upserted
    <3> QED
      BY <2>1, <3>1
  <2> QED
    BY <2>2, <2>3
<1> QED
  BY <1>2, <1>3

\* A commit, or none, whatever the worker does next.
LEMMA CommitKeeps ==
    ASSUME DurableInv, Writing, stored' \in {stored, Upserted}, Fresh(worker'),
           UNCHANGED <<registered, entityState, changes>>,
           persistence' # "loading"
    PROVE  DurableInv'
<1>1. stored' \in [Entities -> EntityStates] /\ MemoryInv'
  BY CommitMovesOn DEF DurableInv, EPTypeOK, MemoryInv
<1> QED
  BY <1>1, FreshWorkerKeeps

\* A change of one entity, written at the next moment, with the worker at rest.
LEMMA ChangeKeeps ==
    ASSUME DurableInv, NEW e \in Entities, changes < MaxChanges, changes' = changes + 1,
           entityState' = [entityState EXCEPT ![e] = [at |-> changes + 1, nested |-> FALSE]],
           registered' \subseteq registered \cup {e},
           UNCHANGED <<stored, worker, persistence>>
    PROVE  DurableInv'
<1>1. changes + 1 \in 0..MaxChanges /\ changes \in Int
  BY EntityPersistenceAssumption DEF DurableInv, EPTypeOK
<1>2. entityState' \in [Entities -> EntityStates]
  BY <1>1 DEF DurableInv, EPTypeOK, EntityStates
<1>3. \A d \in Entities : /\ entityState[d].at \in Int /\ stored[d].at \in Int
                          /\ entityState[d].at <= changes /\ stored[d].at <= changes
                          /\ entityState'[d].at = IF d = e THEN changes + 1 ELSE entityState[d].at
  BY DEF DurableInv, EPTypeOK, MemoryInv, EntityStates
<1>4. EPTypeOK'
  BY <1>1, <1>2 DEF DurableInv, EPTypeOK, Writing
<1>5. MemoryInv'
  BY <1>1, <1>3 DEF DurableInv, MemoryInv, EPTypeOK
<1>6. SnapshotInv'
  <2> SUFFICES ASSUME Writing, NEW d \in DOMAIN worker.snapshot
               PROVE  /\ worker.snapshot[d].at <= entityState'[d].at
                      /\ stored[d].at <= worker.snapshot[d].at
    BY DEF SnapshotInv, Writing
  <2>1. d \in Entities /\ worker.snapshot[d].at \in Int
        /\ worker.snapshot[d].at <= entityState[d].at /\ stored[d].at <= worker.snapshot[d].at
    BY SnapshotOf DEF DurableInv, EPTypeOK, SnapshotInv, EntityStates
  <2> QED
    BY <1>1, <1>3, <2>1
<1> QED
  BY <1>4, <1>5, <1>6 DEF DurableInv, LoadInv

-----------------------------------------------------------------------------

LEMMA InitiallyDurable == EPInit => DurableInv
BY QuietWorkers, EntityPersistenceAssumption
   DEF EPInit, DurableInv, EPTypeOK, MemoryInv, SnapshotInv, LoadInv, Writing, Quiet,
       NoRow, EntityStates

LEMMA StepKeepsDurable ==
    ASSUME DurableInv, [EPNext]_epVars
    PROVE  DurableInv'
<1>1. ASSUME NEW e \in Entities, RegisterEntity(e) \/ UpdateState(e)
      PROVE  DurableInv'
  BY <1>1, ChangeKeeps DEF RegisterEntity, UpdateState
<1>2. ASSUME NEW e \in Entities, RemoveEntity(e) PROVE DurableInv'
  BY <1>2 DEF RemoveEntity, DurableInv, EPTypeOK, MemoryInv, SnapshotInv, LoadInv, Writing
<1>3. CASE StartPersistence
  BY <1>3, ReadingKeeps, QuietWorkers DEF StartPersistence, Fresh
<1>4. CASE FinishLoad
  <2>1. /\ worker' = [NoWorker EXCEPT !.pc = "get"] /\ persistence' = "up"
        /\ UNCHANGED <<registered, changes, stored>>
    BY <1>4 DEF FinishLoad
  <2>2. CASE UNCHANGED entityState
    BY <2>1, <2>2, ReadingKeeps, QuietWorkers DEF Fresh
  <2>3. CASE entityState' = [e \in Entities |-> Restored(e)]
    <3>1. /\ entityState' \in [Entities -> EntityStates]
          /\ \A e \in Entities : entityState'[e].at \in {stored[e].at, entityState[e].at}
      BY <2>3 DEF Restored, DurableInv, EPTypeOK, EntityStates
    <3>2. \A e \in registered : stored[e].at <= entityState'[e].at
      BY <3>1 DEF DurableInv, EPTypeOK, MemoryInv, EntityStates
    <3>3. Quiet(worker')
      BY <2>1, QuietWorkers
    <3> QED
      BY <2>1, <3>1, <3>2, <3>3
         DEF DurableInv, EPTypeOK, MemoryInv, SnapshotInv, LoadInv, Writing, Quiet
  <2> QED
    BY <1>4, <2>2, <2>3 DEF FinishLoad
<1>5. CASE WorkerGet
  <2>1. persistence' # "loading"
    BY <1>5 DEF WorkerGet, DurableInv, LoadInv
  <2>2. Fresh(worker')
    <3>1. CASE Head(dirty) = Sentinel
      BY <1>5, <3>1, DrainingFresh DEF WorkerGet
    <3>2. CASE Head(dirty) # Sentinel
      BY <1>5, <3>2 DEF WorkerGet, Fresh, Quiet, DurableInv, EPTypeOK
    <3> QED
      BY <3>1, <3>2
  <2> QED
    BY <1>5, <2>1, <2>2, ReadingKeeps DEF WorkerGet
<1>6. CASE WorkerCollect
  <2>1. persistence' # "loading" /\ Fresh(worker')
    BY <1>6 DEF WorkerCollect, DurableInv, LoadInv, EPTypeOK, Fresh, Quiet
  <2> QED
    BY <1>6, <2>1, ReadingKeeps DEF WorkerCollect
<1>7. CASE WorkerFlush
  <2>1. persistence' # "loading"
    BY <1>7 DEF WorkerFlush, DurableInv, LoadInv
  <2>2. (\E q : Loop(q, is_stopping')) \/ \E batch : worker' = Persisting("write", batch)
    BY <1>7 DEF WorkerFlush
  <2>3. Fresh(worker')
    BY <2>2, LoopFresh DEF Fresh
  <2> QED
    BY <1>7, <2>1, <2>3, ReadingKeeps DEF WorkerFlush
<1>8. CASE WriteSucceeds
  <2>1. /\ Writing /\ stored' = Upserted /\ Continue(dirty)
        /\ UNCHANGED <<registered, entityState, changes, persistence>>
    BY <1>8 DEF WriteSucceeds, Writing
  <2>2. Fresh(worker')
    BY <2>1, ContinueFresh
  <2>3. persistence' # "loading"
    BY <2>1 DEF Writing, DurableInv, LoadInv
  <2> QED
    BY <2>1, <2>2, <2>3, CommitKeeps
<1>9. CASE WriteFails
  <2>1. Writing /\ UNCHANGED <<registered, entityState, changes, persistence, stored>>
    BY <1>9 DEF WriteFails, Writing
  <2>2. persistence' # "loading"
    BY <2>1 DEF Writing, DurableInv, LoadInv
  <2>3. CASE LastAttempt
    <3>1. PICK q : Continue(q)
      BY <1>9, <2>3 DEF WriteFails
    <3> QED
      BY <2>1, <2>2, <3>1, ContinueFresh, ReadingKeeps
  <2>4. CASE ~LastAttempt
    <3>1. worker' = [worker EXCEPT !.attempt = @ + 1]
      BY <1>9, <2>4 DEF WriteFails
    <3>2. worker' = [pc |-> worker.pc, batch |-> worker.batch,
                     snapshot |-> worker.snapshot, attempt |-> worker.attempt + 1]
      BY <3>1 DEF DurableInv, EPTypeOK
    <3> QED
      BY <2>1, <2>2, <3>2
         DEF DurableInv, EPTypeOK, MemoryInv, SnapshotInv, LoadInv, Writing
  <2> QED
    BY <2>3, <2>4
<1>10. CASE StopPersistence \/ StopJoins
  <2>1. /\ UNCHANGED <<registered, entityState, changes, worker, stored>>
        /\ persistence' # "loading"
    BY <1>10 DEF StopPersistence, StopJoins
  <2> QED
    BY <2>1 DEF DurableInv, EPTypeOK, MemoryInv, SnapshotInv, LoadInv, Writing
<1>11. CASE StopCancels
  <2>1. Fresh(worker')
    BY <1>11, QuietWorkers DEF StopCancels, Fresh
  <2> QED
    BY <1>11, <2>1, CommitKeeps DEF StopCancels, Writing
<1>12. CASE Crash
  <2>1. /\ stored' \in [Entities -> EntityStates]
        /\ \A e \in Entities : stored'[e].at <= changes
    BY <1>12, CommitMovesOn DEF Crash, Writing, DurableInv, EPTypeOK, MemoryInv
  <2>2. /\ entityState' = [e \in Entities |-> NoRow] /\ registered' = {} /\ changes' = changes
        /\ worker' = NoWorker /\ persistence' = "down"
    BY <1>12 DEF Crash
  <2>3. /\ changes \in 0..MaxChanges /\ entityState' \in [Entities -> EntityStates]
        /\ \A e \in Entities : entityState'[e].at <= changes
    BY <2>2, EntityPersistenceAssumption DEF NoRow, EntityStates, DurableInv, EPTypeOK
  <2>4. Quiet(worker')
    BY <2>2, QuietWorkers
  <2> QED
    BY <2>1, <2>2, <2>3, <2>4
       DEF DurableInv, EPTypeOK, MemoryInv, SnapshotInv, LoadInv, Writing, Quiet
<1>13. CASE UNCHANGED epVars
  BY <1>13 DEF epVars, DurableInv, EPTypeOK, MemoryInv, SnapshotInv, LoadInv, Writing
<1> QED
  BY <1>1, <1>2, <1>3, <1>4, <1>5, <1>6, <1>7, <1>8, <1>9, <1>10, <1>11, <1>12, <1>13
     DEF EPNext, UpdateEntityState, UpdateUnnotified

-----------------------------------------------------------------------------
(* The refinement.                                                         *)

Latest == [e \in Entities |-> entityState[e].at]
Saved == [e \in Entities |-> stored[e].at]

\* Rows that moved on by a commit are a save of the abstract specification.
LEMMA CommitSaves ==
    ASSUME DurableInv, \/ stored' = stored
                       \/ Writing /\ stored' = Upserted
    PROVE  /\ Saved' \in [Entities -> Durable!Moments]
           /\ \A e \in Entities :
                \/ Saved'[e] = Saved[e]
                \/ Saved'[e] > Saved[e] /\ Saved'[e] <= Latest[e]
<1>1. stored' \in [Entities -> EntityStates]
  BY CommitMovesOn DEF DurableInv, EPTypeOK
<1>2. Saved' \in [Entities -> Durable!Moments]
  BY <1>1 DEF Saved, EntityStates, Durable!Moments
<1>3. ASSUME NEW e \in Entities
      PROVE  \/ Saved'[e] = Saved[e]
             \/ Saved'[e] > Saved[e] /\ Saved'[e] <= Latest[e]
  <2>1. Saved'[e] = stored'[e].at /\ Saved[e] = stored[e].at /\ Latest[e] = entityState[e].at
    BY DEF Saved, Latest
  <2>2. \/ stored'[e].at = stored[e].at
        \/ stored[e].at < stored'[e].at /\ stored'[e].at <= entityState[e].at
    BY CommitMovesOn
  <2>3. stored'[e].at \in Int /\ stored[e].at \in Int
    BY <1>1 DEF DurableInv, EPTypeOK, EntityStates
  <2> QED
    BY <2>1, <2>2, <2>3
<1> QED
  BY <1>2, <1>3

LEMMA InitRefines == EPInit => Durable!DSInit
BY DEF EPInit, Durable!DSInit, NoRow

LEMMA StepRefines ==
    ASSUME DurableInv, [EPNext]_epVars
    PROVE  [Durable!DSNext]_<<Latest, Saved>>
<1>1. ASSUME NEW e \in Entities, RegisterEntity(e) \/ UpdateState(e)
      PROVE  Durable!Change(e)
  <2>1. /\ changes + 1 \in Durable!Moments
        /\ entityState' = [entityState EXCEPT ![e] = [at |-> changes + 1, nested |-> FALSE]]
        /\ stored' = stored
    BY <1>1, EntityPersistenceAssumption
       DEF RegisterEntity, UpdateState, Durable!Moments, DurableInv, EPTypeOK
  <2>2. Durable!Later(changes + 1)
    BY DEF Durable!Later, DurableInv, MemoryInv, EPTypeOK, EntityStates
  <2>3. Latest' = [Latest EXCEPT ![e] = changes + 1] /\ Saved' = Saved
    BY <2>1 DEF Latest, Saved, DurableInv, EPTypeOK
  <2> QED
    BY <2>1, <2>2, <2>3 DEF Durable!Change, Latest, Saved
<1>2. CASE FinishLoad
  <2>1. stored' = stored /\ \A e \in Entities : entityState'[e].at \in {stored[e].at, entityState[e].at}
    BY <1>2 DEF FinishLoad, Restored
  <2>2. Saved' = Saved
    BY <2>1 DEF Saved
  <2>3. Latest' \in [Entities -> Durable!Moments]
        /\ \A e \in Entities : Latest'[e] \in {0, Saved[e], Latest[e]}
    BY <2>1 DEF Latest, Saved, Durable!Moments, DurableInv, EPTypeOK, EntityStates
  <2> QED
    BY <2>2, <2>3 DEF Durable!DSNext, Durable!Forget, Latest, Saved
<1>3. CASE WriteSucceeds \/ StopCancels
  <2>1. Latest' = Latest
    BY <1>3 DEF WriteSucceeds, StopCancels, Latest
  <2>2. stored' = stored \/ (Writing /\ stored' = Upserted)
    BY <1>3 DEF WriteSucceeds, StopCancels, Writing
  <2> QED
    BY <2>1, <2>2, CommitSaves DEF Durable!DSNext, Durable!Save, Latest, Saved
<1>4. CASE Crash
  <2>1. Latest' = [e \in Entities |-> 0]
    BY <1>4 DEF Crash, Latest, NoRow
  <2>2. stored' = stored \/ (Writing /\ stored' = Upserted)
    BY <1>4 DEF Crash, Writing
  <2> QED
    BY <2>1, <2>2, CommitSaves DEF Durable!DSNext, Durable!SaveAndForget, Latest, Saved
<1>5. CASE UNCHANGED <<entityState, stored>>
  BY <1>5 DEF Latest, Saved
<1> QED
  BY <1>1, <1>2, <1>3, <1>4, <1>5
     DEF EPNext, epVars, RemoveEntity, UpdateEntityState, UpdateUnnotified, StartPersistence,
         WorkerGet, WorkerCollect, WorkerFlush, WriteFails, StopPersistence, StopJoins,
         Durable!DSNext

\* Whatever the queue, the batches, the retries, stops and crashes do: the saved
\* states only move forward, and only to states the entities have had.
THEOREM SavingIsDurable == EPSpec => PersistenceIsDurable
<1>1. DurableInv /\ [EPNext]_epVars => DurableInv'
  BY StepKeepsDurable
<1>2. DurableInv /\ [EPNext]_epVars => [Durable!DSNext]_<<Latest, Saved>>
  BY StepRefines
<1> QED
  BY <1>1, <1>2, InitiallyDurable, InitRefines, PTL
     DEF EPSpec, PersistenceIsDurable, Durable!DSSpec, Latest, Saved

-----------------------------------------------------------------------------
(* A clean stop saves every change the service was told of.                *)

Ids(q) == {q[i] : i \in 1..Len(q)}

Queues == Seq(Entities \cup {Sentinel})

\* The change of e that the service was told of last is on its way: e is queued,
\* or in the batch being collected, or the change is in the states being written.
OnItsWay(w, q, e) ==
    \/ e \in Ids(q)
    \/ w.pc = "collect" /\ e \in w.batch
    \/ /\ w.pc \in {"write", "final"}
       /\ e \in DOMAIN w.snapshot
       /\ notified[e] <= w.snapshot[e].at

\* What is written is part of the batch that is put back when the write fails.
BatchGood(w) ==
    /\ w.batch \subseteq Entities
    /\ w.pc \in {"write", "final"} => DOMAIN w.snapshot \subseteq w.batch

\* The listener is only told of changes that memory has, of registered entities,
\* while the service is up.
ToldInv ==
    /\ notified \in [Entities -> Nat]
    /\ \A e \in Entities : /\ notified[e] <= entityState[e].at
                           /\ e \notin registered => notified[e] = 0
                           /\ persistence = "loading" => notified[e] = 0
    /\ listening => persistence = "up"

QueueInv == dirty \in Queues /\ BatchGood(worker)

CarriedInv ==
    \A e \in registered : stored[e].at < notified[e] => OnItsWay(worker, dirty, e)

SavingInv == DurableInv /\ ToldInv /\ QueueInv /\ CarriedInv

LEMMA IdsOfAppend ==
    ASSUME NEW q \in Queues, NEW x \in Entities \cup {Sentinel}
    PROVE  Append(q, x) \in Queues /\ Ids(Append(q, x)) = Ids(q) \cup {x}
BY DEF Queues, Ids

LEMMA IdsOfTail ==
    ASSUME NEW q \in Queues, q # <<>>
    PROVE  /\ Tail(q) \in Queues /\ Ids(q) = Ids(Tail(q)) \cup {Head(q)}
           /\ Head(q) \in Entities \cup {Sentinel}
<1>1. /\ Head(q) = q[1] /\ Head(q) \in Entities \cup {Sentinel} /\ Len(q) \in Nat /\ Len(q) >= 1
      /\ Tail(q) \in Queues /\ Len(Tail(q)) = Len(q) - 1
      /\ \A i \in 1..Len(Tail(q)) : Tail(q)[i] = q[i + 1]
  BY DEF Queues
<1>2. ASSUME NEW i \in 1..Len(q) PROVE q[i] \in Ids(Tail(q)) \cup {Head(q)}
  <2>1. CASE i = 1
    BY <1>1, <2>1
  <2>2. CASE i # 1
    <3>1. i - 1 \in 1..Len(Tail(q)) /\ (i - 1) + 1 = i
      BY <1>1, <2>2
    <3>2. Tail(q)[i - 1] = q[i]
      BY <1>1, <3>1
    <3> QED
      BY <3>1, <3>2 DEF Ids
  <2> QED
    BY <2>1, <2>2
<1>3. ASSUME NEW i \in 1..Len(Tail(q)) PROVE Tail(q)[i] \in Ids(q)
  BY <1>1, i + 1 \in 1..Len(q) DEF Ids
<1>4. Head(q) \in Ids(q)
  BY <1>1 DEF Ids
<1> QED
  BY <1>1, <1>2, <1>3, <1>4 DEF Ids

\* After the last failed attempt the ids of the batch are on the queue again.
LEMMA IdsRequeued ==
    ASSUME dirty \in Queues, NEW batch, batch \subseteq Entities, NEW q \in Requeued(batch)
    PROVE  q \in Queues /\ Ids(dirty) \subseteq Ids(q) /\ batch \subseteq Ids(q)
<1>1. PICK s \in Orders(batch) : q = dirty \o s
  BY DEF Requeued
<1> DEFINE n == Cardinality(batch)
<1>2. n \in Nat
  BY FS_Subset, FS_CardinalityType, EntityPersistenceAssumption
<1>3. s \in [1..n -> batch] /\ {s[i] : i \in 1..n} = batch
  BY DEF Orders
<1> HIDE DEF n
<1>4. s \in Queues /\ Len(s) = n
  BY <1>2, <1>3 DEF Queues
<1>5. /\ q \in Queues /\ Len(q) = Len(dirty) + n /\ Len(dirty) \in Nat
      /\ \A i \in 1..Len(dirty) : q[i] = dirty[i]
      /\ \A i \in 1..n : q[Len(dirty) + i] = s[i]
  <2>1. q \in Queues /\ Len(q) = Len(dirty) + Len(s) /\ Len(dirty) \in Nat
    BY <1>1, <1>4, ConcatProperties, LenProperties DEF Queues
  <2>2. \A i \in 1..Len(dirty) + Len(s) :
          q[i] = IF i <= Len(dirty) THEN dirty[i] ELSE s[i - Len(dirty)]
    BY <1>1, <1>4, ConcatProperties DEF Queues
  <2>3. ASSUME NEW i \in 1..n PROVE q[Len(dirty) + i] = s[i]
    <3>1. /\ Len(dirty) + i \in 1..Len(dirty) + Len(s)
          /\ ~(Len(dirty) + i <= Len(dirty)) /\ (Len(dirty) + i) - Len(dirty) = i
      BY <1>2, <1>4, <2>1
    <3> QED
      BY <2>2, <3>1
  <2> QED
    BY <1>2, <1>4, <2>1, <2>2, <2>3
<1>6. Ids(dirty) \subseteq Ids(q)
  BY <1>2, <1>5 DEF Ids
<1>7. ASSUME NEW e \in batch PROVE e \in Ids(q)
  <2>1. PICK i \in 1..n : s[i] = e
    BY <1>3
  <2>2. Len(dirty) + i \in 1..Len(q) /\ q[Len(dirty) + i] = e
    BY <1>2, <1>5, <2>1
  <2> QED
    BY <2>2 DEF Ids
<1> QED
  BY <1>5, <1>6, <1>7

\* A worker that begins to write carries what memory has of its batch.
LEMMA PersistingCarries ==
    ASSUME ToldInv, NEW pc \in {"write", "final"}, NEW batch, batch \subseteq Entities
    PROVE  /\ BatchGood(Persisting(pc, batch))
           /\ \A q : \A e \in batch \cap registered : OnItsWay(Persisting(pc, batch), q, e)
<1> DEFINE w == Persisting(pc, batch)
<1>1. w.pc = pc /\ w.batch = batch /\ w.snapshot = Snapshot(batch)
  BY DEF Persisting
<1>2. DOMAIN Snapshot(batch) = batch \cap registered
      /\ \A e \in batch \cap registered : Snapshot(batch)[e] = entityState[e]
  BY DEF Snapshot
<1> HIDE DEF w
<1>3. BatchGood(w)
  BY <1>1, <1>2 DEF BatchGood
<1>4. ASSUME NEW q, NEW e \in batch \cap registered PROVE OnItsWay(w, q, e)
  BY <1>1, <1>2, <1>4 DEF OnItsWay, ToldInv
<1> QED
  BY <1>3, <1>4 DEF w

LEMMA IdleWorkersGood ==
    BatchGood(NoWorker) /\ BatchGood(DoneWorker) /\ BatchGood([NoWorker EXCEPT !.pc = "get"])
BY DEF NoWorker, DoneWorker, BatchGood

\* The final batch holds all that was queued.
LEMMA DrainingCarries ==
    ASSUME ToldInv, registered \subseteq Entities, NEW q \in Queues
    PROVE  /\ BatchGood(Draining(q))
           /\ \A r : \A e \in Ids(q) \cap registered : OnItsWay(Draining(q), r, e)
<1> DEFINE final == Ids(q) \ {Sentinel}
<1>1. final \subseteq Entities
  BY DEF Queues, Ids
<1>2. \A e \in Ids(q) \cap registered : e \in final \cap registered
  BY EntityPersistenceAssumption
<1>3. Draining(q) = IF final \cap registered = {} THEN DoneWorker ELSE Persisting("final", final)
  BY DEF Draining, Ids
<1> HIDE DEF final
<1>4. CASE final \cap registered = {}
  BY <1>2, <1>3, <1>4, IdleWorkersGood
<1>5. CASE final \cap registered # {}
  BY <1>1, <1>2, <1>3, <1>5, PersistingCarries
<1> QED
  BY <1>4, <1>5

\* Back at the head of its loop, the worker has what is on the queue before it.
LEMMA LoopCarries ==
    ASSUME ToldInv, registered \subseteq Entities, NEW q \in Queues, NEW stopping,
           Loop(q, stopping)
    PROVE  /\ BatchGood(worker') /\ dirty' \in Queues
           /\ \A e \in Ids(q) \cap registered : OnItsWay(worker', dirty', e)
<1>1. CASE stopping
  <2>1. worker' = Draining(q) /\ dirty' = <<>>
    BY <1>1 DEF Loop
  <2> QED
    BY <2>1, DrainingCarries DEF Queues
<1>2. CASE ~stopping
  <2>1. worker' = [NoWorker EXCEPT !.pc = "get"] /\ dirty' = q
    BY <1>2 DEF Loop
  <2> QED
    BY <2>1, IdleWorkersGood DEF OnItsWay
<1> QED
  BY <1>1, <1>2

LEMMA ContinueCarries ==
    ASSUME ToldInv, registered \subseteq Entities, NEW q \in Queues, Continue(q)
    PROVE  /\ BatchGood(worker') /\ dirty' \in Queues
           /\ \A e \in Ids(q) \cap registered : OnItsWay(worker', dirty', e)
<1>1. CASE worker.pc = "final"
  <2>1. worker' = DoneWorker /\ dirty' = q
    BY <1>1 DEF Continue
  <2> QED
    BY <2>1, IdleWorkersGood DEF OnItsWay
<1>2. CASE worker.pc # "final"
  BY <1>2, LoopCarries DEF Continue
<1> QED
  BY <1>1, <1>2

\* A step of the worker that leaves memory and the listener alone.
LEMMA WorkerCarries ==
    ASSUME SavingInv,
           UNCHANGED <<registered, entityState, notified, listening, persistence>>,
           dirty' \in Queues, BatchGood(worker'),
           \A e \in registered : stored'[e].at < notified[e] => OnItsWay(worker', dirty', e)
    PROVE  ToldInv' /\ QueueInv' /\ CarriedInv'
<1>1. ToldInv'
  BY DEF SavingInv, ToldInv
<1>2. QueueInv'
  BY DEF QueueInv
<1>3. CarriedInv'
  BY DEF CarriedInv, OnItsWay
<1> QED
  BY <1>1, <1>2, <1>3

\* A step after which the listener has been told of nothing.
LEMMA NothingTold ==
    ASSUME notified' = [e \in Entities |-> 0], dirty' \in Queues, BatchGood(worker'),
           DurableInv', listening' => persistence' = "up"
    PROVE  ToldInv' /\ QueueInv' /\ CarriedInv'
<1>1. \A e \in Entities : entityState'[e].at \in Nat /\ stored'[e].at \in Nat
  BY DEF DurableInv, EPTypeOK, EntityStates
<1>2. registered' \subseteq Entities
  BY DEF DurableInv, EPTypeOK
<1>3. ToldInv'
  BY <1>1 DEF ToldInv
<1>4. CarriedInv'
  BY <1>1, <1>2 DEF CarriedInv
<1> QED
  BY <1>3, <1>4 DEF QueueInv

LEMMA InitiallySaving == EPInit => SavingInv
<1> SUFFICES ASSUME EPInit PROVE SavingInv
  OBVIOUS
<1>1. ToldInv /\ dirty \in Queues
  BY DEF EPInit, ToldInv, NoRow, Queues
<1>2. BatchGood(worker)
  BY IdleWorkersGood DEF EPInit
<1>3. CarriedInv
  BY DEF EPInit, CarriedInv
<1> QED
  BY <1>1, <1>2, <1>3, InitiallyDurable DEF SavingInv, QueueInv

\* A change of one entity: its listener queues it, if it is told.
LEMMA ChangeCarries ==
    ASSUME SavingInv, NEW e \in Entities,
           changes' = changes + 1,
           entityState' = [entityState EXCEPT ![e] = [at |-> changes + 1, nested |-> FALSE]],
           UNCHANGED <<stored, worker, persistence, listening>>,
           \/ /\ registered' \in {registered, registered \cup {e}}
              /\ UNCHANGED <<notified, dirty>>
           \/ /\ e \in registered /\ registered' = registered /\ listening
              /\ dirty' = Append(dirty, e)
              /\ notified' = [notified EXCEPT ![e] = changes']
    PROVE  ToldInv' /\ QueueInv' /\ CarriedInv'
<1>1. /\ changes \in Nat /\ entityState \in [Entities -> EntityStates]
      /\ \A d \in Entities : entityState[d].at \in Nat /\ stored[d].at \in Nat
      /\ \A d \in Entities : entityState[d].at <= changes
      /\ notified \in [Entities -> Nat] /\ registered \subseteq Entities
  BY DEF SavingInv, DurableInv, EPTypeOK, MemoryInv, ToldInv, EntityStates
<1>2. \A d \in Entities : entityState'[d].at = IF d = e THEN changes + 1 ELSE entityState[d].at
  BY <1>1
<1>3. CASE /\ registered' \in {registered, registered \cup {e}}
           /\ UNCHANGED <<notified, dirty>>
  <2>1. ToldInv'
    BY <1>1, <1>2, <1>3 DEF SavingInv, ToldInv
  <2>2. QueueInv'
    BY <1>3 DEF SavingInv, QueueInv
  <2>3. ASSUME NEW d \in registered', stored'[d].at < notified'[d]
        PROVE  OnItsWay(worker, dirty, d)
    <3>1. d \in registered
      BY <1>1, <1>3, <2>3 DEF SavingInv, ToldInv
    <3> QED
      BY <1>3, <2>3, <3>1 DEF SavingInv, CarriedInv
  <2>4. CarriedInv'
    BY <1>3, <2>3 DEF CarriedInv, OnItsWay
  <2> QED
    BY <2>1, <2>2, <2>4
<1>4. CASE /\ e \in registered /\ registered' = registered /\ listening
           /\ dirty' = Append(dirty, e)
           /\ notified' = [notified EXCEPT ![e] = changes']
  <2>1. \A d \in Entities : notified'[d] = IF d = e THEN changes + 1 ELSE notified[d]
    BY <1>1, <1>4
  <2>2. dirty' \in Queues /\ Ids(dirty') = Ids(dirty) \cup {e}
    BY <1>4, IdsOfAppend DEF SavingInv, QueueInv
  <2>3. notified' \in [Entities -> Nat]
    BY <1>1, <1>4
  <2>4. ToldInv'
    BY <1>1, <1>2, <1>4, <2>1, <2>3 DEF SavingInv, ToldInv
  <2>5. QueueInv'
    BY <2>2 DEF SavingInv, QueueInv
  <2>6. ASSUME NEW d \in registered, stored[d].at < notified'[d]
        PROVE  OnItsWay(worker, dirty, d)'
    <3>1. CASE d = e
      BY <2>2, <3>1 DEF OnItsWay
    <3>2. CASE d # e
      <4>1. OnItsWay(worker, dirty, d) /\ notified'[d] = notified[d]
        BY <1>1, <2>1, <2>6, <3>2 DEF SavingInv, CarriedInv
      <4> QED
        BY <2>2, <4>1, worker' = worker DEF OnItsWay
    <3> QED
      BY <3>1, <3>2
  <2>7. CarriedInv'
    BY <1>4, <2>6 DEF CarriedInv
  <2> QED
    BY <2>4, <2>5, <2>7
<1> QED
  BY <1>3, <1>4

LEMMA StepKeepsSaving ==
    ASSUME SavingInv, [EPNext]_epVars
    PROVE  SavingInv'
<1>0. /\ DurableInv /\ ToldInv /\ dirty \in Queues /\ BatchGood(worker) /\ DurableInv'
      /\ registered \subseteq Entities
  BY StepKeepsDurable DEF SavingInv, QueueInv, DurableInv, EPTypeOK
<1> SUFFICES ToldInv' /\ QueueInv' /\ CarriedInv'
  BY <1>0 DEF SavingInv
<1>1. ASSUME NEW e \in Entities,
             RegisterEntity(e) \/ UpdateEntityState(e) \/ UpdateUnnotified(e)
      PROVE  ToldInv' /\ QueueInv' /\ CarriedInv'
  BY <1>1, ChangeCarries DEF RegisterEntity, UpdateEntityState, UpdateUnnotified, UpdateState
<1>2. ASSUME NEW e \in Entities, RemoveEntity(e)
      PROVE  ToldInv' /\ QueueInv' /\ CarriedInv'
  <2>1. /\ notified' = [notified EXCEPT ![e] = 0] /\ registered' = registered \ {e}
        /\ UNCHANGED <<entityState, dirty, listening, worker, persistence, stored>>
    BY <1>2 DEF RemoveEntity
  <2>2. \A d \in Entities : entityState[d].at \in Nat
    BY <1>0 DEF DurableInv, EPTypeOK, EntityStates
  <2>3. ToldInv'
    BY <1>0, <2>1, <2>2 DEF ToldInv
  <2>4. \A d \in registered' : d \in registered /\ notified'[d] = notified[d]
    BY <1>0, <2>1 DEF ToldInv
  <2>5. CarriedInv'
    BY <2>1, <2>4 DEF SavingInv, CarriedInv, OnItsWay
  <2> QED
    BY <2>1, <2>3, <2>5 DEF SavingInv, QueueInv
<1>3. CASE StartPersistence
  <2>1. ~listening
    BY <1>0, <1>3 DEF StartPersistence, ToldInv
  <2> QED
    BY <1>0, <1>3, <2>1, NothingTold, IdleWorkersGood DEF StartPersistence, Queues
<1>4. CASE FinishLoad
  <2>1. /\ notified' = notified /\ persistence = "loading" /\ persistence' = "up"
        /\ dirty' = dirty /\ worker' = [NoWorker EXCEPT !.pc = "get"]
    BY <1>4 DEF FinishLoad
  <2>2. notified' = [e \in Entities |-> 0]
    BY <1>0, <2>1 DEF ToldInv
  <2> QED
    BY <1>0, <2>1, <2>2, NothingTold, IdleWorkersGood
<1>5. CASE WorkerGet
  <2>1. /\ UNCHANGED <<registered, entityState, notified, listening, persistence, stored>>
        /\ worker.pc = "get" /\ dirty # <<>>
    BY <1>5 DEF WorkerGet
  <2>2. /\ Tail(dirty) \in Queues /\ Ids(dirty) = Ids(Tail(dirty)) \cup {Head(dirty)}
        /\ Head(dirty) \in Entities \cup {Sentinel}
    BY <1>0, <2>1, IdsOfTail
  <2>3. \A e \in registered : stored[e].at < notified[e] => e \in Ids(dirty)
    BY <2>1 DEF SavingInv, CarriedInv, OnItsWay
  <2>4. CASE Head(dirty) = Sentinel
    <3>1. worker' = Draining(Tail(dirty)) /\ dirty' = <<>>
      BY <1>5, <2>4 DEF WorkerGet
    <3>2. \A e \in registered : stored[e].at < notified[e] => e \in Ids(Tail(dirty))
      BY <1>0, <2>2, <2>3, <2>4, EntityPersistenceAssumption
    <3>3. dirty' \in Queues
      BY <3>1 DEF Queues
    <3>4. /\ BatchGood(worker')
          /\ \A e \in registered : stored'[e].at < notified[e] => OnItsWay(worker', dirty', e)
      BY <1>0, <2>1, <2>2, <3>1, <3>2, DrainingCarries
    <3> QED
      BY <2>1, <3>3, <3>4, WorkerCarries
  <2>5. CASE Head(dirty) # Sentinel
    <3>1. worker' = [pc |-> "collect", batch |-> {Head(dirty)},
                     snapshot |-> worker.snapshot, attempt |-> worker.attempt]
      BY <1>0, <1>5, <2>5 DEF WorkerGet, DurableInv, EPTypeOK
    <3>2. dirty' = Tail(dirty)
      BY <1>5, <2>5 DEF WorkerGet
    <3>3. BatchGood(worker')
      BY <2>2, <2>5, <3>1 DEF BatchGood
    <3>4. \A e \in registered : stored'[e].at < notified[e] => OnItsWay(worker', dirty', e)
      BY <2>1, <2>2, <2>3, <3>1, <3>2 DEF OnItsWay
    <3> QED
      BY <2>1, <2>2, <3>2, <3>3, <3>4, WorkerCarries
  <2> QED
    BY <2>4, <2>5
<1>6. CASE WorkerCollect
  <2>1. /\ UNCHANGED <<registered, entityState, notified, listening, persistence, stored>>
        /\ worker.pc = "collect" /\ dirty # <<>> /\ Head(dirty) # Sentinel
        /\ dirty' = Tail(dirty)
    BY <1>6 DEF WorkerCollect
  <2>2. worker' = [pc |-> "collect", batch |-> worker.batch \cup {Head(dirty)},
                   snapshot |-> worker.snapshot, attempt |-> worker.attempt]
    BY <1>0, <1>6, <2>1 DEF WorkerCollect, DurableInv, EPTypeOK
  <2>3. /\ Tail(dirty) \in Queues /\ Ids(dirty) = Ids(Tail(dirty)) \cup {Head(dirty)}
        /\ Head(dirty) \in Entities \cup {Sentinel}
    BY <1>0, <2>1, IdsOfTail
  <2>4. BatchGood(worker')
    BY <1>0, <2>1, <2>2, <2>3 DEF BatchGood
  <2>5. \A e \in registered : stored'[e].at < notified[e] => OnItsWay(worker', dirty', e)
    BY <2>1, <2>2, <2>3 DEF SavingInv, CarriedInv, OnItsWay
  <2> QED
    BY <2>1, <2>3, <2>4, <2>5, WorkerCarries
<1>7. CASE WorkerFlush
  <2> DEFINE sentinel == /\ Cardinality(worker.batch) < MaxBatchSize
                         /\ dirty # <<>>
                         /\ Head(dirty) = Sentinel
             q == IF sentinel THEN Tail(dirty) ELSE dirty
  <2>1. /\ UNCHANGED <<registered, entityState, notified, listening, persistence, stored>>
        /\ worker.pc = "collect"
        /\ IF worker.batch \cap registered = {}
           THEN Loop(q, is_stopping')
           ELSE worker' = Persisting("write", worker.batch) /\ dirty' = q
    BY <1>7 DEF WorkerFlush
  <2>2. q \in Queues /\ (\A e \in Entities : e \in Ids(dirty) => e \in Ids(q))
    BY <1>0, IdsOfTail, EntityPersistenceAssumption
  <2> HIDE DEF q
  <2>3. \A e \in registered : stored[e].at < notified[e] => e \in Ids(q) \cup worker.batch
    BY <1>0, <2>1, <2>2 DEF SavingInv, CarriedInv, OnItsWay
  <2>4. CASE worker.batch \cap registered = {}
    <3>1. /\ BatchGood(worker') /\ dirty' \in Queues
          /\ \A e \in Ids(q) \cap registered : OnItsWay(worker', dirty', e)
      BY <1>0, <2>1, <2>2, <2>4, LoopCarries
    <3> QED
      BY <2>1, <2>3, <2>4, <3>1, WorkerCarries
  <2>5. CASE worker.batch \cap registered # {}
    <3>1. /\ BatchGood(worker') /\ dirty' = q
          /\ \A e \in worker.batch \cap registered : OnItsWay(worker', dirty', e)
      BY <1>0, <2>1, <2>5, PersistingCarries DEF BatchGood
    <3>2. \A e \in registered : stored'[e].at < notified[e] => OnItsWay(worker', dirty', e)
      BY <2>1, <2>3, <3>1 DEF OnItsWay
    <3> QED
      BY <2>1, <2>2, <3>1, <3>2, WorkerCarries
  <2> QED
    BY <2>4, <2>5
<1>8. CASE WriteSucceeds
  <2>1. /\ UNCHANGED <<registered, entityState, notified, listening, persistence>>
        /\ Writing /\ stored' = Upserted /\ Continue(dirty)
    BY <1>8 DEF WriteSucceeds, Writing
  <2>2. /\ BatchGood(worker') /\ dirty' \in Queues
        /\ \A e \in Ids(dirty) \cap registered : OnItsWay(worker', dirty', e)
    BY <1>0, <2>1, ContinueCarries
  <2>3. ASSUME NEW e \in registered, stored'[e].at < notified[e] PROVE e \in Ids(dirty)
    <3>1. /\ notified[e] \in Nat /\ stored[e].at \in Nat
          /\ stored'[e] = IF e \in DOMAIN worker.snapshot THEN worker.snapshot[e] ELSE stored[e]
      BY <1>0, <2>1 DEF Upserted, ToldInv, DurableInv, EPTypeOK, EntityStates
    <3>2. CASE e \notin DOMAIN worker.snapshot
      BY <2>1, <2>3, <3>1, <3>2 DEF SavingInv, CarriedInv, OnItsWay, Writing
    <3>3. CASE e \in DOMAIN worker.snapshot
      <4>1. /\ worker.snapshot[e].at \in Nat /\ stored[e].at <= worker.snapshot[e].at
            /\ worker.snapshot[e].at < notified[e]
        BY <1>0, <2>1, <2>3, <3>1, <3>3, SnapshotOf
           DEF DurableInv, EPTypeOK, SnapshotInv, EntityStates
      <4>2. stored[e].at < notified[e]
        BY <3>1, <4>1
      <4> QED
        BY <2>1, <3>1, <4>1, <4>2 DEF SavingInv, CarriedInv, OnItsWay, Writing
    <3> QED
      BY <3>2, <3>3
  <2> QED
    BY <2>1, <2>2, <2>3, WorkerCarries
<1>9. CASE WriteFails
  <2>1. /\ UNCHANGED <<registered, entityState, notified, listening, persistence, stored>>
        /\ Writing
    BY <1>9 DEF WriteFails, Writing
  <2>2. \A e \in registered : stored[e].at < notified[e] =>
          e \in Ids(dirty) \/ (e \in DOMAIN worker.snapshot /\ notified[e] <= worker.snapshot[e].at)
    BY <2>1 DEF SavingInv, CarriedInv, OnItsWay, Writing
  <2>3. CASE LastAttempt
    <3>1. PICK q \in Requeued(worker.batch) : Continue(q)
      BY <1>9, <2>3 DEF WriteFails
    <3>2. q \in Queues /\ Ids(dirty) \subseteq Ids(q) /\ worker.batch \subseteq Ids(q)
      BY <1>0, IdsRequeued DEF BatchGood
    <3>3. \A e \in registered : stored[e].at < notified[e] => e \in Ids(q)
      BY <1>0, <2>1, <2>2, <3>2 DEF BatchGood, Writing
    <3>4. /\ BatchGood(worker') /\ dirty' \in Queues
          /\ \A e \in Ids(q) \cap registered : OnItsWay(worker', dirty', e)
      BY <1>0, <3>1, <3>2, ContinueCarries
    <3> QED
      BY <2>1, <3>3, <3>4, WorkerCarries
  <2>4. CASE ~LastAttempt
    <3>1. worker' = [pc |-> worker.pc, batch |-> worker.batch,
                     snapshot |-> worker.snapshot, attempt |-> worker.attempt + 1]
      BY <1>0, <1>9, <2>4 DEF WriteFails, DurableInv, EPTypeOK
    <3>2. dirty' = dirty
      BY <1>9, <2>4 DEF WriteFails
    <3>3. BatchGood(worker')
      BY <1>0, <3>1 DEF BatchGood
    <3>4. \A e \in registered : stored'[e].at < notified[e] => OnItsWay(worker', dirty', e)
      BY <2>1, <2>2, <3>1, <3>2 DEF OnItsWay, Writing
    <3> QED
      BY <1>0, <2>1, <3>2, <3>3, <3>4, WorkerCarries
  <2> QED
    BY <2>3, <2>4
<1>10. CASE StopPersistence
  <2>1. /\ dirty' = Append(dirty, Sentinel) /\ ~listening' /\ persistence' = "stopping"
        /\ UNCHANGED <<registered, entityState, notified, worker, stored>>
    BY <1>10 DEF StopPersistence
  <2>2. dirty' \in Queues /\ Ids(dirty) \subseteq Ids(dirty')
    BY <1>0, <2>1, IdsOfAppend
  <2>3. ToldInv' /\ QueueInv'
    BY <1>0, <2>1, <2>2 DEF ToldInv, QueueInv
  <2>4. CarriedInv'
    BY <2>1, <2>2 DEF SavingInv, CarriedInv, OnItsWay
  <2> QED
    BY <2>3, <2>4
<1>11. CASE StopJoins
  <2>1. /\ ~listening /\ persistence' = "down"
        /\ UNCHANGED <<registered, entityState, notified, dirty, listening, worker, stored>>
    BY <1>0, <1>11 DEF StopJoins, ToldInv
  <2> QED
    BY <1>0, <2>1 DEF SavingInv, ToldInv, QueueInv, CarriedInv, OnItsWay
<1>12. CASE StopCancels \/ Crash
  <2>1. /\ notified' = [e \in Entities |-> 0] /\ dirty' = <<>>
        /\ worker' \in {NoWorker, DoneWorker} /\ ~listening'
    BY <1>0, <1>12 DEF StopCancels, Crash, ToldInv
  <2> QED
    BY <1>0, <2>1, NothingTold, IdleWorkersGood DEF Queues
<1>13. CASE UNCHANGED epVars
  BY <1>13 DEF epVars, SavingInv, ToldInv, QueueInv, CarriedInv, OnItsWay
<1> QED
  BY <1>1, <1>2, <1>3, <1>4, <1>5, <1>6, <1>7, <1>8, <1>9, <1>10, <1>11, <1>12, <1>13 DEF EPNext

\* A clean stop loses no change the service was told of: what is neither saved
\* nor put back was on the queue the worker drained, or in what it wrote.
THEOREM CleanStopsSave == EPSpec => []CleanStopSavesAll
<1>1. SavingInv /\ [EPNext]_epVars => SavingInv'
  BY StepKeepsSaving
<1>2. SavingInv => CleanStopSavesAll
  <2> SUFFICES ASSUME SavingInv, worker.pc = "done", dirty = <<>>, NEW e \in registered
               PROVE  stored[e].at >= notified[e]
    BY DEF CleanStopSavesAll
  <2>1. ~OnItsWay(worker, dirty, e)
    BY DEF OnItsWay, Ids
  <2>2. stored[e].at \in Nat /\ notified[e] \in Nat
    BY DEF SavingInv, DurableInv, EPTypeOK, EntityStates, ToldInv
  <2> QED
    BY <2>1, <2>2 DEF SavingInv, CarriedInv
<1> QED
  BY <1>1, <1>2, InitiallySaving, PTL DEF EPSpec

-----------------------------------------------------------------------------
(* Running operations are tracked.                                         *)

OperationsInv ==
    /\ DOMAIN operation = Operations
    /\ \A o \in Operations : {"pc", "status"} \subseteq DOMAIN operation[o]
    /\ RunningOperationsTracked

\* A step after which o is at pc with a status, the others where they were, and
\* tracked as before.
LEMMA OneMoves ==
    ASSUME OperationsInv, NEW o \in Operations, NEW r,
           {"pc", "status"} \subseteq DOMAIN r,
           operation' = [operation EXCEPT ![o] = r],
           \/ r.pc \in {"updated", "queued_frame", "waiting"} /\ pending' = pending \cup {o}
           \/ r.pc \in {"updated", "queued_frame", "waiting"} /\ pending' = pending
              /\ o \in Running /\ r.status = operation[o].status
           \/ r.pc \notin {"updated", "queued_frame", "waiting"} /\ pending' = pending \ {o}
    PROVE  OperationsInv'
<1>1. /\ DOMAIN operation' = Operations /\ operation'[o] = r
      /\ \A q \in Operations : q # o => operation'[q] = operation[q]
  BY DEF OperationsInv
<1>2. \A q \in Operations : {"pc", "status"} \subseteq DOMAIN operation'[q]
  BY <1>1 DEF OperationsInv
<1>3. \A q \in Operations : q # o => (q \in Running' <=> q \in Running)
  BY <1>1 DEF Running
<1>4. o \in Running' <=> r.pc \in {"updated", "queued_frame", "waiting"}
  BY <1>1 DEF Running
<1>5. pending' \subseteq Running'
  BY <1>3, <1>4 DEF OperationsInv, RunningOperationsTracked, Running
<1>6. ASSUME NEW q \in Running' PROVE q \in pending' \/ operation'[q].status = "safety_abort"
  <2>1. CASE q = o
    BY <2>1, <1>1, <1>4, <1>6 DEF OperationsInv, RunningOperationsTracked
  <2>2. CASE q # o
    BY <2>2, <1>1, <1>3, <1>6 DEF OperationsInv, RunningOperationsTracked, Running
  <2> QED
    BY <2>1, <2>2
<1> QED
  BY <1>1, <1>2, <1>5, <1>6 DEF OperationsInv, RunningOperationsTracked

LEMMA FinishKeepsTracking ==
    ASSUME OperationsInv, NEW o \in Operations, NEW status, Finish(o, status)
    PROVE  OperationsInv'
<1> DEFINE r == [NoOperation EXCEPT !.pc = "done", !.status = status]
<1>1. {"pc", "status"} \subseteq DOMAIN r /\ r.pc = "done"
  BY DEF NoOperation
<1>2. operation' = [operation EXCEPT ![o] = r] /\ pending' = pending \ {o}
  BY DEF Finish
<1> HIDE DEF r
<1> QED
  BY <1>1, <1>2, OneMoves

LEMMA ExecuteKeepsTracking ==
    ASSUME OperationsInv, NEW o \in Operations, NEW request, Execute(o, request)
    PROVE  OperationsInv'
<1> DEFINE l == request.light
           result == ControlLight(l, request.command, request.brightness)
           r == [NoOperation EXCEPT !.pc = "updated", !.light = l, !.level = result.level,
                                    !.status = "pending"]
<1> HIDE DEF result
<1>1. \/ \E status : Finish(o, status)
      \/ operation' = [operation EXCEPT ![o] = r] /\ pending' = pending \cup {o}
  BY DEF Execute, result
<1>2. {"pc", "status"} \subseteq DOMAIN r /\ r.pc = "updated"
  BY DEF NoOperation
<1> HIDE DEF r
<1> QED
  BY <1>1, <1>2, FinishKeepsTracking, OneMoves

\* An emergency stop that interleaves with bulk and single operations anywhere reaches
\* each of them, however many run at once: what runs is tracked until it ends, or has been marked by a stop.
THEOREM StopsReachOperations == ECSpec => []RunningOperationsTracked
<1>1. ECInit => OperationsInv
  BY DEF ECInit, OperationsInv, RunningOperationsTracked, Running, NoOperation
<1>2. OperationsInv /\ [ECNext]_ecVars => OperationsInv'
  <2> SUFFICES ASSUME OperationsInv, [ECNext]_ecVars PROVE OperationsInv'
    OBVIOUS
  <2>1. ASSUME NEW S, NEW limit, NEW where, NEW command, NEW b, NEW confirmed,
               Request(S, limit, where, command, b, confirmed)
        PROVE  OperationsInv'
    <3>1. /\ DOMAIN operation' = Operations /\ pending' = pending
          /\ \A o \in Operations : operation'[o] # operation[o] =>
               /\ operation[o].pc = "unused" /\ operation'[o].pc = "requested"
          /\ \A o \in Operations : {"pc", "status"} \subseteq DOMAIN operation'[o]
      BY <2>1 DEF Request, OperationsInv, Unused, NoOperation
    <3>2. Running' = Running /\ \A o \in Running : operation'[o] = operation[o]
      BY <3>1 DEF Running
    <3> QED
      BY <3>1, <3>2 DEF OperationsInv, RunningOperationsTracked
  <2>2. ASSUME NEW o \in Operations, Begin(o) PROVE OperationsInv'
    BY <2>2, ExecuteKeepsTracking DEF Begin
  <2>11. ASSUME NEW o \in Unused, NEW l, NEW command, NEW b, RequestSingle(o, l, command, b)
         PROVE  OperationsInv'
    <3>1. o \in Operations
      BY DEF Unused
    <3> QED
      BY <3>1, <2>11, ExecuteKeepsTracking DEF RequestSingle
  <2>3. ASSUME NEW o \in Operations, QueueFrame(o) PROVE OperationsInv'
    <3> DEFINE r == [NoOperation EXCEPT !.pc = "queued_frame", !.status = operation[o].status]
    <3>1. {"pc", "status"} \subseteq DOMAIN r /\ r.pc = "queued_frame" /\ r.status = operation[o].status
      BY DEF NoOperation
    <3>2. operation' = [operation EXCEPT ![o] = r] /\ pending' = pending /\ o \in Running
      BY <2>3 DEF QueueFrame, Running
    <3> HIDE DEF r
    <3> QED
      BY <3>1, <3>2, OneMoves
  <2>4. ASSUME NEW o \in Operations, BroadcastRaises(o) \/ AcknowledgmentTimeout(o) PROVE OperationsInv'
    BY <2>4, FinishKeepsTracking DEF BroadcastRaises, AcknowledgmentTimeout
  <2>5. ASSUME NEW o \in Operations, AwaitAcknowledgment(o) PROVE OperationsInv'
    <3> DEFINE r == [operation[o] EXCEPT !.pc = "waiting"]
    <3>1. {"pc", "status"} \subseteq DOMAIN r /\ r.pc = "waiting" /\ r.status = operation[o].status
      BY DEF OperationsInv
    <3>2. operation' = [operation EXCEPT ![o] = r] /\ pending' = pending /\ o \in Running
      BY <2>5 DEF AwaitAcknowledgment, Running
    <3> HIDE DEF r
    <3> QED
      BY <3>1, <3>2, OneMoves
  <2>6. CASE EmergencyStopEntities
    <3>1. DOMAIN operation' = Operations /\ pending' = {}
      BY <2>6 DEF EmergencyStopEntities, Aborted
    <3>2. ASSUME NEW o \in Operations
          PROVE  /\ {"pc", "status"} \subseteq DOMAIN operation'[o]
                 /\ operation'[o].pc = operation[o].pc
                 /\ o \in pending => operation'[o].status = "safety_abort"
                 /\ o \notin pending => operation'[o] = operation[o]
      <4>1. operation'[o] = IF o \in pending THEN [operation[o] EXCEPT !.status = "safety_abort"]
                            ELSE operation[o]
        BY <2>6 DEF EmergencyStopEntities, Aborted
      <4>2. {"pc", "status"} \subseteq DOMAIN operation[o]
        BY DEF OperationsInv
      <4> QED
        BY <4>1, <4>2
    <3>3. Running' = Running
      BY <3>2 DEF Running
    <3>4. \A o \in Running : operation'[o].status = "safety_abort"
      BY <3>2 DEF Running, OperationsInv, RunningOperationsTracked
    <3> QED
      BY <3>1, <3>2, <3>3, <3>4 DEF OperationsInv, RunningOperationsTracked
  <2>7. ASSUME UNCHANGED <<operation, pending>> PROVE OperationsInv'
    BY <2>7 DEF OperationsInv, RunningOperationsTracked, Running
  <2>8. CASE ClearEmergencyStopEntities \/ WriterTakes \/ WriterSendsAgain \/ SendFails
    BY <2>7, <2>8 DEF ClearEmergencyStopEntities, WriterTakes, WriterSendsAgain, SendFails
  <2>9. ASSUME NEW l \in Lights, StatusMessage(l) PROVE OperationsInv'
    BY <2>7, <2>9 DEF StatusMessage
  <2>10. CASE UNCHANGED ecVars
    BY <2>7, <2>10 DEF ecVars
  <2> QED
    BY <2>1, <2>2, <2>3, <2>4, <2>5, <2>6, <2>8, <2>9, <2>10, <2>11 DEF ECNext
<1>3. OperationsInv => RunningOperationsTracked
  BY DEF OperationsInv
<1> QED
  BY <1>1, <1>2, <1>3, PTL DEF ECSpec
=============================================================================
