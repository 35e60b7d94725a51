-------------------------- MODULE EntityPersistence --------------------------
(***************************************************************************)
(* Saving and restoring entity states:                                     *)
(* backend/services/entity_persistence_service.py, driven by               *)
(* EntityManagerService (entity_manager_service.py) and notified by        *)
(* EntityManager (core/entity_manager.py).                                 *)
(*                                                                         *)
(* Everything runs on one event loop: a step here is the code between two  *)
(* awaits.  The worker awaits the queue, the debounce window, the database *)
(* write and the delay between two attempts; the service awaits the load   *)
(* and the end of the worker.  A crash may come between any two steps, and *)
(* then only the database survives.                                        *)
(*                                                                         *)
(* Data abstraction: an entity's state is the moment it was written, on a  *)
(* clock that counts changes, and whether its `state' field holds a plain  *)
(* value or a whole saved record (what _load_entity_states puts there).    *)
(***************************************************************************)
EXTENDS Integers, Sequences, FiniteSets

CONSTANTS
    Entities,         \* the entity ids of the coach mapping
    MaxBatchSize,     \* max_batch_size
    MaxRetries,       \* max_retries
    MaxChanges,       \* bound on the state changes of a run
    MaxWriteFailures, \* bound on the database writes that fail
    MaxRestarts       \* bound on the stops and crashes of a run

\* The None that stop() puts on the queue.
Sentinel == "sentinel"

ASSUME EntityPersistenceAssumption ==
    /\ IsFiniteSet(Entities)
    /\ Sentinel \notin Entities
    /\ MaxBatchSize \in Nat \ {0}
    /\ MaxRetries \in Nat \ {0}
    /\ MaxChanges \in Nat
    /\ MaxWriteFailures \in Nat
    /\ MaxRestarts \in Nat

VARIABLES
    registered,    \* the keys of EntityManager.entities
    entityState,   \* id -> current_state of the entity
    notified,      \* id -> the last change the listener was told of (history)
    changes,       \* the clock: changes so far
    dirty,         \* _dirty_entity_ids
    listening,     \* _on_entity_state_changed is a registered listener
    is_stopping,   \* _is_stopping
    worker,        \* the worker task
    persistence,   \* where EntityManagerService is in start() and stop()
    stored,        \* the entity_states table; at = 0: no row
    writeFailures, \* failed writes so far
    restarts       \* stops and crashes so far

epVars == <<registered, entityState, notified, changes, dirty, listening,
            is_stopping, worker, persistence, stored, writeFailures, restarts>>

EntityStates == [at : 0..MaxChanges, nested : BOOLEAN]
NoRow == [at |-> 0, nested |-> FALSE]

NoWorker == [pc |-> "none", batch |-> {}, snapshot |-> <<>>, attempt |-> 0]
DoneWorker == [NoWorker EXCEPT !.pc = "done"]

Queued == {dirty[i] : i \in 1..Len(dirty)}

-----------------------------------------------------------------------------
(* EntityManager.                                                          *)

\* register_entity, for an id whose physical id is not taken.
RegisterEntity(e) ==
    /\ e \notin registered
    /\ changes < MaxChanges
    /\ changes' = changes + 1
    /\ registered' = registered \cup {e}
    /\ entityState' = [entityState EXCEPT ![e] = [at |-> changes', nested |-> FALSE]]
    /\ UNCHANGED <<notified, dirty, listening, is_stopping, worker, persistence,
                   stored, writeFailures, restarts>>

\* EntityManagerService.remove_entity.
RemoveEntity(e) ==
    /\ e \in registered
    /\ registered' = registered \ {e}
    /\ notified' = [notified EXCEPT ![e] = 0]
    /\ UNCHANGED <<entityState, changes, dirty, listening, is_stopping, worker,
                   persistence, stored, writeFailures, restarts>>

\* Entity.update_state with a decoded message or a command's result.
UpdateState(e) ==
    /\ e \in registered
    /\ changes < MaxChanges
    /\ changes' = changes + 1
    /\ entityState' = [entityState EXCEPT ![e] = [at |-> changes', nested |-> FALSE]]
    /\ UNCHANGED <<registered, listening, is_stopping, worker, persistence,
                   stored, writeFailures, restarts>>

\* update_entity_state: update_state, then _notify_state_change, which calls
\* _on_entity_state_changed when it is registered.
UpdateEntityState(e) ==
    /\ UpdateState(e)
    /\ IF listening /\ ~is_stopping
       THEN /\ dirty' = Append(dirty, e)
            /\ notified' = [notified EXCEPT ![e] = changes']
       ELSE UNCHANGED <<dirty, notified>>

\* EntityManagerService.update_entity and EntityStateRepository's
\* update_entity_state_and_history call update_state directly: no listener
\* hears of the change.
UpdateUnnotified(e) == UpdateState(e) /\ UNCHANGED <<dirty, notified>>

-----------------------------------------------------------------------------
(* Start: a new EntityPersistenceService, whose start() loads, registers   *)
(* the listener and creates the worker.                                    *)

StartPersistence ==
    /\ persistence = "down"
    /\ persistence' = "loading"
    /\ is_stopping' = FALSE
    /\ dirty' = <<>>
    /\ worker' = NoWorker
    /\ notified' = [e \in Entities |-> 0]
    /\ UNCHANGED <<registered, entityState, changes, listening, stored,
                   writeFailures, restarts>>

\* What _load_entity_states leaves in memory: the saved record, under the
\* `state' key, for the registered entities that have a row.
Restored(e) ==
    IF e \in registered /\ stored[e] # NoRow
    THEN [at |-> stored[e].at, nested |-> TRUE]
    ELSE entityState[e]

\* The query returned, or failed and was logged: either way the service runs.
FinishLoad ==
    /\ persistence = "loading"
    /\ \/ entityState' = [e \in Entities |-> Restored(e)]
       \/ UNCHANGED entityState
    /\ persistence' = "up"
    /\ listening' = TRUE
    /\ worker' = [NoWorker EXCEPT !.pc = "get"]
    /\ UNCHANGED <<registered, notified, changes, dirty, is_stopping, stored,
                   writeFailures, restarts>>

-----------------------------------------------------------------------------
(* The worker.                                                             *)

\* The head of _persist_batch: the states of the batch's entities that are
\* still registered are collected once, before the first attempt.
Snapshot(batch) == [e \in batch \cap registered |-> entityState[e]]

\* _persist_batch up to its first await; with no state it returns at once.
Persisting(pc, batch) ==
    [pc |-> pc, batch |-> batch, snapshot |-> Snapshot(batch), attempt |-> 1]

\* Mutant: only what precedes the sentinel's arrival is saved.
DrainingNothing(q) == DoneWorker

\* After the loop: the rest of the queue q becomes the final batch.
Draining(q) ==
    LET final == {q[i] : i \in 1..Len(q)} \ {Sentinel}
    IN IF final \cap registered = {} THEN DoneWorker ELSE Persisting("final", final)

\* Mutant: the worker ends after its first batch.
LoopOnce(q, stopping) == worker' = DoneWorker /\ dirty' = q

\* The head of the loop, with q on the queue and the stop flag at stopping.
Loop(q, stopping) ==
    IF stopping
    THEN worker' = Draining(q) /\ dirty' = <<>>
    ELSE worker' = [NoWorker EXCEPT !.pc = "get"] /\ dirty' = q

\* The first id of a batch, or the sentinel.
WorkerGet ==
    /\ worker.pc = "get"
    /\ dirty # <<>>
    /\ IF Head(dirty) = Sentinel
       THEN worker' = Draining(Tail(dirty)) /\ dirty' = <<>>
       ELSE /\ worker' = [worker EXCEPT !.pc = "collect", !.batch = {Head(dirty)}]
            /\ dirty' = Tail(dirty)
    /\ UNCHANGED <<registered, entityState, notified, changes, listening,
                   is_stopping, persistence, stored, writeFailures, restarts>>

\* One more id within the debounce window.
WorkerCollect ==
    /\ worker.pc = "collect"
    /\ Cardinality(worker.batch) < MaxBatchSize
    /\ dirty # <<>>
    /\ Head(dirty) # Sentinel
    /\ worker' = [worker EXCEPT !.batch = @ \cup {Head(dirty)}]
    /\ dirty' = Tail(dirty)
    /\ UNCHANGED <<registered, entityState, notified, changes, listening,
                   is_stopping, persistence, stored, writeFailures, restarts>>

\* The window closes, the batch is full, or the sentinel arrives inside it:
\* the batch is persisted.
WorkerFlush ==
    /\ worker.pc = "collect"
    /\ LET sentinel == /\ Cardinality(worker.batch) < MaxBatchSize
                       /\ dirty # <<>>
                       /\ Head(dirty) = Sentinel
           q == IF sentinel THEN Tail(dirty) ELSE dirty
       IN /\ is_stopping' = (is_stopping \/ sentinel)
          /\ IF worker.batch \cap registered = {}
             THEN Loop(q, is_stopping')
             ELSE worker' = Persisting("write", worker.batch) /\ dirty' = q
    /\ UNCHANGED <<registered, entityState, notified, changes, listening,
                   persistence, stored, writeFailures, restarts>>

\* Mutant: a row carries the time of the write, not of the state.
UpsertedNow ==
    [e \in Entities |-> IF e \in DOMAIN worker.snapshot
                        THEN [worker.snapshot[e] EXCEPT !.at = changes] ELSE stored[e]]

\* _bulk_upsert_states and its commit.
Upserted ==
    [e \in Entities |-> IF e \in DOMAIN worker.snapshot
                        THEN worker.snapshot[e] ELSE stored[e]]

Continue(q) ==
    IF worker.pc = "final"
    THEN worker' = DoneWorker /\ dirty' = q
    ELSE Loop(q, is_stopping)

WriteSucceeds ==
    /\ worker.pc \in {"write", "final"}
    /\ stored' = Upserted
    /\ Continue(dirty)
    /\ UNCHANGED <<registered, entityState, notified, changes, listening,
                   is_stopping, persistence, writeFailures, restarts>>

\* The ids of a batch in the order they are put back.
Orders(S) == {s \in [1..Cardinality(S) -> S] : {s[i] : i \in 1..Cardinality(S)} = S}

\* After the last attempt the ids go back on the queue.
Requeued(batch) == {dirty \o s : s \in Orders(batch)}

LastAttempt == worker.attempt >= MaxRetries

\* An attempt fails; the next one follows after a delay and writes the same
\* snapshot.
WriteFails ==
    /\ worker.pc \in {"write", "final"}
    /\ writeFailures < MaxWriteFailures
    /\ writeFailures' = writeFailures + 1
    /\ IF LastAttempt
       THEN \E q \in Requeued(worker.batch) : Continue(q)
       ELSE worker' = [worker EXCEPT !.attempt = @ + 1] /\ UNCHANGED dirty
    /\ UNCHANGED <<registered, entityState, notified, changes, listening,
                   is_stopping, persistence, stored, restarts>>

-----------------------------------------------------------------------------
(* Stop and crash.                                                         *)

StopPersistence ==
    /\ persistence = "up"
    /\ restarts < MaxRestarts
    /\ restarts' = restarts + 1
    /\ persistence' = "stopping"
    /\ is_stopping' = TRUE
    /\ listening' = FALSE
    /\ dirty' = Append(dirty, Sentinel)
    /\ UNCHANGED <<registered, entityState, notified, changes, worker, stored,
                   writeFailures>>

\* The worker ended within stop()'s ten seconds.
StopJoins ==
    /\ persistence = "stopping"
    /\ worker.pc = "done"
    /\ persistence' = "down"
    /\ UNCHANGED <<registered, entityState, notified, changes, dirty, listening,
                   is_stopping, worker, stored, writeFailures, restarts>>

\* It did not, because of a slow write: it is cancelled there.  The commit
\* may have been made, and the queue is dropped with the service.
StopCancels ==
    /\ persistence = "stopping"
    /\ worker.pc \in {"write", "final"}
    /\ stored' \in {stored, Upserted}
    /\ worker' = DoneWorker
    /\ dirty' = <<>>
    /\ notified' = [e \in Entities |-> 0]
    /\ persistence' = "down"
    /\ UNCHANGED <<registered, entityState, changes, listening, is_stopping,
                   writeFailures, restarts>>

\* The process dies and comes back; a commit under way may have been made.
Crash ==
    /\ restarts < MaxRestarts
    /\ restarts' = restarts + 1
    /\ stored' \in {stored} \cup (IF worker.pc \in {"write", "final"} THEN {Upserted} ELSE {})
    /\ registered' = {}
    /\ entityState' = [e \in Entities |-> NoRow]
    /\ notified' = [e \in Entities |-> 0]
    /\ dirty' = <<>>
    /\ listening' = FALSE
    /\ is_stopping' = FALSE
    /\ worker' = NoWorker
    /\ persistence' = "down"
    /\ UNCHANGED <<changes, writeFailures>>

-----------------------------------------------------------------------------

EPInit ==
    /\ registered = {}
    /\ entityState = [e \in Entities |-> NoRow]
    /\ notified = [e \in Entities |-> 0]
    /\ changes = 0
    /\ dirty = <<>>
    /\ listening = FALSE
    /\ is_stopping = FALSE
    /\ worker = NoWorker
    /\ persistence = "down"
    /\ stored = [e \in Entities |-> NoRow]
    /\ writeFailures = 0
    /\ restarts = 0

EPWorker == WorkerGet \/ WorkerCollect \/ WorkerFlush \/ WriteSucceeds \/ WriteFails

EPNext ==
    \/ \E e \in Entities :
         RegisterEntity(e) \/ RemoveEntity(e) \/ UpdateEntityState(e) \/ UpdateUnnotified(e)
    \/ StartPersistence
    \/ FinishLoad
    \/ WorkerGet
    \/ WorkerCollect
    \/ WorkerFlush
    \/ WriteSucceeds
    \/ WriteFails
    \/ StopPersistence
    \/ StopJoins
    \/ StopCancels
    \/ Crash

EPSpec == EPInit /\ [][EPNext]_epVars

-----------------------------------------------------------------------------
(* Properties.                                                             *)

\* A stop whose final write did not fail for good loses no notified change,
\* also when the sentinel arrives inside a debounce window or a retry.
CleanStopSavesAll ==
    persistence = "stopping" /\ worker.pc = "done" /\ dirty = <<>> =>
        \A e \in registered : stored[e].at >= notified[e]

\* Changes the service was told of are saved eventually, if it stays up and
\* the database does not fail for ever.
NotifiedChangeSaved ==
    \A e \in Entities :
        (persistence = "up" /\ stored[e].at < notified[e])
            ~> (stored[e].at >= notified[e] \/ persistence # "up" \/ e \notin registered)

\* Saving entity states, as the abstract specification has it.
Durable == INSTANCE DurableState
    WITH latest <- [e \in Entities |-> entityState[e].at],
         saved <- [e \in Entities |-> stored[e].at]

\* EntityPersistence implements DurableState: whatever the queue, the
\* batches, the retries and a crash do, the saved states only move forward,
\* and only to states the entities have had.
PersistenceIsDurable == Durable!DSSpec

=============================================================================
