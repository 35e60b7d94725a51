--------------------------- MODULE NotificationQueue ---------------------------
(***************************************************************************)
(* The write side of NotificationQueue                                     *)
(* (src/backend/services/notification_queue.py): notifications collect in  *)
(* memory and reach the table when the batch is full, when its timer ends  *)
(* or when the queue is closed, under one lock.                            *)
(*                                                                         *)
(* The other side does nothing: the UPDATE of dequeue_batch has the        *)
(* comment "# nosec" inside its SQL text, SQLite refuses it, and           *)
(* dequeue_batch returns no notification and leaves every row pending.     *)
(***************************************************************************)
EXTENDS Naturals, Sequences, SequencesExt

CONSTANTS
    Notifications,
    BatchSize        \* _batch_size

\* The holders of the lock are told apart.
ASSUME NotificationAssumption == {"nobody", "timer", "close"} \cap Notifications = {}

VARIABLES
    _write_batch,
    rows,            \* notifications in the table
    lockHolder,      \* of _batch_lock: a notification being enqueued, "timer",
                     \* "close", or "nobody"
    writing,         \* what the flush under way has put into its transaction
    enqueued,        \* per call of enqueue: "no", "waiting", "flushing", "returned"
    _batch_timer,    \* "none", "sleeping", "waiting", "flushing", "cancelled", "done"
    closing,         \* close(): "no", "waiting", "flushing", "closed"
    before,          \* calls that had returned when close() was called (history)
    flushFailed      \* a flush failed (history)

nqVars == <<_write_batch, rows, lockHolder, writing, enqueued, _batch_timer, closing,
            before, flushFailed>>

LockFree == lockHolder = "nobody"

Enqueue(n) ==
    /\ enqueued[n] = "no"
    /\ enqueued' = [enqueued EXCEPT ![n] = "waiting"]
    /\ UNCHANGED <<_write_batch, rows, lockHolder, writing, _batch_timer, closing, before, flushFailed>>

\* Mutant: the batch is extended without the lock.
NoLock == lockHolder \in {"nobody", "timer"}

MayAppend == LockFree

\* With the lock: the batch grows, its timer is started if none runs, and a full
\* batch is flushed by the call itself.
AppendToBatch(n) ==
    /\ enqueued[n] = "waiting" /\ MayAppend
    /\ _write_batch' = Append(_write_batch, n)
    /\ _batch_timer' = IF _batch_timer \in {"none", "done"} THEN "sleeping" ELSE _batch_timer
    /\ IF Len(_write_batch') < BatchSize
       THEN /\ enqueued' = [enqueued EXCEPT ![n] = "returned"]
            /\ UNCHANGED <<lockHolder, writing>>
       ELSE /\ enqueued' = [enqueued EXCEPT ![n] = "flushing"]
            /\ lockHolder' = n /\ writing' = ToSet(_write_batch')
    /\ UNCHANGED <<rows, closing, before, flushFailed>>

\* A flush commits and clears the batch, or raises and keeps it.
FlushEnds(h) ==
    /\ lockHolder = h
    /\ \/ rows' = rows \cup writing /\ _write_batch' = <<>> /\ flushFailed' = flushFailed
       \/ UNCHANGED <<rows, _write_batch>> /\ flushFailed' = TRUE
    /\ lockHolder' = "nobody" /\ writing' = {}

EnqueueFlushed(n) ==
    /\ enqueued[n] = "flushing" /\ FlushEnds(n)
    /\ enqueued' = [enqueued EXCEPT ![n] = "returned"]
    /\ UNCHANGED <<_batch_timer, closing, before>>

\* The timer's sleep is over; it asks for the lock ...
TimerWakes ==
    /\ _batch_timer = "sleeping"
    /\ _batch_timer' = "waiting"
    /\ UNCHANGED <<_write_batch, rows, lockHolder, writing, enqueued, closing, before, flushFailed>>

\* ... and flushes what it finds.
TimerFlushes ==
    /\ _batch_timer = "waiting" /\ LockFree
    /\ IF _write_batch = <<>>
       THEN _batch_timer' = "done" /\ UNCHANGED <<lockHolder, writing>>
       ELSE _batch_timer' = "flushing" /\ lockHolder' = "timer" /\ writing' = ToSet(_write_batch)
    /\ UNCHANGED <<_write_batch, rows, enqueued, closing, before, flushFailed>>

TimerFlushed ==
    /\ _batch_timer = "flushing" /\ FlushEnds("timer")
    /\ _batch_timer' = "done"
    /\ UNCHANGED <<enqueued, closing, before>>

BeginClose ==
    /\ closing = "no"
    /\ closing' = "waiting"
    /\ before' = {n \in Notifications : enqueued[n] = "returned"}
    /\ UNCHANGED <<_write_batch, rows, lockHolder, writing, enqueued, _batch_timer, flushFailed>>

\* A timer that is cancelled is done only when it has run again, and until then no
\* other is started.
CancelTimer ==
    _batch_timer' =
        IF _batch_timer \in {"sleeping", "waiting"} THEN "cancelled" ELSE _batch_timer

TimerCancelled ==
    /\ _batch_timer = "cancelled"
    /\ _batch_timer' = "done"
    /\ UNCHANGED <<_write_batch, rows, lockHolder, writing, enqueued, closing, before, flushFailed>>

\* close() flushes what there is; then it cancels the timer.
CloseFlushes ==
    /\ closing = "waiting" /\ LockFree
    /\ IF _write_batch = <<>>
       THEN closing' = "closed" /\ CancelTimer /\ UNCHANGED <<lockHolder, writing>>
       ELSE /\ closing' = "flushing" /\ lockHolder' = "close" /\ writing' = ToSet(_write_batch)
            /\ UNCHANGED _batch_timer
    /\ UNCHANGED <<_write_batch, rows, enqueued, before, flushFailed>>

CloseFlushed ==
    /\ closing = "flushing" /\ FlushEnds("close")
    /\ closing' = "closed" /\ CancelTimer
    /\ UNCHANGED <<enqueued, before>>

NQInit ==
    /\ _write_batch = <<>> /\ rows = {} /\ lockHolder = "nobody" /\ writing = {}
    /\ enqueued = [n \in Notifications |-> "no"]
    /\ _batch_timer = "none" /\ closing = "no" /\ before = {} /\ flushFailed = FALSE

NQNext ==
    \/ \E n \in Notifications : Enqueue(n) \/ AppendToBatch(n) \/ EnqueueFlushed(n)
    \/ TimerWakes \/ TimerFlushes \/ TimerFlushed \/ TimerCancelled
    \/ BeginClose \/ CloseFlushes \/ CloseFlushed

NQSpec == NQInit /\ [][NQNext]_nqVars

-----------------------------------------------------------------------------
(* Properties.                                                             *)

\* A notification whose enqueue has returned is in the batch or in the table, also
\* when flushes fail.  One that is only in the batch has a timer or a flush that
\* will write it, until a flush fails (nothing retries it but the next call) or
\* the queue is closed.  close() leaves nothing behind that was enqueued before it.
EnqueuedIsWritten ==
    /\ \A n \in Notifications : enqueued[n] = "returned" =>
         /\ n \in rows \cup ToSet(_write_batch)
         /\ n \in rows \/ flushFailed \/ closing # "no"
                \/ _batch_timer \in {"sleeping", "waiting"} \/ n \in writing
    /\ closing = "closed" /\ ~flushFailed => before \subseteq rows

===============================================================================
