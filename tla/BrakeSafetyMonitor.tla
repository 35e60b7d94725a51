--------------------------- MODULE BrakeSafetyMonitor ---------------------------
(***************************************************************************)
(* BrakeSafetyMonitor (src/backend/services/brake_safety_monitor.py):      *)
(* operations with a deadline, completed by a response or by the task that *)
(* sleeps until the deadline, and the switch that turns the monitor off.   *)
(* The operations modelled are of one kind on one entity, so that an       *)
(* identifier is the millisecond it was made in; the two readings of the   *)
(* clock for an identifier and for its start_time are one.                 *)
(*                                                                         *)
(* Operations are measured by the wall clock, time.time(), and tasks sleep *)
(* by the clock of the event loop, here a countdown of its ticks.  Both    *)
(* move by fractions of a millisecond; the wall clock may also be set, and *)
(* a slewed clock is one that is set by a tick now and then.  The event    *)
(* loop may be late.                                                       *)
(***************************************************************************)
EXTENDS Naturals

CONSTANTS
    Operations,      \* the calls of track_critical_operation
    TicksPerMs,      \* ticks of the clocks in a millisecond
    Deadline,        \* CRITICAL_DEADLINES of the operation, in ticks
    MaxBrakeTime     \* the bound of the wall clock

ASSUME BrakeAssumption ==
    /\ TicksPerMs \in Nat \ {0}
    /\ Deadline \in Nat
    /\ MaxBrakeTime \in Nat

VARIABLES
    wallTime,        \* time.time()
    _enabled,        \* the monitor is switched on
    pending_operations,  \* identifier |-> start_time
    started,         \* per operation the wall time of its call, 0 before
    watch,           \* per operation its _check_deadline: "none", "created", "sleeping",
                     \* "ended"
    due,             \* per operation the ticks until its task first runs, and then until
                     \* its sleep is over, at the earliest
    violations,      \* identifiers put into deadline_violations, which keeps the last 1000
    answered,        \* per operation its own response: "no", "in time", "late" (history)
    disrupted        \* operations since whose call the monitor was switched off or the
                     \* wall clock set (history)

bsVars == <<wallTime, _enabled, pending_operations, started, watch, due, violations,
            answered, disrupted>>

Ms(t) == t \div TicksPerMs
Id(o) == Ms(started[o])
Called == {o \in Operations : started[o] # 0}

Track(o) ==
    /\ _enabled /\ started[o] = 0
    /\ started' = [started EXCEPT ![o] = wallTime]
    /\ pending_operations' = [id \in DOMAIN pending_operations \cup {Ms(wallTime)} |->
           IF id = Ms(wallTime) THEN wallTime ELSE pending_operations[id]]
    /\ watch' = [watch EXCEPT ![o] = "created"]
    /\ due' = [due EXCEPT ![o] = 1]
    /\ UNCHANGED <<wallTime, _enabled, violations, answered, disrupted>>

\* Mutant: late only from twice the deadline on, where it becomes critical.
LateTwice(id) == wallTime - pending_operations[id] > 2 * Deadline
Late(id) == wallTime - pending_operations[id] > Deadline

\* complete_critical_operation does nothing if the monitor is switched off or the
\* identifier is gone.
Completed(id) == {i \in DOMAIN pending_operations : _enabled /\ i = id}

CompleteId(id) ==
    /\ pending_operations' =
           [i \in DOMAIN pending_operations \ Completed(id) |-> pending_operations[i]]
    /\ violations' = violations \cup {i \in Completed(id) : Late(i)}

\* The response to an operation arrives.
Respond(o) ==
    /\ started[o] # 0 /\ answered[o] = "no"
    /\ answered' = [answered EXCEPT ![o] =
           IF wallTime - started[o] > Deadline THEN "late" ELSE "in time"]
    /\ CompleteId(Id(o))
    /\ UNCHANGED <<wallTime, _enabled, started, watch, due, disrupted>>

\* _check_deadline first runs, some time after the call that created it; its
\* identifier may be gone already.
BeginWatch(o) ==
    /\ watch[o] = "created" /\ due[o] = 0
    /\ IF Id(o) \in DOMAIN pending_operations
       THEN /\ watch' = [watch EXCEPT ![o] = "sleeping"]
            /\ due' = [due EXCEPT ![o] = Deadline]
       ELSE watch' = [watch EXCEPT ![o] = "ended"] /\ due' = due
    /\ UNCHANGED <<wallTime, _enabled, pending_operations, started, violations,
                   answered, disrupted>>

\* It wakes and completes the operation, whatever the wall clock says by then.
DeadlinePassed(o) ==
    /\ watch[o] = "sleeping" /\ due[o] = 0
    /\ watch' = [watch EXCEPT ![o] = "ended"]
    /\ CompleteId(Id(o))
    /\ UNCHANGED <<wallTime, _enabled, started, due, answered, disrupted>>

\* disable() forgets what is pending; the tasks stay.
Disable ==
    /\ _enabled' = FALSE
    /\ pending_operations' = << >>
    /\ disrupted' = disrupted \cup Called
    /\ UNCHANGED <<wallTime, started, watch, due, violations, answered>>

Enable ==
    /\ _enabled' = TRUE
    /\ UNCHANGED <<wallTime, pending_operations, started, watch, due, violations,
                   answered, disrupted>>

BSTick ==
    /\ wallTime < MaxBrakeTime
    /\ wallTime' = wallTime + 1
    /\ due' = [o \in Operations |-> IF due[o] = 0 THEN 0 ELSE due[o] - 1]
    /\ UNCHANGED <<_enabled, pending_operations, started, watch, violations, answered,
                   disrupted>>

\* The wall clock is set, forwards or backwards.
SetClock ==
    /\ wallTime' \in 1..MaxBrakeTime
    /\ disrupted' = disrupted \cup Called
    /\ UNCHANGED <<_enabled, pending_operations, started, watch, due, violations, answered>>

BSInit ==
    /\ wallTime = TicksPerMs /\ _enabled = TRUE
    /\ pending_operations = << >> /\ violations = {}
    /\ started = [o \in Operations |-> 0]
    /\ watch = [o \in Operations |-> "none"]
    /\ due = [o \in Operations |-> 0]
    /\ answered = [o \in Operations |-> "no"]
    /\ disrupted = {}

BSNext ==
    \/ \E o \in Operations : Track(o) \/ Respond(o) \/ BeginWatch(o) \/ DeadlinePassed(o)
    \/ Disable \/ Enable \/ BSTick \/ SetClock

BSSpec == BSInit /\ [][BSNext]_bsVars

-----------------------------------------------------------------------------
(* Properties.                                                             *)

Alone(o) == \A p \in Operations \ {o} : started[p] = 0 \/ Id(p) # Id(o)

\* Every pending operation has a task that will look at its deadline, also when
\* operations share an identifier - made in one millisecond, or in the same one
\* twice by a clock that was set - and when the monitor is switched off and on
\* while tasks sleep.  An operation that has its identifier for itself, while the
\* monitor stayed on and the clock was not set, is recorded as a violation exactly
\* when it was not answered by its deadline and its response or its task has come
\* since.
BrakeDeadlinesSeen ==
    /\ \A id \in DOMAIN pending_operations : \E o \in Operations :
         started[o] # 0 /\ Id(o) = id /\ watch[o] \in {"created", "sleeping"}
    /\ \A o \in Operations \ disrupted : started[o] # 0 /\ Alone(o) =>
         (Id(o) \in violations <=>
            answered[o] = "late" \/ (watch[o] = "ended" /\ answered[o] = "no"))

===============================================================================
