-------------------------- MODULE CANMessageInjector --------------------------
(***************************************************************************)
(* backend/integrations/can/message_injector.py: single, burst and         *)
(* periodic injections, stop_injection, stop and emergency_stop.           *)
(*                                                                         *)
(* The event loop makes the code between two suspensions one step.  inject *)
(* suspends only inside a burst (between two messages) and, for a periodic *)
(* injection with a duration, while its caller waits; a periodic injection *)
(* runs as a task of its own.  A job is a burst or a periodic injection.   *)
(*                                                                         *)
(* A request that validation refuses changes nothing and is left out.      *)
(***************************************************************************)
EXTENDS Integers, FiniteSets

CONSTANTS
    Jobs,          \* identities of the bursts and periodic injections
    Interfaces,    \* CAN interfaces
    Stops,         \* calls of emergency_stop
    MaxCount,      \* largest InjectionRequest.count
    MaxFailures    \* failed messages a burst puts up with

ASSUME InjectorAssumption ==
    /\ MaxCount \in Nat \ {0}
    /\ MaxFailures \in Nat
    /\ "shutdown" \notin Stops
    /\ "closed" \notin Interfaces

VARIABLES
    running,     \* _is_running
    emergency,   \* _emergency_stop_active
    buses,       \* the interfaces in _buses
    active,      \* the jobs in _active_injections
    job,         \* what each job is doing
    call,        \* where each emergency_stop, and stop, is
    sent         \* whether the last step put a message on a bus

vars == <<running, emergency, buses, active, job, call, sent>>

Calls == Stops \cup {"shutdown"}

\* `bus' is the interface of the job's bus object while that is open; `over':
\* the duration it was given has passed; `cancel': task.cancel() was called.
Job(pc, bus, left, failed, timed) ==
    [pc |-> pc, bus |-> bus, left |-> left, failed |-> failed, timed |-> timed,
     over |-> FALSE, cancel |-> FALSE]

Idle == Job("idle", "closed", 0, 0, FALSE)

\* The registry calls startup() once, when it has built the service.
Init ==
    /\ running = TRUE
    /\ emergency = FALSE
    /\ buses = {}
    /\ active = {}
    /\ job = [j \in Jobs |-> Idle]
    /\ call = [c \in Calls |-> [pc |-> "idle", waits |-> {}]]
    /\ sent = FALSE

\* The task of a periodic injection exists and has not finished.
Alive(j) == job[j].pc \in {"created", "asleep"}

-----------------------------------------------------------------------------
(* Injections.                                                             *)

\* validate_safety_interlock.
Permitted == ~emergency /\ running

\* _get_or_create_bus succeeds.
UseBus(i) == Permitted /\ buses' = buses \cup {i}

\* inject with mode SINGLE; the bus may refuse the message.
InjectSingle(i) ==
    /\ UseBus(i)
    /\ sent' \in BOOLEAN
    /\ UNCHANGED <<running, emergency, active, job, call>>

\* A burst, `left' messages before its end, sends until a message gets
\* through; then it sleeps, unless that was the last.  A failed message is
\* not followed by a sleep, and one failure too many ends the burst.
Burst(j, bus, left, failed) ==
    \E failures \in 0..left :
        LET through == failures < left
            rest == left - failures - 1
            aborted == failed + failures > MaxFailures
        IN /\ through => bus # "closed"
           /\ sent' = (through /\ ~aborted)
           /\ job' = [job EXCEPT ![j] =
                        IF aborted \/ ~through \/ rest = 0
                        THEN Idle
                        ELSE Job("burst", bus, rest, failed + failures, FALSE)]

Free(j) == job[j].pc = "idle" /\ j \notin active

\* inject with mode BURST, up to its first sleep.
InjectBurst(j, i, count) ==
    /\ Free(j)
    /\ UseBus(i)
    /\ Burst(j, i, count, 0)
    /\ UNCHANGED <<running, emergency, active, call>>

\* A burst resumes after its sleep.
ContinueBurst(j) ==
    /\ job[j].pc = "burst"
    /\ Burst(j, job[j].bus, job[j].left, job[j].failed)
    /\ UNCHANGED <<running, emergency, buses, active, call>>

\* inject with mode PERIODIC: the task is created and registered.
InjectPeriodic(j, i, timed) ==
    /\ Free(j)
    /\ UseBus(i)
    /\ job' = [job EXCEPT ![j] = Job("created", i, 0, 0, timed)]
    /\ active' = active \cup {j}
    /\ sent' = FALSE
    /\ UNCHANGED <<running, emergency, call>>

\* Mutant: the sender does not look at the duration.
DurationOverNever(j) == FALSE

\* The sender's own duration check.
DurationOver(j) == job[j].timed /\ job[j].over

\* periodic_sender runs: it ends when cancelled or over, else sends (or fails
\* to) and sleeps.  A task cancelled before its first run never reaches the
\* `finally' that removes it from _active_injections.
PeriodicSender(j) ==
    /\ Alive(j)
    /\ IF job[j].cancel \/ DurationOver(j)
       THEN /\ job' = [job EXCEPT ![j] = Idle]
            /\ active' = IF job[j].cancel /\ job[j].pc = "created"
                         THEN active ELSE active \ {j}
            /\ sent' = FALSE
       ELSE /\ job' = [job EXCEPT ![j].pc = "asleep"]
            /\ sent' \in {FALSE, job[j].bus # "closed"}
            /\ UNCHANGED active
    /\ UNCHANGED <<running, emergency, buses, call>>

\* The caller's sleep over the duration ends and it cancels the task.
CallerCancels(j) ==
    /\ Alive(j) /\ DurationOver(j)
    /\ job' = [job EXCEPT ![j].cancel = TRUE]
    /\ sent' = FALSE
    /\ UNCHANGED <<running, emergency, buses, active, call>>

Cancelled(S) ==
    [j \in Jobs |-> IF j \in S /\ Alive(j) THEN [job[j] EXCEPT !.cancel = TRUE] ELSE job[j]]

\* stop_injection, with a pattern that matches the jobs S.
StopInjection(S) ==
    /\ S # {} /\ S \subseteq active
    /\ job' = Cancelled(S)
    /\ sent' = FALSE
    /\ UNCHANGED <<running, emergency, buses, active, call>>

\* The clock passes the end of the duration of a periodic injection.
DurationPasses(j) ==
    /\ Alive(j) /\ job[j].timed /\ ~job[j].over
    /\ job' = [job EXCEPT ![j].over = TRUE]
    /\ sent' = FALSE
    /\ UNCHANGED <<running, emergency, buses, active, call>>

-----------------------------------------------------------------------------
(* stop and emergency_stop.                                                *)

\* Call c has returned: the buses are closed, the dictionaries empty.
Returned(c) == call[c].pc = "returned"

\* Mutant: the buses are forgotten, not closed.
CloseAllForgets(jobs) ==
    /\ buses' = {} /\ active' = {}
    /\ job' = jobs

\* Every bus is shut down and both dictionaries are cleared.  A bus that has
\* been shut down refuses every message (python-can).
CloseAll(jobs) ==
    /\ buses' = {} /\ active' = {}
    /\ job' = [j \in Jobs |-> [jobs[j] EXCEPT !.bus = "closed"]]

\* The first part of either: every task is cancelled, and awaited if there are
\* any.  stop clears _is_running now, emergency_stop at its end.
BeginStop(c) ==
    /\ call[c].pc = "idle"
    /\ running' = (running /\ c # "shutdown" /\ active # {})
    /\ IF active = {}
       THEN CloseAll(job) /\ call' = [call EXCEPT ![c] = [pc |-> "returned", waits |-> {}]]
       ELSE /\ call' = [call EXCEPT ![c] = [pc |-> "waiting", waits |-> active]]
            /\ job' = Cancelled(active)
            /\ UNCHANGED <<buses, active>>

\* Mutant: the cancelled tasks are not awaited.
TasksEndedAtOnce(c) == TRUE

\* What gather waits for.
TasksEnded(c) == \A j \in call[c].waits : ~Alive(j)

\* The second part, once all the tasks have ended.
FinishStop(c) ==
    /\ call[c].pc = "waiting"
    /\ TasksEnded(c)
    /\ running' = FALSE
    /\ CloseAll(job)
    /\ call' = [call EXCEPT ![c] = [pc |-> "returned", waits |-> {}]]
    /\ sent' = FALSE
    /\ UNCHANGED emergency

EmergencyStop(c) ==
    /\ BeginStop(c)
    /\ emergency' = TRUE
    /\ sent' = FALSE

\* stop(), when the application shuts down.
Shutdown ==
    /\ BeginStop("shutdown")
    /\ sent' = FALSE
    /\ UNCHANGED emergency

Next ==
    \/ \E i \in Interfaces : InjectSingle(i)
    \/ \E j \in Jobs, i \in Interfaces :
         \/ \E count \in 1..MaxCount : InjectBurst(j, i, count)
         \/ \E timed \in BOOLEAN : InjectPeriodic(j, i, timed)
    \/ \E j \in Jobs :
         \/ ContinueBurst(j) \/ PeriodicSender(j)
         \/ CallerCancels(j) \/ DurationPasses(j)
    \/ \E S \in SUBSET Jobs : StopInjection(S)
    \/ \E c \in Stops : EmergencyStop(c)
    \/ Shutdown
    \/ \E c \in Calls : FinishStop(c)

Spec == Init /\ [][Next]_vars

\* The event loop runs what is ready: timers expire, tasks and calls resume.
\* Nothing is assumed of the callers that wait out a duration.
EventLoop ==
    /\ \A j \in Jobs : WF_vars(ContinueBurst(j)) /\ WF_vars(PeriodicSender(j))
    /\ \A j \in Jobs : WF_vars(DurationPasses(j))
    /\ \A c \in Calls : WF_vars(FinishStop(c))

FairSpec == Spec /\ EventLoop

-----------------------------------------------------------------------------
(* Properties.                                                             *)

JobType ==
    [pc : {"idle", "burst", "created", "asleep"}, bus : Interfaces \cup {"closed"},
     left : 0..MaxCount, failed : 0..MaxFailures, timed : BOOLEAN,
     over : BOOLEAN, cancel : BOOLEAN]

\* The type invariant; a burst in progress has not had too many failures.
TypeOK ==
    /\ running \in BOOLEAN /\ emergency \in BOOLEAN /\ sent \in BOOLEAN
    /\ buses \subseteq Interfaces
    /\ active \subseteq Jobs
    /\ job \in [Jobs -> JobType]
    /\ call \in [Calls -> [pc : {"idle", "waiting", "returned"}, waits : SUBSET Jobs]]

\* Every periodic task that has not finished can be found by stop_injection
\* and emergency_stop, also while these run.
LiveTasksTracked == \A j \in Jobs : Alive(j) => j \in active

\* Once an emergency_stop (or stop) has returned no message goes out any more,
\* from no burst and no task, whatever was under way when it was called.
QuietAfterStop == [][(\E c \in Calls : Returned(c)) => ~sent']_vars

\* A periodic injection with a duration ends, also when the caller that waits
\* for it is gone.
TimedInjectionsEnd ==
    \A j \in Jobs : (Alive(j) /\ job[j].timed) ~> ~(Alive(j) /\ job[j].timed)

=============================================================================
