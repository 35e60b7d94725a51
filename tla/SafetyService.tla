---------------------------- MODULE SafetyService ----------------------------
(***************************************************************************)
(* backend/services/safety_service.py and the endpoints that drive it      *)
(* (backend/api/routers/safety.py): interlocks, emergency stop, safe       *)
(* state, operational modes, interlock overrides, and the monitoring and   *)
(* watchdog tasks.                                                         *)
(*                                                                         *)
(* Everything runs on one asyncio event loop, so code between two points   *)
(* where a coroutine really suspends is one atomic step.  It suspends in   *)
(* asyncio.sleep, in pin_manager.authorize_operation (database) and in the *)
(* emergency_stop of another service; engage, check_conditions and the     *)
(* audit calls never do.  A request is an API call in flight.              *)
(*                                                                         *)
(* Time is kept as the ticks left (or passed) on each timer.  Tick may     *)
(* happen while a task is ready to run: the event loop can be late.        *)
(*                                                                         *)
(* The collaborators are constructor parameters of SafetyService and       *)
(* constants here: a service registry, a PIN manager with a database, a    *)
(* security audit service.                                                 *)
(***************************************************************************)
EXTENDS Integers, FiniteSets

CONSTANTS
    Interlocks,           \* names of the interlocks
    Conditions,           \* condition strings the interlocks evaluate
    InterlockConditions,  \* interlock -> the conditions it requires
    Violation_Threshold,  \* MULTIPLE_VIOLATION_THRESHOLD
    Services,             \* safety-critical services of the application but itself
    RegistryAttached,     \* whether self.service_registry is set
    HealthSummaries,      \* what its get_health_summary() may do: raise, or
                          \* report a critical service as failed or none
    AuthOutcomes,         \* what authorize_operation may answer
    AuditService,         \* whether security_audit_service is set
    HealthCheckCalled,    \* whether anything calls _perform_health_check
    MayShutDown,          \* whether the application may stop the service
    Requests,             \* API calls that may be in flight together
    Offered,              \* the PIN operations they may be
    Overridable,          \* interlocks that requests name in an override
    HealthInterval,       \* health_check_interval, in ticks
    WatchdogTimeout,      \* watchdog_timeout, in ticks
    Duration              \* duration of overrides and modes, in ticks

Operations == {"stop", "reset", "override", "maintenance", "maintenance_exit",
               "diagnostic", "diagnostic_exit"}

ASSUME SafetyAssumption ==
    /\ InterlockConditions \in [Interlocks -> SUBSET Conditions]
    /\ IsFiniteSet(Interlocks)
    /\ Violation_Threshold \in Nat \ {0}
    /\ RegistryAttached \in BOOLEAN /\ (RegistryAttached => Services # {})
    /\ HealthSummaries \subseteq {"raises", "failed", "healthy"}
    /\ AuthOutcomes \subseteq BOOLEAN
    /\ AuditService \in BOOLEAN
    /\ HealthCheckCalled \in BOOLEAN
    /\ MayShutDown \in BOOLEAN
    /\ \A name \in {"monitor", "watchdog", "none"} : name \notin Requests
    /\ Offered \subseteq Operations
    /\ Overridable \subseteq Interlocks
    /\ HealthInterval \in Nat \ {0}
    /\ WatchdogTimeout \in Nat \ {0}
    /\ Duration \in Nat

VARIABLES
    state,             \* _system_state, as the set of conditions that hold
    engaged,           \* the interlocks with is_engaged
    override,          \* interlock -> ticks left of its override, or none
    active_overrides,  \* _active_overrides, likewise
    in_safe_state,     \* _in_safe_state
    emergency,         \* _emergency_stop_active
    mode,              \* _operational_mode
    mode_left,         \* ticks until _mode_expires_at, or none
    mode_session,      \* _mode_session_id: the request that entered the mode
    since_kick,        \* ticks since _last_watchdog_kick, capped
    wake,              \* ticks until the monitor and the watchdog wake up
    task,              \* where each request and each of the two tasks is
    told,              \* services stopped since the latest stop began
    answer             \* what the last call returned and what it did

protection == <<engaged, in_safe_state, emergency, told>>
overrides == <<override, active_overrides>>
modes == <<mode, mode_left, mode_session>>
timers == <<since_kick, wake>>
vars == <<state, protection, overrides, modes, timers, task, answer>>

None == -2        \* an absent expiry
Expired == -1     \* past its expiry; 0 is the expiry instant itself
Loops == {"monitor", "watchdog"}
Tasks == Requests \cup Loops
\* Where a task is: idle, asleep, awaiting a PIN authorization, in the loop
\* of an emergency stop or of a safe-state shutdown over the services.
\* `again': emergency_stop is called a second time after the first returns.
Place(pc, op, i, todo, then, again) ==
    [pc |-> pc, op |-> op, interlock |-> i, todo |-> todo, then |-> then, again |-> again]

At(pc) == Place(pc, "none", "none", {}, "idle", FALSE)

\* _get_safety_critical_services.
Critical == IF RegistryAttached THEN Services ELSE {}

\* _system_state describes a parked, stabilized vehicle; start_monitoring has
\* created both tasks and kicked the watchdog.
Init ==
    /\ state = Conditions
    /\ engaged = {}
    /\ override = [i \in Interlocks |-> None]
    /\ active_overrides = [i \in Interlocks |-> None]
    /\ in_safe_state = FALSE
    /\ emergency = FALSE
    /\ mode = "normal" /\ mode_left = None /\ mode_session = "none"
    /\ since_kick = 0
    /\ wake = [t \in Loops |-> 0]
    /\ task = [t \in Tasks |-> At(IF t \in Requests THEN "idle" ELSE "asleep")]
    /\ told = {}
    /\ answer = [reported |-> TRUE, applied |-> TRUE]

-----------------------------------------------------------------------------
(* Interlocks.                                                             *)

\* Mutant: an override that has expired still counts.
OverriddenForEver(i) == override[i] # None

Overridden(i) == override[i] \notin {None, Expired}

\* SafetyInterlock.check_conditions on a system state.
Satisfied(i, st) == Overridden(i) \/ InterlockConditions[i] \subseteq st

Violated(st) == {i \in Interlocks : ~Satisfied(i, st)}

\* check_conditions drops an override it finds expired; _active_overrides
\* keeps its entry.
DropExpired == [i \in Interlocks |-> IF Overridden(i) THEN override[i] ELSE None]

\* check_safety_interlocks: engaged exactly when not satisfied.
CheckSafetyInterlocks(st) ==
    /\ engaged' = Violated(st)
    /\ override' = DropExpired

\* MULTIPLE_VIOLATION_THRESHOLD interlocks are violated.
\* Mutant: one more is needed.
MultipleViolationsLate == Cardinality(Violated(state)) > Violation_Threshold

MultipleViolations == Cardinality(Violated(state)) >= Violation_Threshold

Cleared(f, S) == [i \in Interlocks |-> IF i \in S THEN None ELSE f[i]]

\* Mutant: the tracking entry is popped, the interlock keeps its override.
ClearOverridesTrackingOnly(S, ovr) ==
    LET cleared == {i \in S : ovr[i] # None}
    IN override' = ovr /\ active_overrides' = Cleared(active_overrides, cleared)

\* clear_interlock_override for every interlock of S, given the overrides ovr:
\* an entry whose interlock is no longer overridden is left in place.
ClearOverrides(S, ovr) ==
    LET cleared == {i \in S : ovr[i] # None}
    IN /\ override' = Cleared(ovr, cleared)
       /\ active_overrides' = Cleared(active_overrides, cleared)

-----------------------------------------------------------------------------
(* Emergency stop and safe state.                                          *)

Calling(pc, todo, then, again) == Place(pc, "none", "none", todo, then, again)
Stopping(then, again) == Calling("stopping", Critical, then, again)
Shutting(then, again) == Calling("shutting", Critical, then, again)
Nested(then, again) == Calling("nested", Critical, then, again)

\* emergency_stop / trigger_emergency_stop, called by task t while no stop is
\* active; t then goes on at `then'.  E is what is engaged until the services
\* have been called; without services to call the stop runs through.
EmergencyStop(t, then, again, E) ==
    /\ emergency' = TRUE
    /\ engaged' = IF Critical = {} THEN Interlocks ELSE E
    /\ in_safe_state' = (in_safe_state \/ Critical = {})
    /\ task' = [task EXCEPT ![t] = IF Critical = {} THEN At(then) ELSE Stopping(then, again)]

\* _shutdown_safety_critical_features begins.  The safety service is a critical
\* service itself, the first on the list: with no stop active its own
\* emergency_stop begins one, inside this loop.
ShutDownServices(t, then, again) ==
    /\ emergency' = TRUE
    /\ task' = [task EXCEPT ![t] =
           IF emergency THEN Shutting(then, again) ELSE Nested(then, again)]

\* _enter_safe_state, called by task t while not in the safe state.
EnterSafeState(t, then) ==
    /\ in_safe_state' = TRUE
    /\ IF Critical = {}
       THEN engaged' = Interlocks /\ task' = [task EXCEPT ![t] = At(then)] /\ UNCHANGED emergency
       ELSE engaged' = engaged /\ ShutDownServices(t, then, FALSE)
    /\ told' = IF emergency' /\ ~emergency THEN {} ELSE told

\* Mutant: the safe state is not entered.
LastServiceStoppedUnsafe(t) ==
    /\ task' = [task EXCEPT ![t] = At(task[t].then)]
    /\ engaged' = Interlocks
    /\ UNCHANGED <<in_safe_state, emergency>>

\* The call to the last service has returned: all interlocks are engaged and
\* the safe state is entered if it was not.  Then the caller goes on: the loop
\* a nested stop began in, or _check_emergency_conditions, which calls
\* emergency_stop for its second condition.
LastServiceStopped(t) ==
    IF task[t].pc = "stopping" /\ ~in_safe_state
    THEN /\ ShutDownServices(t, task[t].then, task[t].again)
         /\ engaged' = Interlocks
         /\ in_safe_state' = TRUE
    ELSE IF task[t].pc = "nested"
    THEN /\ task' = [task EXCEPT ![t] = Shutting(task[t].then, task[t].again)]
         /\ engaged' = Interlocks
         /\ UNCHANGED <<in_safe_state, emergency>>
    ELSE IF task[t].again /\ ~emergency
    THEN EmergencyStop(t, task[t].then, FALSE, Interlocks)
    ELSE /\ task' = [task EXCEPT ![t] = At(task[t].then)]
         /\ engaged' = Interlocks
         /\ UNCHANGED <<in_safe_state, emergency>>

Underway(t) == task[t].pc \in {"stopping", "shutting", "nested"}

\* Mutant: the loop ends at the first service, as if its exception escaped.
ServiceStoppedAborts(t, s) ==
    /\ Underway(t)
    /\ s \in task[t].todo
    /\ LastServiceStopped(t)
    /\ told' = IF emergency' /\ ~emergency THEN {} ELSE told \cup {s}
    /\ UNCHANGED <<state, overrides, modes, timers, answer>>

\* One service's emergency_stop returns or raises; either way the loop goes
\* on.  The order of the services is left open.
ServiceStopped(t, s) ==
    /\ Underway(t)
    /\ s \in task[t].todo
    /\ IF task[t].todo # {s}
       THEN /\ task' = [task EXCEPT ![t] =
                          Calling(@.pc, @.todo \ {s}, @.then, @.again)]
            /\ UNCHANGED <<engaged, in_safe_state, emergency>>
       ELSE LastServiceStopped(t)
    /\ told' = IF emergency' /\ ~emergency THEN {} ELSE told \cup {s}
    /\ UNCHANGED <<state, overrides, modes, timers, answer>>

-----------------------------------------------------------------------------
(* The monitoring task and the watchdog task.                              *)

Awake(t) == task[t].pc = "asleep" /\ wake[t] = 0

\* `while not self._in_safe_state' fails.
LoopEnds(t) ==
    /\ Awake(t) /\ in_safe_state
    /\ task' = [task EXCEPT ![t] = At("ended")]
    /\ UNCHANGED <<state, protection, overrides, modes, timers, answer>>

Summaries == IF RegistryAttached THEN HealthSummaries ELSE {"healthy"}

\* One iteration of _health_monitoring_loop.  An exception ends in the safe
\* state; else the interlocks are checked, the watchdog is kicked and
\* _check_emergency_conditions may stop everything.
MonitorIteration ==
    /\ Awake("monitor") /\ ~in_safe_state
    /\ \E h \in Summaries :
         IF h = "raises"
         THEN EnterSafeState("monitor", "ended") /\ UNCHANGED <<overrides, timers>>
         ELSE /\ since_kick' = 0
              /\ wake' = [wake EXCEPT !["monitor"] = HealthInterval]
              /\ override' = DropExpired
              /\ UNCHANGED active_overrides
              /\ LET failed == h = "failed"
                 IN IF ~emergency /\ (failed \/ MultipleViolations)
                    THEN /\ EmergencyStop("monitor", "asleep", failed /\ MultipleViolations,
                                          Violated(state))
                         /\ told' = {}
                    ELSE /\ engaged' = Violated(state)
                         /\ UNCHANGED <<emergency, in_safe_state, told, task>>
    /\ UNCHANGED <<state, modes, answer>>

\* Mutant: the timeout is never noticed.
WatchdogIterationBlind ==
    /\ Awake("watchdog") /\ ~in_safe_state
    /\ wake' = [wake EXCEPT !["watchdog"] = 1]
    /\ UNCHANGED <<protection, task, state, overrides, modes, since_kick, answer>>

\* One iteration of _watchdog_loop, once a tick.
WatchdogIteration ==
    /\ Awake("watchdog") /\ ~in_safe_state
    /\ IF since_kick > WatchdogTimeout
       THEN EnterSafeState("watchdog", "ended") /\ UNCHANGED wake
       ELSE /\ wake' = [wake EXCEPT !["watchdog"] = 1]
            /\ UNCHANGED <<protection, task>>
    /\ UNCHANGED <<state, overrides, modes, since_kick, answer>>

\* stop_monitoring, when the application shuts down: both tasks are cancelled
\* at the point where they are suspended.
StopMonitoring ==
    /\ MayShutDown
    /\ task' = [task EXCEPT !["monitor"] = At("cancelled"), !["watchdog"] = At("cancelled")]
    /\ UNCHANGED <<state, protection, overrides, modes, timers, answer>>

-----------------------------------------------------------------------------
(* API calls that complete without suspending.                             *)

\* POST /update-state: update_system_state, then check_safety_interlocks.
UpdateSystemState(st) ==
    /\ state' = st
    /\ CheckSafetyInterlocks(st)
    /\ UNCHANGED <<in_safe_state, emergency, told, active_overrides, modes, timers, task, answer>>

\* POST /interlocks/check.
CheckInterlocks ==
    /\ CheckSafetyInterlocks(state)
    /\ UNCHANGED <<state, in_safe_state, emergency, told, active_overrides,
                   modes, timers, task, answer>>

\* POST /interlocks/clear-override.
ClearInterlockOverride(i) ==
    /\ override[i] # None
    /\ ClearOverrides({i}, override)
    /\ UNCHANGED <<state, protection, modes, timers, task, answer>>

\* POST /emergency-stop: trigger_emergency_stop.
TriggerEmergencyStop(r) ==
    /\ task[r].pc = "idle"
    /\ ~emergency
    /\ EmergencyStop(r, "idle", FALSE, engaged)
    /\ told' = {}
    /\ UNCHANGED <<state, overrides, modes, timers, answer>>

\* POST /emergency-stop/reset with the legacy code: only the stop is cleared.
ResetEmergencyStop ==
    /\ emergency
    /\ emergency' = FALSE
    /\ UNCHANGED <<state, engaged, in_safe_state, told, overrides, modes, timers, task, answer>>

-----------------------------------------------------------------------------
(* API calls that await a PIN authorization.                               *)

\* The checks each operation makes before it awaits authorize_operation.
Admissible(op) ==
    CASE op = "reset"            -> emergency
      [] op = "maintenance"      -> mode # "maintenance"
      [] op = "maintenance_exit" -> mode = "maintenance"
      [] op = "diagnostic"       -> mode # "diagnostic"
      [] op = "diagnostic_exit"  -> mode = "diagnostic"
      [] OTHER                   -> TRUE

BeginWithPin(r, op, i) ==
    /\ task[r].pc = "idle"
    /\ Admissible(op)
    /\ task' = [task EXCEPT ![r] = Place("authorizing", op, i, {}, "idle", FALSE)]
    /\ UNCHANGED <<state, protection, overrides, modes, timers, answer>>

\* The security audit service knows no event type for overrides and modes: its
\* log_security_event raises and the operation, done by then, reports False.
Answer(applied) == answer' = [reported |-> applied /\ ~AuditService, applied |-> applied]

Return(r) == task' = [task EXCEPT ![r] = At("idle")]

Denied(r) ==
    /\ task[r].pc = "authorizing"
    /\ FALSE \in AuthOutcomes
    /\ Return(r) /\ Answer(FALSE)
    /\ UNCHANGED <<state, protection, overrides, modes, timers>>

Granted(r, op) ==
    /\ task[r].pc = "authorizing" /\ task[r].op = op
    /\ TRUE \in AuthOutcomes

\* override_interlock_with_pin.
OverrideGranted(r) ==
    /\ Granted(r, "override")
    /\ override' = [override EXCEPT ![task[r].interlock] = Duration]
    /\ active_overrides' = [active_overrides EXCEPT ![task[r].interlock] = Duration]
    /\ Return(r) /\ Answer(TRUE)
    /\ UNCHANGED <<state, protection, modes, timers>>

\* enter_maintenance_mode_with_pin and enter_diagnostic_mode_with_pin.
EnterModeGranted(r, m) ==
    /\ Granted(r, m)
    /\ mode' = m /\ mode_left' = Duration /\ mode_session' = r
    /\ Return(r) /\ Answer(TRUE)
    /\ UNCHANGED <<state, protection, overrides, timers>>

ResetMode == mode' = "normal" /\ mode_left' = None /\ mode_session' = "none"

\* Mutant: the overrides survive the mode.
LeaveModeKeepsOverrides(ovr) ==
    ResetMode /\ override' = ovr /\ UNCHANGED active_overrides

\* Back to normal, clearing every tracked override; ovr are the overrides.
LeaveMode(ovr) ==
    /\ ResetMode
    /\ ClearOverrides({i \in Interlocks : active_overrides[i] # None}, ovr)

\* exit_maintenance_mode_with_pin and exit_diagnostic_mode_with_pin.
ExitModeGranted(r, op) ==
    /\ Granted(r, op)
    /\ LeaveMode(override)
    /\ Return(r) /\ Answer(TRUE)
    /\ UNCHANGED <<state, protection, timers>>

\* emergency_stop_with_pin: True also when a stop is already active.
StopGranted(r) ==
    /\ Granted(r, "stop")
    /\ IF emergency
       THEN Return(r) /\ UNCHANGED protection
       ELSE EmergencyStop(r, "idle", FALSE, engaged) /\ told' = {}
    /\ UNCHANGED <<state, overrides, modes, timers, answer>>

\* reset_emergency_stop_with_pin.
ResetGranted(r) ==
    /\ Granted(r, "reset")
    /\ emergency' = FALSE
    /\ Return(r)
    /\ UNCHANGED <<state, engaged, in_safe_state, told, overrides, modes, timers, answer>>

-----------------------------------------------------------------------------
(* _perform_health_check, without a registry.  No code calls it.           *)

\* check_mode_expiration, ovr being the overrides by then.
CheckModeExpiration(ovr) ==
    IF mode # "normal" /\ mode_left = Expired
    THEN LeaveMode(ovr)
    ELSE override' = ovr /\ UNCHANGED <<modes, active_overrides>>

\* A watchdog timeout stops everything; else the watchdog is kicked,
\* check_all_interlocks may stop everything, and the mode may expire.
PerformHealthCheck ==
    /\ HealthCheckCalled /\ ~RegistryAttached
    /\ LET timeout == since_kick > WatchdogTimeout
       IN /\ since_kick' = IF timeout THEN since_kick ELSE 0
          /\ IF ~emergency /\ (timeout \/ MultipleViolations)
             THEN emergency' = TRUE /\ engaged' = Interlocks /\ in_safe_state' = TRUE
             ELSE /\ engaged' = IF timeout THEN engaged ELSE Violated(state)
                  /\ UNCHANGED <<emergency, in_safe_state>>
          /\ IF timeout THEN UNCHANGED <<overrides, modes>> ELSE CheckModeExpiration(DropExpired)
    /\ UNCHANGED <<state, told, wake, task, answer>>

-----------------------------------------------------------------------------
(* Time.  A sleep counts down while its task is asleep.                    *)

Down(left) == IF left > Expired THEN left - 1 ELSE left

Tick ==
    /\ override' = [i \in Interlocks |-> Down(override[i])]
    /\ active_overrides' = [i \in Interlocks |-> Down(active_overrides[i])]
    /\ mode_left' = Down(mode_left)
    /\ since_kick' = IF since_kick > WatchdogTimeout THEN since_kick ELSE since_kick + 1
    /\ wake' = [t \in Loops |->
                  IF wake[t] > 0 /\ task[t].pc = "asleep" THEN wake[t] - 1 ELSE wake[t]]
    /\ UNCHANGED <<state, protection, mode, mode_session, task, answer>>

Next ==
    \/ MonitorIteration \/ WatchdogIteration
    \/ LoopEnds("monitor") \/ LoopEnds("watchdog")
    \/ \E t \in Tasks : \E s \in task[t].todo : ServiceStopped(t, s)
    \/ StopMonitoring
    \/ \E st \in SUBSET Conditions : UpdateSystemState(st)
    \/ CheckInterlocks
    \/ \E i \in Overridable : ClearInterlockOverride(i)
    \/ \E r \in Requests :
         \/ TriggerEmergencyStop(r)
         \/ \E op \in Offered \ {"override"} : BeginWithPin(r, op, "none")
         \/ \E i \in Overridable : "override" \in Offered /\ BeginWithPin(r, "override", i)
         \/ Denied(r)
         \/ OverrideGranted(r)
         \/ \E m \in {"maintenance", "diagnostic"} : EnterModeGranted(r, m)
         \/ \E op \in {"maintenance_exit", "diagnostic_exit"} : ExitModeGranted(r, op)
         \/ StopGranted(r) \/ ResetGranted(r)
    \/ ResetEmergencyStop
    \/ PerformHealthCheck
    \/ Tick

Spec == Init /\ [][Next]_vars

\* The event loop resumes a task whose sleep is over, and time passes.
LoopFairness ==
    /\ WF_vars(MonitorIteration) /\ WF_vars(WatchdogIteration)
    /\ WF_vars(PerformHealthCheck)
    /\ WF_vars(Tick)

\* Nothing is assumed of the services: the call to one of them may hang.
FairSpec == Spec /\ LoopFairness

-----------------------------------------------------------------------------
(* Properties.                                                             *)

Timer == {None, Expired} \cup 0..Duration

PCs == {"idle", "asleep", "authorizing", "stopping", "shutting", "nested", "ended",
        "cancelled"}
TaskPlaces ==
    [pc : PCs, op : Operations \cup {"none"}, interlock : Overridable \cup {"none"},
     todo : SUBSET Critical, then : {"idle", "asleep", "ended"}, again : BOOLEAN]

ProtectionType ==
    /\ state \subseteq Conditions /\ engaged \subseteq Interlocks
    /\ in_safe_state \in BOOLEAN /\ emergency \in BOOLEAN
    /\ told \subseteq Critical
    /\ answer \in [reported : BOOLEAN, applied : BOOLEAN]

OverridesType ==
    override \in [Interlocks -> Timer] /\ active_overrides \in [Interlocks -> Timer]

\* In normal mode there is neither an expiry nor a session.
ModesType ==
    /\ mode \in {"normal", "maintenance", "diagnostic"}
    /\ mode_left \in Timer /\ mode_session \in Requests \cup {"none"}
    /\ (mode = "normal") <=> (mode_left = None)
    /\ (mode = "normal") <=> (mode_session = "none")

TimersType ==
    /\ since_kick \in 0..(WatchdogTimeout + 1)
    /\ wake \in [Loops -> 0..HealthInterval]

TasksType ==
    /\ task \in [Tasks -> TaskPlaces]
    /\ \A t \in Tasks : task[t].op = "override" => task[t].interlock \in Overridable

\* Types, and the mode fields belong together whatever way a mode ends
\* (exit_*_mode_with_pin, check_mode_expiration).
TypeOK == ProtectionType /\ OverridesType /\ ModesType /\ TimersType /\ TasksType

Cancelled == task["monitor"].pc = "cancelled"

\* An active emergency stop has put the system in the safe state or some task
\* is still carrying it out: no path through emergency_stop,
\* trigger_emergency_stop and reset, however they overlap, leaves the flag up
\* with nobody working on it.  (Shutdown cancels the monitor in mid-stop.)
EmergencyUnderwayOrSafe ==
    emergency => in_safe_state \/ (\E t \in Tasks : Underway(t)) \/ Cancelled

\* Once a stop or a safe-state entry is over, every safety-critical service has
\* been told to stop since the latest stop began.
AllServicesTold ==
    in_safe_state /\ ~Cancelled /\ (\A t \in Tasks : ~Underway(t)) => told = Services

\* An override in force is tracked in _active_overrides with the same expiry,
\* so that leaving a mode can find it.
OverridesTracked ==
    \A i \in Interlocks : override[i] # None => active_overrides[i] = override[i]

\* Whatever ends a maintenance or diagnostic mode ends every override.
LeavingModeClearsOverrides ==
    [][mode # "normal" /\ mode' = "normal" => \A i \in Interlocks : override'[i] = None]_vars

\* Conditions of interlock i that the vehicle does not meet.
Unmet(i) == InterlockConditions[i] \ state

\* The monitor notices that MULTIPLE_VIOLATION_THRESHOLD interlocks without an
\* override have unmet conditions, however late it runs.
ViolationsStop ==
    LET violated == {i \in Interlocks : override[i] \in {None, Expired} /\ Unmet(i) # {}}
    IN (Cardinality(violated) >= Violation_Threshold) ~>
           (emergency \/ in_safe_state \/ Cancelled \/ Cardinality(violated) < Violation_Threshold)

\* The monitor engages an interlock whose override expires while its
\* conditions are not met, unless it is overridden anew.
ExpiredOverrideReengages ==
    \A i \in Overridable :
        (override[i] = Expired /\ Unmet(i) # {}) ~>
            (i \in engaged \/ Unmet(i) = {} \/ override[i] >= 0 \/ in_safe_state \/ Cancelled)

\* A stop of the monitor that hangs in a service is taken over by the watchdog.
MonitorHangReachesSafeState ==
    (task["monitor"].pc = "stopping") ~> (in_safe_state \/ Cancelled)

\* While an emergency stop is in force no interlock is released.
StopKeepsInterlocks ==
    [][emergency /\ in_safe_state /\ emergency' => engaged \subseteq engaged']_vars

=============================================================================
