------------------------- MODULE SafetyServiceProofs -------------------------
(***************************************************************************)
(* Proofs about SafetyService, for every set of interlocks, services and   *)
(* requests and every value of the timers.                                 *)
(***************************************************************************)
EXTENDS SafetyService, TLAPS

USE DEF None, Expired, Loops

-----------------------------------------------------------------------------
(* The places a task can be at.                                            *)

\* The records the actions assign to a task are places.
LEMMA AtType ==
    ASSUME NEW pc \in PCs
    PROVE  At(pc) \in TaskPlaces /\ At(pc).op = "none" /\ At(pc).pc = pc
  BY DEF At, Place, TaskPlaces, PCs, Operations

\* So are those of a task that calls the services.
LEMMA CallingType ==
    ASSUME NEW pc \in PCs, NEW todo \in SUBSET Critical,
           NEW then \in {"idle", "asleep", "ended"}, NEW again \in BOOLEAN
    PROVE  /\ Calling(pc, todo, then, again) \in TaskPlaces
           /\ Calling(pc, todo, then, again).op = "none"
           /\ Calling(pc, todo, then, again).pc = pc
  BY DEF Calling, Place, TaskPlaces, PCs, Operations

LEMMA StopShutType ==
    ASSUME NEW then \in {"idle", "asleep", "ended"}, NEW again \in BOOLEAN
    PROVE  /\ Stopping(then, again) \in TaskPlaces
           /\ Shutting(then, again) \in TaskPlaces
           /\ Nested(then, again) \in TaskPlaces
           /\ Stopping(then, again).op = "none" /\ Shutting(then, again).op = "none"
           /\ Nested(then, again).op = "none"
           /\ Stopping(then, again).pc = "stopping" /\ Shutting(then, again).pc = "shutting"
           /\ Nested(then, again).pc = "nested"
<1>1. "stopping" \in PCs /\ "shutting" \in PCs /\ "nested" \in PCs
  BY DEF PCs
<1>2. ASSUME NEW pc \in PCs
      PROVE  /\ Calling(pc, Critical, then, again) \in TaskPlaces
             /\ Calling(pc, Critical, then, again).op = "none"
             /\ Calling(pc, Critical, then, again).pc = pc
  <2>1. Critical \in SUBSET Critical
    OBVIOUS
  <2>. QED  BY <2>1, CallingType
<1>3. /\ Stopping(then, again) \in TaskPlaces
      /\ Stopping(then, again).op = "none" /\ Stopping(then, again).pc = "stopping"
  BY <1>1, <1>2 DEF Stopping
<1>4. /\ Shutting(then, again) \in TaskPlaces
      /\ Shutting(then, again).op = "none" /\ Shutting(then, again).pc = "shutting"
  BY <1>1, <1>2 DEF Shutting
<1>5. /\ Nested(then, again) \in TaskPlaces
      /\ Nested(then, again).op = "none" /\ Nested(then, again).pc = "nested"
  BY <1>1, <1>2 DEF Nested
<1>. QED  BY <1>3, <1>4, <1>5

\* A task that moves to a place keeps the tasks typed.
LEMMA MoveType ==
    ASSUME TasksType, NEW t \in Tasks, NEW p \in TaskPlaces,
           p.op = "override" => p.interlock \in Overridable,
           task' = [task EXCEPT ![t] = p]
    PROVE  TasksType'
  BY DEF TasksType

\* The end of a stop keeps the tasks typed.
LEMMA LastServiceStoppedType ==
    ASSUME TypeOK, NEW t \in Tasks, LastServiceStopped(t)
    PROVE  TasksType'
<1>1. task[t].then \in {"idle", "asleep", "ended"} /\ task[t].again \in BOOLEAN
  BY DEF TypeOK, TasksType, TaskPlaces
<1>2. {"idle", "asleep", "ended"} \subseteq PCs
  BY DEF PCs
<1>3. /\ At(task[t].then) \in TaskPlaces /\ At(task[t].then).op = "none"
  BY <1>1, <1>2, AtType
<1>4. /\ Shutting(task[t].then, task[t].again) \in TaskPlaces
      /\ Shutting(task[t].then, task[t].again).op = "none"
      /\ Nested(task[t].then, task[t].again) \in TaskPlaces
      /\ Nested(task[t].then, task[t].again).op = "none"
  BY <1>1, StopShutType
<1>5. /\ Stopping(task[t].then, FALSE) \in TaskPlaces
      /\ Stopping(task[t].then, FALSE).op = "none"
  BY <1>1, StopShutType
<1>6. PICK p \in TaskPlaces : p.op = "none" /\ task' = [task EXCEPT ![t] = p]
  BY <1>3, <1>4, <1>5 DEF LastServiceStopped, EmergencyStop, ShutDownServices
<1>. QED  BY <1>6, MoveType DEF TypeOK

-----------------------------------------------------------------------------
(* The steps of Next, under names of their own.                            *)

\* What is to be shown of every action of Next.
LEMMA NextCases ==
    ASSUME Next
    PROVE  \/ MonitorIteration \/ WatchdogIteration
           \/ \E t \in Loops : LoopEnds(t)
           \/ \E t \in Tasks : \E s \in task[t].todo : ServiceStopped(t, s)
           \/ StopMonitoring
           \/ \E st \in SUBSET Conditions : UpdateSystemState(st)
           \/ CheckInterlocks
           \/ \E i \in Interlocks : ClearInterlockOverride(i)
           \/ \E r \in Requests : TriggerEmergencyStop(r) \/ StopGranted(r)
           \/ \E r \in Requests, op \in Operations, i \in Overridable \cup {"none"} :
                (op = "override" => i \in Overridable) /\ BeginWithPin(r, op, i)
           \/ \E r \in Requests : Denied(r) \/ ResetGranted(r)
           \/ \E r \in Requests : OverrideGranted(r)
           \/ \E r \in Requests, m \in {"maintenance",
                "diagnostic"} : EnterModeGranted(r, m)
           \/ \E r \in Requests, op \in Operations : ExitModeGranted(r, op)
           \/ ResetEmergencyStop
           \/ PerformHealthCheck
           \/ Tick
  BY SafetyAssumption DEF Next, SafetyAssumption, Operations

-----------------------------------------------------------------------------
(* Type correctness.                                                       *)

\* Every step keeps the protection variables typed.
LEMMA ProtectionStep == TypeOK /\ [Next]_vars => ProtectionType'
<1> SUFFICES ASSUME TypeOK, [Next]_vars PROVE ProtectionType'
  OBVIOUS
<1> USE SafetyAssumption DEF TypeOK, ProtectionType, SafetyAssumption
<1>1. CASE MonitorIteration
  BY <1>1 DEF MonitorIteration, EmergencyStop, EnterSafeState, ShutDownServices, Violated, Critical
<1>2. CASE WatchdogIteration
  BY <1>2 DEF WatchdogIteration, EnterSafeState, ShutDownServices, protection
<1>3. ASSUME NEW t \in Loops,
             LoopEnds(t)
      PROVE  ProtectionType'
  BY <1>3 DEF LoopEnds, protection
<1>4. ASSUME NEW t \in Tasks, NEW s \in task[t].todo,
             ServiceStopped(t, s)
      PROVE  ProtectionType'
  BY <1>4 DEF ServiceStopped, LastServiceStopped, EmergencyStop, ShutDownServices, TasksType,
     TaskPlaces
<1>5. CASE StopMonitoring
  BY <1>5 DEF StopMonitoring, protection
<1>6. ASSUME NEW st \in SUBSET Conditions,
             UpdateSystemState(st)
      PROVE  ProtectionType'
  BY <1>6 DEF UpdateSystemState, CheckSafetyInterlocks, Violated
<1>7. CASE CheckInterlocks
  BY <1>7 DEF CheckInterlocks, CheckSafetyInterlocks, Violated
<1>8. ASSUME NEW i \in Interlocks,
             ClearInterlockOverride(i)
      PROVE  ProtectionType'
  BY <1>8 DEF ClearInterlockOverride, protection
<1>9. ASSUME NEW r \in Requests,
             TriggerEmergencyStop(r)
      PROVE  ProtectionType'
  BY <1>9 DEF TriggerEmergencyStop, EmergencyStop
<1>10. ASSUME NEW r \in Requests,
             StopGranted(r)
      PROVE  ProtectionType'
  BY <1>10 DEF StopGranted, EmergencyStop, protection
<1>11. ASSUME NEW r \in Requests, NEW op \in Operations,
     NEW i \in Overridable \cup {"none"},
                  op = "override" => i \in Overridable,
             BeginWithPin(r, op, i)
      PROVE  ProtectionType'
  BY <1>11 DEF BeginWithPin, protection
<1>12. ASSUME NEW r \in Requests,
             Denied(r)
      PROVE  ProtectionType'
  BY <1>12 DEF Denied, protection, Answer
<1>13. ASSUME NEW r \in Requests,
             ResetGranted(r)
      PROVE  ProtectionType'
  BY <1>13 DEF ResetGranted, protection
<1>14. ASSUME NEW r \in Requests,
             OverrideGranted(r)
      PROVE  ProtectionType'
  BY <1>14 DEF OverrideGranted, protection, Answer
<1>15. ASSUME NEW r \in Requests, NEW m \in {"maintenance", "diagnostic"},
             EnterModeGranted(r, m)
      PROVE  ProtectionType'
  BY <1>15 DEF EnterModeGranted, protection, Answer
<1>16. ASSUME NEW r \in Requests, NEW op \in Operations,
             ExitModeGranted(r, op)
      PROVE  ProtectionType'
  BY <1>16 DEF ExitModeGranted, protection, Answer
<1>17. CASE ResetEmergencyStop
  BY <1>17 DEF ResetEmergencyStop, protection
<1>18. CASE PerformHealthCheck
  BY <1>18 DEF PerformHealthCheck, Violated
<1>19. CASE Tick
  BY <1>19 DEF Tick, protection
<1>20. CASE UNCHANGED vars
  BY <1>20 DEF TypeOK, ProtectionType, vars, protection, overrides, modes, timers
<1>. QED
  BY NextCases, <1>1, <1>2, <1>3, <1>4, <1>5, <1>6, <1>7, <1>8, <1>9, <1>10, <1>11,
       <1>12, <1>13, <1>14, <1>15, <1>16, <1>17, <1>18, <1>19, <1>20

\* Every step keeps the overrides typed.
LEMMA OverridesStep == TypeOK /\ [Next]_vars => OverridesType'
<1> SUFFICES ASSUME TypeOK, [Next]_vars PROVE OverridesType'
  OBVIOUS
<1> USE SafetyAssumption DEF TypeOK, OverridesType, SafetyAssumption
<1>1. CASE MonitorIteration
  BY <1>1 DEF MonitorIteration, overrides, DropExpired, Overridden, Timer
<1>2. CASE WatchdogIteration
  BY <1>2 DEF WatchdogIteration, overrides
<1>3. ASSUME NEW t \in Loops,
             LoopEnds(t)
      PROVE  OverridesType'
  BY <1>3 DEF LoopEnds, overrides
<1>4. ASSUME NEW t \in Tasks, NEW s \in task[t].todo,
             ServiceStopped(t, s)
      PROVE  OverridesType'
  BY <1>4 DEF ServiceStopped, overrides
<1>5. CASE StopMonitoring
  BY <1>5 DEF StopMonitoring, overrides
<1>6. ASSUME NEW st \in SUBSET Conditions,
             UpdateSystemState(st)
      PROVE  OverridesType'
  BY <1>6 DEF UpdateSystemState, CheckSafetyInterlocks, DropExpired, Overridden, Timer
<1>7. CASE CheckInterlocks
  BY <1>7 DEF CheckInterlocks, CheckSafetyInterlocks, DropExpired, Overridden, Timer
<1>8. ASSUME NEW i \in Interlocks,
             ClearInterlockOverride(i)
      PROVE  OverridesType'
  BY <1>8 DEF ClearInterlockOverride, ClearOverrides, Cleared, Timer
<1>9. ASSUME NEW r \in Requests,
             TriggerEmergencyStop(r)
      PROVE  OverridesType'
  BY <1>9 DEF TriggerEmergencyStop, overrides
<1>10. ASSUME NEW r \in Requests,
             StopGranted(r)
      PROVE  OverridesType'
  BY <1>10 DEF StopGranted, overrides
<1>11. ASSUME NEW r \in Requests, NEW op \in Operations,
     NEW i \in Overridable \cup {"none"},
                  op = "override" => i \in Overridable,
             BeginWithPin(r, op, i)
      PROVE  OverridesType'
  BY <1>11 DEF BeginWithPin, overrides
<1>12. ASSUME NEW r \in Requests,
             Denied(r)
      PROVE  OverridesType'
  BY <1>12 DEF Denied, overrides
<1>13. ASSUME NEW r \in Requests,
             ResetGranted(r)
      PROVE  OverridesType'
  BY <1>13 DEF ResetGranted, overrides
<1>14. ASSUME NEW r \in Requests,
             OverrideGranted(r)
      PROVE  OverridesType'
  <2>1. Duration \in Timer
    BY DEF Timer
  <2>2. \A f \in [Interlocks -> Timer] : \A x : [f EXCEPT ![x] = Duration] \in [Interlocks -> Timer]
    BY <2>1, Zenon
  <2>. QED  BY <1>14, <2>2 DEF OverrideGranted
<1>15. ASSUME NEW r \in Requests, NEW m \in {"maintenance", "diagnostic"},
             EnterModeGranted(r, m)
      PROVE  OverridesType'
  BY <1>15 DEF EnterModeGranted, overrides
<1>16. ASSUME NEW r \in Requests, NEW op \in Operations,
             ExitModeGranted(r, op)
      PROVE  OverridesType'
  BY <1>16 DEF ExitModeGranted, LeaveMode, ClearOverrides, Cleared, Timer
<1>17. CASE ResetEmergencyStop
  BY <1>17 DEF ResetEmergencyStop, overrides
<1>18. CASE PerformHealthCheck
  BY <1>18 DEF PerformHealthCheck, CheckModeExpiration, DropExpired, Overridden, LeaveMode,
       ClearOverrides, Cleared, overrides, Timer
<1>19. CASE Tick
  BY <1>19 DEF Tick, Down, Timer
<1>20. CASE UNCHANGED vars
  BY <1>20 DEF TypeOK, OverridesType, vars, protection, overrides, modes, timers
<1>. QED
  BY NextCases, <1>1, <1>2, <1>3, <1>4, <1>5, <1>6, <1>7, <1>8, <1>9, <1>10, <1>11,
       <1>12, <1>13, <1>14, <1>15, <1>16, <1>17, <1>18, <1>19, <1>20

\* Every step keeps the mode fields typed and together.
LEMMA ModesStep == TypeOK /\ [Next]_vars => ModesType'
<1> SUFFICES ASSUME TypeOK, [Next]_vars PROVE ModesType'
  OBVIOUS
<1> USE SafetyAssumption DEF TypeOK, ModesType, Timer, SafetyAssumption
<1>1. CASE MonitorIteration
  BY <1>1 DEF MonitorIteration, modes
<1>2. CASE WatchdogIteration
  BY <1>2 DEF WatchdogIteration, modes
<1>3. ASSUME NEW t \in Loops,
             LoopEnds(t)
      PROVE  ModesType'
  BY <1>3 DEF LoopEnds, modes
<1>4. ASSUME NEW t \in Tasks, NEW s \in task[t].todo,
             ServiceStopped(t, s)
      PROVE  ModesType'
  BY <1>4 DEF ServiceStopped, modes
<1>5. CASE StopMonitoring
  BY <1>5 DEF StopMonitoring, modes
<1>6. ASSUME NEW st \in SUBSET Conditions,
             UpdateSystemState(st)
      PROVE  ModesType'
  BY <1>6 DEF UpdateSystemState, modes
<1>7. CASE CheckInterlocks
  BY <1>7 DEF CheckInterlocks, modes
<1>8. ASSUME NEW i \in Interlocks,
             ClearInterlockOverride(i)
      PROVE  ModesType'
  BY <1>8 DEF ClearInterlockOverride, modes
<1>9. ASSUME NEW r \in Requests,
             TriggerEmergencyStop(r)
      PROVE  ModesType'
  BY <1>9 DEF TriggerEmergencyStop, modes
<1>10. ASSUME NEW r \in Requests,
             StopGranted(r)
      PROVE  ModesType'
  BY <1>10 DEF StopGranted, modes
<1>11. ASSUME NEW r \in Requests, NEW op \in Operations,
     NEW i \in Overridable \cup {"none"},
                  op = "override" => i \in Overridable,
             BeginWithPin(r, op, i)
      PROVE  ModesType'
  BY <1>11 DEF BeginWithPin, modes
<1>12. ASSUME NEW r \in Requests,
             Denied(r)
      PROVE  ModesType'
  BY <1>12 DEF Denied, modes
<1>13. ASSUME NEW r \in Requests,
             ResetGranted(r)
      PROVE  ModesType'
  BY <1>13 DEF ResetGranted, modes
<1>14. ASSUME NEW r \in Requests,
             OverrideGranted(r)
      PROVE  ModesType'
  BY <1>14 DEF OverrideGranted, modes
<1>15. ASSUME NEW r \in Requests, NEW m \in {"maintenance", "diagnostic"},
             EnterModeGranted(r, m)
      PROVE  ModesType'
  BY <1>15 DEF EnterModeGranted
<1>16. ASSUME NEW r \in Requests, NEW op \in Operations,
             ExitModeGranted(r, op)
      PROVE  ModesType'
  BY <1>16 DEF ExitModeGranted, LeaveMode, ResetMode
<1>17. CASE ResetEmergencyStop
  BY <1>17 DEF ResetEmergencyStop, modes
<1>18. CASE PerformHealthCheck
  BY <1>18 DEF PerformHealthCheck, CheckModeExpiration, LeaveMode, ResetMode, modes
<1>19. CASE Tick
  BY <1>19 DEF Tick, Down
<1>20. CASE UNCHANGED vars
  BY <1>20 DEF TypeOK, ModesType, vars, protection, overrides, modes, timers
<1>. QED
  BY NextCases, <1>1, <1>2, <1>3, <1>4, <1>5, <1>6, <1>7, <1>8, <1>9, <1>10, <1>11,
       <1>12, <1>13, <1>14, <1>15, <1>16, <1>17, <1>18, <1>19, <1>20

\* Every step keeps the timers within their bounds.
LEMMA TimersStep == TypeOK /\ [Next]_vars => TimersType'
<1> SUFFICES ASSUME TypeOK, [Next]_vars PROVE TimersType'
  OBVIOUS
<1> USE SafetyAssumption DEF TypeOK, TimersType, SafetyAssumption
<1>1. CASE MonitorIteration
  BY <1>1 DEF MonitorIteration, timers
<1>2. CASE WatchdogIteration
  BY <1>2 DEF WatchdogIteration, timers
<1>3. ASSUME NEW t \in Loops,
             LoopEnds(t)
      PROVE  TimersType'
  BY <1>3 DEF LoopEnds, timers
<1>4. ASSUME NEW t \in Tasks, NEW s \in task[t].todo,
             ServiceStopped(t, s)
      PROVE  TimersType'
  BY <1>4 DEF ServiceStopped, timers
<1>5. CASE StopMonitoring
  BY <1>5 DEF StopMonitoring, timers
<1>6. ASSUME NEW st \in SUBSET Conditions,
             UpdateSystemState(st)
      PROVE  TimersType'
  BY <1>6 DEF UpdateSystemState, timers
<1>7. CASE CheckInterlocks
  BY <1>7 DEF CheckInterlocks, timers
<1>8. ASSUME NEW i \in Interlocks,
             ClearInterlockOverride(i)
      PROVE  TimersType'
  BY <1>8 DEF ClearInterlockOverride, timers
<1>9. ASSUME NEW r \in Requests,
             TriggerEmergencyStop(r)
      PROVE  TimersType'
  BY <1>9 DEF TriggerEmergencyStop, timers
<1>10. ASSUME NEW r \in Requests,
             StopGranted(r)
      PROVE  TimersType'
  BY <1>10 DEF StopGranted, timers
<1>11. ASSUME NEW r \in Requests, NEW op \in Operations,
     NEW i \in Overridable \cup {"none"},
                  op = "override" => i \in Overridable,
             BeginWithPin(r, op, i)
      PROVE  TimersType'
  BY <1>11 DEF BeginWithPin, timers
<1>12. ASSUME NEW r \in Requests,
             Denied(r)
      PROVE  TimersType'
  BY <1>12 DEF Denied, timers
<1>13. ASSUME NEW r \in Requests,
             ResetGranted(r)
      PROVE  TimersType'
  BY <1>13 DEF ResetGranted, timers
<1>14. ASSUME NEW r \in Requests,
             OverrideGranted(r)
      PROVE  TimersType'
  BY <1>14 DEF OverrideGranted, timers
<1>15. ASSUME NEW r \in Requests, NEW m \in {"maintenance", "diagnostic"},
             EnterModeGranted(r, m)
      PROVE  TimersType'
  BY <1>15 DEF EnterModeGranted, timers
<1>16. ASSUME NEW r \in Requests, NEW op \in Operations,
             ExitModeGranted(r, op)
      PROVE  TimersType'
  BY <1>16 DEF ExitModeGranted, timers
<1>17. CASE ResetEmergencyStop
  BY <1>17 DEF ResetEmergencyStop, timers
<1>18. CASE PerformHealthCheck
  BY <1>18 DEF PerformHealthCheck
<1>19. CASE Tick
  BY <1>19 DEF Tick
<1>20. CASE UNCHANGED vars
  BY <1>20 DEF TypeOK, TimersType, vars, protection, overrides, modes, timers
<1>. QED
  BY NextCases, <1>1, <1>2, <1>3, <1>4, <1>5, <1>6, <1>7, <1>8, <1>9, <1>10, <1>11,
       <1>12, <1>13, <1>14, <1>15, <1>16, <1>17, <1>18, <1>19, <1>20

\* Starting a stop or entering the safe state keeps the tasks typed.
LEMMA StopType ==
    ASSUME TypeOK, NEW t \in Tasks, NEW then \in {"idle", "asleep", "ended"},
           NEW again \in BOOLEAN, NEW E,
           EmergencyStop(t, then, again, E) \/ EnterSafeState(t, then)
    PROVE  TasksType'
<1>1. then \in PCs
  BY DEF PCs
<1>2. /\ At(then) \in TaskPlaces /\ At(then).op = "none"
      /\ Shutting(then, FALSE) \in TaskPlaces /\ Shutting(then, FALSE).op = "none"
      /\ Nested(then, FALSE) \in TaskPlaces /\ Nested(then, FALSE).op = "none"
      /\ Stopping(then, again) \in TaskPlaces /\ Stopping(then, again).op = "none"
  BY <1>1, AtType, StopShutType
<1>3. PICK p \in TaskPlaces : p.op = "none" /\ task' = [task EXCEPT ![t] = p]
  BY <1>2 DEF EmergencyStop, EnterSafeState, ShutDownServices
<1>. QED  BY <1>3, MoveType DEF TypeOK

\* Every step keeps the tasks at places of the code.
LEMMA TasksStep == TypeOK /\ [Next]_vars => TasksType'
<1> SUFFICES ASSUME TypeOK, [Next]_vars PROVE TasksType'
  OBVIOUS
<1> USE DEF TypeOK
<1>1. CASE MonitorIteration
  <2>1. CASE EnterSafeState("monitor", "ended")
    BY <2>1, StopType DEF Tasks
  <2>2. ASSUME NEW again \in BOOLEAN, EmergencyStop("monitor", "asleep", again,
       Violated(state))
        PROVE  TasksType'
    BY <2>2, StopType DEF Tasks
  <2>3. CASE UNCHANGED task
    BY <2>3 DEF TasksType
  <2>. QED  BY <1>1, <2>1, <2>2, <2>3 DEF MonitorIteration
<1>2. CASE WatchdogIteration
  <2>1. CASE EnterSafeState("watchdog", "ended")
    BY <2>1, StopType DEF Tasks
  <2>2. CASE UNCHANGED task
    BY <2>2 DEF TasksType
  <2>. QED  BY <1>2, <2>1, <2>2 DEF WatchdogIteration, protection
<1>3. ASSUME NEW t \in Loops,
             LoopEnds(t)
      PROVE  TasksType'
  <2>1. At("ended") \in TaskPlaces /\ At("ended").op = "none"
    BY AtType DEF PCs
  <2>. QED  BY <1>3, <2>1, MoveType DEF LoopEnds, Tasks
<1>4. ASSUME NEW t \in Tasks, NEW s \in task[t].todo,
             ServiceStopped(t, s)
      PROVE  TasksType'
  <2>1. CASE LastServiceStopped(t)
    BY <2>1, LastServiceStoppedType
  <2>2. CASE task' = [task EXCEPT ![t] = Calling(task[t].pc, task[t].todo \ {s},
                                                 task[t].then, task[t].again)]
    <3>1. task[t] \in TaskPlaces
      BY DEF TasksType
    <3>2. /\ task[t].pc \in PCs /\ task[t].todo \ {s} \in SUBSET Critical
          /\ task[t].then \in {"idle", "asleep", "ended"} /\ task[t].again \in BOOLEAN
      BY <3>1 DEF TaskPlaces
    <3> DEFINE next == Calling(task[t].pc, task[t].todo \ {s}, task[t].then, task[t].again)
    <3>3. next \in TaskPlaces /\ next.op = "none"
      BY <3>2 DEF Calling, Place, TaskPlaces, Operations
    <3>. QED  BY <2>2, <3>3, MoveType
  <2>. QED  BY <1>4, <2>1, <2>2 DEF ServiceStopped
<1>5. CASE StopMonitoring
  <2>1. At("cancelled") \in TaskPlaces /\ At("cancelled").op = "none"
    BY AtType DEF PCs
  <2>. QED  BY <1>5, <2>1 DEF StopMonitoring, TasksType
<1>6. ASSUME NEW st \in SUBSET Conditions,
             UpdateSystemState(st)
      PROVE  TasksType'
  BY <1>6 DEF UpdateSystemState, TasksType
<1>7. CASE CheckInterlocks
  BY <1>7 DEF CheckInterlocks, TasksType
<1>8. ASSUME NEW i \in Interlocks,
             ClearInterlockOverride(i)
      PROVE  TasksType'
  BY <1>8 DEF ClearInterlockOverride, TasksType
<1>9. ASSUME NEW r \in Requests,
             TriggerEmergencyStop(r)
      PROVE  TasksType'
  BY <1>9, StopType DEF TriggerEmergencyStop, Tasks
<1>10. ASSUME NEW r \in Requests,
             StopGranted(r)
      PROVE  TasksType'
  <2>1. At("idle") \in TaskPlaces /\ At("idle").op = "none"
    BY AtType DEF PCs
  <2>2. CASE Return(r)
    BY <2>1, <2>2, MoveType DEF Return, Tasks
  <2>3. CASE EmergencyStop(r, "idle", FALSE, engaged)
    BY <2>3, StopType DEF Tasks
  <2>. QED  BY <1>10, <2>2, <2>3 DEF StopGranted
<1>11. ASSUME NEW r \in Requests, NEW op \in Operations,
     NEW i \in Overridable \cup {"none"},
                  op = "override" => i \in Overridable,
             BeginWithPin(r, op, i)
      PROVE  TasksType'
  <2>1. /\ Place("authorizing", op, i, {}, "idle", FALSE) \in TaskPlaces
        /\ Place("authorizing", op, i, {}, "idle", FALSE).op = op
        /\ Place("authorizing", op, i, {}, "idle", FALSE).interlock = i
    BY DEF Place, TaskPlaces, PCs
  <2>2. r \in Tasks
    BY DEF Tasks
  <2>. QED  BY <1>11, <2>1, <2>2, MoveType DEF BeginWithPin
<1>12. ASSUME NEW r \in Requests,
             Denied(r)
      PROVE  TasksType'
  <2>1. At("idle") \in TaskPlaces /\ At("idle").op = "none"
    BY AtType DEF PCs
  <2>. QED  BY <1>12, <2>1, MoveType DEF Denied, Return, Tasks
<1>13. ASSUME NEW r \in Requests,
             ResetGranted(r)
      PROVE  TasksType'
  <2>1. At("idle") \in TaskPlaces /\ At("idle").op = "none"
    BY AtType DEF PCs
  <2>. QED  BY <1>13, <2>1, MoveType DEF ResetGranted, Return, Tasks
<1>14. ASSUME NEW r \in Requests,
             OverrideGranted(r)
      PROVE  TasksType'
  <2>1. At("idle") \in TaskPlaces /\ At("idle").op = "none"
    BY AtType DEF PCs
  <2>. QED  BY <1>14, <2>1, MoveType DEF OverrideGranted, Return, Tasks
<1>15. ASSUME NEW r \in Requests, NEW m \in {"maintenance", "diagnostic"},
             EnterModeGranted(r, m)
      PROVE  TasksType'
  <2>1. At("idle") \in TaskPlaces /\ At("idle").op = "none"
    BY AtType DEF PCs
  <2>. QED  BY <1>15, <2>1, MoveType DEF EnterModeGranted, Return, Tasks
<1>16. ASSUME NEW r \in Requests, NEW op \in Operations,
             ExitModeGranted(r, op)
      PROVE  TasksType'
  <2>1. At("idle") \in TaskPlaces /\ At("idle").op = "none"
    BY AtType DEF PCs
  <2>. QED  BY <1>16, <2>1, MoveType DEF ExitModeGranted, Return, Tasks
<1>17. CASE ResetEmergencyStop
  BY <1>17 DEF ResetEmergencyStop, TasksType
<1>18. CASE PerformHealthCheck
  BY <1>18 DEF PerformHealthCheck, TasksType
<1>19. CASE Tick
  BY <1>19 DEF Tick, TasksType
<1>20. CASE UNCHANGED vars
  BY <1>20 DEF TasksType, vars, protection, overrides, modes, timers
<1>. QED
  BY NextCases, <1>1, <1>2, <1>3, <1>4, <1>5, <1>6, <1>7, <1>8, <1>9, <1>10, <1>11,
       <1>12, <1>13, <1>14, <1>15, <1>16, <1>17, <1>18, <1>19, <1>20

\* The initial state is typed.
LEMMA InitType == Init => TypeOK
<1> SUFFICES ASSUME Init PROVE TypeOK
  OBVIOUS
<1> USE SafetyAssumption DEF Init, SafetyAssumption
<1>1. ProtectionType
  BY DEF ProtectionType
<1>2. OverridesType
  BY DEF OverridesType, Timer
<1>3. ModesType /\ TimersType
  BY DEF ModesType, TimersType, Timer
<1>4. TasksType
  <2>1. \A pc \in {"idle", "asleep"} : At(pc) \in TaskPlaces /\ At(pc).op = "none"
    BY AtType DEF PCs
  <2>. QED  BY <2>1 DEF TasksType
<1>. QED  BY <1>1, <1>2, <1>3, <1>4 DEF TypeOK

\* The type invariant, for all values of the constants.
THEOREM TypeCorrect == Spec => []TypeOK
<1>1. TypeOK /\ [Next]_vars => TypeOK'
  BY ProtectionStep, OverridesStep, ModesStep, TimersStep, TasksStep DEF TypeOK
<1>. QED  BY InitType, <1>1, PTL DEF Spec

-----------------------------------------------------------------------------
(* An emergency stop is under way or has reached the safe state.           *)

\* What makes it inductive: the safe state is set before the calls of
\* _shutdown_safety_critical_features, so whoever finishes those is in it.
ShuttingIsSafe == \A t \in Tasks : task[t].pc \in {"shutting", "nested"} => in_safe_state

StopInv == TypeOK /\ ShuttingIsSafe /\ EmergencyUnderwayOrSafe

\* The safe state alone makes the invariant true.
LEMMA SafeSuffices ==
    ASSUME in_safe_state'
    PROVE  ShuttingIsSafe' /\ EmergencyUnderwayOrSafe'
  BY DEF ShuttingIsSafe, EmergencyUnderwayOrSafe

\* A task that is not calling services, and is not the cancelled monitor, may
\* move to any place but `shutting' and `nested'.
LEMMA BystanderMoves ==
    ASSUME StopInv, NEW t \in Tasks, NEW p, p.pc \notin {"shutting", "nested"},
           ~Underway(t), task[t].pc # "cancelled", task' = [task EXCEPT ![t] = p],
           emergency' => emergency, in_safe_state' = in_safe_state
    PROVE  ShuttingIsSafe' /\ EmergencyUnderwayOrSafe'
<1> USE DEF StopInv, TypeOK, TasksType
<1>1. task'[t] = p /\ \A u \in Tasks \ {t} : task'[u] = task[u]
  OBVIOUS
<1>2. ShuttingIsSafe'
  BY <1>1 DEF ShuttingIsSafe
<1>3. ASSUME emergency', ~in_safe_state' PROVE (\E u \in Tasks : Underway(u))' \/ Cancelled'
  <2>1. CASE Cancelled
    BY <2>1, <1>1 DEF Cancelled, Tasks
  <2>2. CASE \E u \in Tasks : Underway(u)
    BY <2>2, <1>1 DEF Underway
  <2>. QED  BY <1>3, <2>1, <2>2 DEF EmergencyUnderwayOrSafe
<1>. QED  BY <1>2, <1>3 DEF EmergencyUnderwayOrSafe

\* A stop that begins is under way, or over and in the safe state.
LEMMA StopBegins ==
    ASSUME StopInv, NEW t \in Tasks, NEW then \in {"idle", "asleep", "ended"},
           NEW again \in BOOLEAN, NEW E, EmergencyStop(t, then, again, E)
    PROVE  ShuttingIsSafe' /\ EmergencyUnderwayOrSafe'
<1>1. CASE Critical = {}
  BY <1>1, SafeSuffices DEF EmergencyStop
<1>2. CASE Critical # {}
  <2>1. /\ in_safe_state' = in_safe_state
        /\ task' = [task EXCEPT ![t] = Stopping(then, again)]
    BY <1>2 DEF EmergencyStop, StopInv, TypeOK, ProtectionType
  <2>2. /\ task'[t] = Stopping(then, again)
        /\ \A u \in Tasks \ {t} : task'[u] = task[u]
    BY <2>1 DEF StopInv, TypeOK, TasksType
  <2>3. task'[t].pc = "stopping"
    BY <2>2, StopShutType
  <2>. QED  BY <2>1, <2>2, <2>3 DEF ShuttingIsSafe, EmergencyUnderwayOrSafe, Underway,
       StopInv
<1>. QED  BY <1>1, <1>2

\* The end of a stop, or of its second round, is in the safe state.
LEMMA LastServiceStoppedInv ==
    ASSUME StopInv, NEW t \in Tasks, Underway(t), LastServiceStopped(t)
    PROVE  ShuttingIsSafe' /\ EmergencyUnderwayOrSafe'
<1>1. CASE task[t].pc = "stopping" /\ ~in_safe_state
  BY <1>1, SafeSuffices DEF LastServiceStopped
<1>2. CASE in_safe_state
  BY <1>2, SafeSuffices DEF LastServiceStopped, EmergencyStop
<1>. QED  BY <1>1, <1>2 DEF Underway, StopInv, ShuttingIsSafe

\* Every step keeps it.
LEMMA StopStep == StopInv /\ [Next]_vars => (ShuttingIsSafe /\ EmergencyUnderwayOrSafe)'
<1> SUFFICES ASSUME StopInv, [Next]_vars PROVE (ShuttingIsSafe /\ EmergencyUnderwayOrSafe)'
  OBVIOUS
<1> USE DEF StopInv
<1>1. CASE MonitorIteration
  <2>1. CASE EnterSafeState("monitor", "ended")
    BY <2>1, SafeSuffices DEF EnterSafeState
  <2>2. ASSUME NEW again \in BOOLEAN, EmergencyStop("monitor", "asleep", again,
       Violated(state))
        PROVE  (ShuttingIsSafe /\ EmergencyUnderwayOrSafe)'
    BY <2>2, StopBegins DEF Tasks
  <2>3. CASE UNCHANGED <<task, emergency, in_safe_state>>
    BY <2>3 DEF ShuttingIsSafe, EmergencyUnderwayOrSafe, Underway, Cancelled
  <2>. QED  BY <1>1, <2>1, <2>2, <2>3 DEF MonitorIteration
<1>2. CASE WatchdogIteration
  <2>1. CASE EnterSafeState("watchdog", "ended")
    BY <2>1, SafeSuffices DEF EnterSafeState
  <2>2. CASE UNCHANGED <<task, protection>>
    BY <2>2 DEF ShuttingIsSafe, EmergencyUnderwayOrSafe, Underway, Cancelled, protection
  <2>. QED  BY <1>2, <2>1, <2>2 DEF WatchdogIteration
<1>3. ASSUME NEW t \in Loops,
             LoopEnds(t)
      PROVE  (ShuttingIsSafe /\ EmergencyUnderwayOrSafe)'
  BY <1>3, SafeSuffices DEF LoopEnds, protection
<1>4. ASSUME NEW t \in Tasks, NEW s \in task[t].todo,
             ServiceStopped(t, s)
      PROVE  (ShuttingIsSafe /\ EmergencyUnderwayOrSafe)'
  <2>1. CASE LastServiceStopped(t)
    BY <1>4, <2>1, LastServiceStoppedInv DEF ServiceStopped
  <2>2. CASE /\ task' = [task EXCEPT ![t] = Calling(task[t].pc, task[t].todo \ {s},
                                                    task[t].then, task[t].again)]
             /\ UNCHANGED <<in_safe_state, emergency>>
    <3>1. task'[t].pc = task[t].pc
      BY <2>2 DEF StopInv, TypeOK, TasksType, Calling, Place
    <3>2. \A u \in Tasks \ {t} : task'[u] = task[u]
      BY <2>2 DEF StopInv, TypeOK, TasksType
    <3>3. \A u \in Tasks : task'[u].pc = task[u].pc
      BY <3>1, <3>2
    <3>. QED
      BY <2>2, <3>3 DEF ShuttingIsSafe, EmergencyUnderwayOrSafe, Underway, Cancelled, Tasks
  <2>. QED  BY <1>4, <2>1, <2>2 DEF ServiceStopped
<1>5. CASE StopMonitoring
  <2>1. task'["monitor"].pc = "cancelled"
    <3>1. At("cancelled").pc = "cancelled"
      BY AtType DEF PCs
    <3>. QED  BY <1>5, <3>1 DEF StopMonitoring, StopInv, TypeOK, TasksType, Tasks
  <2>2. \A t \in Tasks : task'[t].pc \in {task[t].pc, "cancelled"}
    <3>1. At("cancelled").pc = "cancelled"
      BY AtType DEF PCs
    <3>. QED  BY <1>5, <3>1 DEF StopMonitoring, StopInv, TypeOK, TasksType, Tasks
  <2>. QED
    BY <1>5, <2>1, <2>2
    DEF StopMonitoring, protection, ShuttingIsSafe, EmergencyUnderwayOrSafe, Cancelled
<1>6. ASSUME NEW st \in SUBSET Conditions,
             UpdateSystemState(st)
      PROVE  (ShuttingIsSafe /\ EmergencyUnderwayOrSafe)'
  BY <1>6 DEF UpdateSystemState, protection, ShuttingIsSafe, EmergencyUnderwayOrSafe,
       Underway, Cancelled
<1>7. CASE CheckInterlocks
  BY <1>7 DEF CheckInterlocks, protection, ShuttingIsSafe, EmergencyUnderwayOrSafe,
       Underway, Cancelled
<1>8. ASSUME NEW i \in Interlocks,
             ClearInterlockOverride(i)
      PROVE  (ShuttingIsSafe /\ EmergencyUnderwayOrSafe)'
  BY <1>8 DEF ClearInterlockOverride, protection, ShuttingIsSafe,
       EmergencyUnderwayOrSafe, Underway, Cancelled
<1>9. ASSUME NEW r \in Requests,
             TriggerEmergencyStop(r)
      PROVE  (ShuttingIsSafe /\ EmergencyUnderwayOrSafe)'
  BY <1>9, StopBegins DEF TriggerEmergencyStop, Tasks
<1>10. ASSUME NEW r \in Requests,
             StopGranted(r)
      PROVE  (ShuttingIsSafe /\ EmergencyUnderwayOrSafe)'
  <2>1. r \in Tasks /\ At("idle").pc = "idle"
    BY AtType DEF PCs, Tasks
  <2>2. CASE Return(r) /\ UNCHANGED protection
    BY <1>10, <2>1, <2>2, BystanderMoves DEF StopGranted, Granted, Return, Underway,
         protection
  <2>3. CASE EmergencyStop(r, "idle", FALSE, engaged)
    BY <2>1, <2>3, StopBegins
  <2>. QED  BY <1>10, <2>2, <2>3 DEF StopGranted
<1>11. ASSUME NEW r \in Requests, NEW op \in Operations,
     NEW i \in Overridable \cup {"none"},
                  op = "override" => i \in Overridable,
             BeginWithPin(r, op, i)
      PROVE  (ShuttingIsSafe /\ EmergencyUnderwayOrSafe)'
  <2>1. r \in Tasks /\ Place("authorizing", op, i, {}, "idle", FALSE).pc = "authorizing"
    BY DEF Tasks, Place
  <2>. QED  BY <1>11, <2>1, BystanderMoves DEF BeginWithPin, Underway, protection
<1>12. ASSUME NEW r \in Requests,
             Denied(r)
      PROVE  (ShuttingIsSafe /\ EmergencyUnderwayOrSafe)'
  <2>1. r \in Tasks /\ At("idle").pc = "idle"
    BY AtType DEF PCs, Tasks
  <2>2. task[r].pc = "authorizing" /\ task' = [task EXCEPT ![r] = At("idle")]
    BY <1>12 DEF Denied, Granted, Return
  <2>. QED  BY <1>12, <2>1, <2>2, BystanderMoves DEF Denied, Underway, protection
<1>13. ASSUME NEW r \in Requests,
             ResetGranted(r)
      PROVE  (ShuttingIsSafe /\ EmergencyUnderwayOrSafe)'
  <2>1. r \in Tasks /\ At("idle").pc = "idle"
    BY AtType DEF PCs, Tasks
  <2>2. task[r].pc = "authorizing" /\ task' = [task EXCEPT ![r] = At("idle")]
    BY <1>13 DEF ResetGranted, Granted, Return
  <2>. QED  BY <1>13, <2>1, <2>2, BystanderMoves DEF ResetGranted, Underway, protection
<1>14. ASSUME NEW r \in Requests,
             OverrideGranted(r)
      PROVE  (ShuttingIsSafe /\ EmergencyUnderwayOrSafe)'
  <2>1. r \in Tasks /\ At("idle").pc = "idle"
    BY AtType DEF PCs, Tasks
  <2>2. task[r].pc = "authorizing" /\ task' = [task EXCEPT ![r] = At("idle")]
    BY <1>14 DEF OverrideGranted, Granted, Return
  <2>. QED  BY <1>14, <2>1, <2>2, BystanderMoves DEF OverrideGranted, Underway, protection
<1>15. ASSUME NEW r \in Requests, NEW m \in {"maintenance", "diagnostic"},
             EnterModeGranted(r, m)
      PROVE  (ShuttingIsSafe /\ EmergencyUnderwayOrSafe)'
  <2>1. r \in Tasks /\ At("idle").pc = "idle"
    BY AtType DEF PCs, Tasks
  <2>2. task[r].pc = "authorizing" /\ task' = [task EXCEPT ![r] = At("idle")]
    BY <1>15 DEF EnterModeGranted, Granted, Return
  <2>. QED  BY <1>15, <2>1, <2>2, BystanderMoves DEF EnterModeGranted, Underway, protection
<1>16. ASSUME NEW r \in Requests, NEW op \in Operations,
             ExitModeGranted(r, op)
      PROVE  (ShuttingIsSafe /\ EmergencyUnderwayOrSafe)'
  <2>1. r \in Tasks /\ At("idle").pc = "idle"
    BY AtType DEF PCs, Tasks
  <2>2. task[r].pc = "authorizing" /\ task' = [task EXCEPT ![r] = At("idle")]
    BY <1>16 DEF ExitModeGranted, Granted, Return
  <2>. QED  BY <1>16, <2>1, <2>2, BystanderMoves DEF ExitModeGranted, Underway, protection
<1>17. CASE ResetEmergencyStop
  BY <1>17 DEF ResetEmergencyStop, protection, ShuttingIsSafe, EmergencyUnderwayOrSafe,
       Underway, Cancelled
<1>18. CASE PerformHealthCheck
  BY <1>18, SafeSuffices DEF PerformHealthCheck, ShuttingIsSafe, EmergencyUnderwayOrSafe,
       Underway, Cancelled
<1>19. CASE Tick
  BY <1>19 DEF Tick, protection, ShuttingIsSafe, EmergencyUnderwayOrSafe, Underway,
       Cancelled
<1>20. CASE UNCHANGED vars
  BY <1>20 DEF ShuttingIsSafe, EmergencyUnderwayOrSafe, Underway, Cancelled, vars,
       protection
<1>. QED
  BY NextCases, <1>1, <1>2, <1>3, <1>4, <1>5, <1>6, <1>7, <1>8, <1>9, <1>10, <1>11,
       <1>12, <1>13, <1>14, <1>15, <1>16, <1>17, <1>18, <1>19, <1>20

\* No emergency stop is left half done, for all values of the constants.
THEOREM StopNeverAbandoned == Spec => []EmergencyUnderwayOrSafe
<1>1. Init => StopInv
  <2>1. At("idle").pc = "idle" /\ At("asleep").pc = "asleep"
    BY AtType DEF PCs
  <2>. QED  BY <2>1, InitType DEF StopInv, Init, ShuttingIsSafe, EmergencyUnderwayOrSafe
<1>2. StopInv /\ [Next]_vars => StopInv'
  BY StopStep, ProtectionStep, OverridesStep, ModesStep, TimersStep, TasksStep
  DEF StopInv, TypeOK
<1>3. StopInv => EmergencyUnderwayOrSafe
  BY DEF StopInv
<1>. QED  BY <1>1, <1>2, <1>3, PTL DEF Spec

-----------------------------------------------------------------------------
(* Overrides.                                                              *)

\* Every step keeps the two records of the overrides together.
LEMMA TrackedStep == TypeOK /\ OverridesTracked /\ [Next]_vars => OverridesTracked'
<1> SUFFICES ASSUME TypeOK, OverridesTracked, [Next]_vars PROVE OverridesTracked'
  OBVIOUS
<1> USE DEF OverridesTracked, TypeOK, OverridesType
<1>1. CASE MonitorIteration
  BY <1>1 DEF MonitorIteration, overrides, DropExpired, Overridden
<1>2. CASE WatchdogIteration
  BY <1>2 DEF WatchdogIteration, overrides
<1>3. ASSUME NEW t \in Loops,
             LoopEnds(t)
      PROVE  OverridesTracked'
  BY <1>3 DEF LoopEnds, overrides
<1>4. ASSUME NEW t \in Tasks, NEW s \in task[t].todo,
             ServiceStopped(t, s)
      PROVE  OverridesTracked'
  BY <1>4 DEF ServiceStopped, overrides
<1>5. CASE StopMonitoring
  BY <1>5 DEF StopMonitoring, overrides
<1>6. ASSUME NEW st \in SUBSET Conditions,
             UpdateSystemState(st)
      PROVE  OverridesTracked'
  BY <1>6 DEF UpdateSystemState, CheckSafetyInterlocks, DropExpired, Overridden
<1>7. CASE CheckInterlocks
  BY <1>7 DEF CheckInterlocks, CheckSafetyInterlocks, DropExpired, Overridden
<1>8. ASSUME NEW i \in Interlocks,
             ClearInterlockOverride(i)
      PROVE  OverridesTracked'
  BY <1>8 DEF ClearInterlockOverride, ClearOverrides, Cleared
<1>9. ASSUME NEW r \in Requests,
             TriggerEmergencyStop(r)
      PROVE  OverridesTracked'
  BY <1>9 DEF TriggerEmergencyStop, overrides
<1>10. ASSUME NEW r \in Requests,
             StopGranted(r)
      PROVE  OverridesTracked'
  BY <1>10 DEF StopGranted, overrides
<1>11. ASSUME NEW r \in Requests, NEW op \in Operations,
     NEW i \in Overridable \cup {"none"},
                  op = "override" => i \in Overridable,
             BeginWithPin(r, op, i)
      PROVE  OverridesTracked'
  BY <1>11 DEF BeginWithPin, overrides
<1>12. ASSUME NEW r \in Requests,
             Denied(r)
      PROVE  OverridesTracked'
  BY <1>12 DEF Denied, overrides
<1>13. ASSUME NEW r \in Requests,
             ResetGranted(r)
      PROVE  OverridesTracked'
  BY <1>13 DEF ResetGranted, overrides
<1>14. ASSUME NEW r \in Requests,
             OverrideGranted(r)
      PROVE  OverridesTracked'
  BY <1>14 DEF OverrideGranted
<1>15. ASSUME NEW r \in Requests, NEW m \in {"maintenance", "diagnostic"},
             EnterModeGranted(r, m)
      PROVE  OverridesTracked'
  BY <1>15 DEF EnterModeGranted, overrides
<1>16. ASSUME NEW r \in Requests, NEW op \in Operations,
             ExitModeGranted(r, op)
      PROVE  OverridesTracked'
  BY <1>16 DEF ExitModeGranted, LeaveMode, ClearOverrides, Cleared
<1>17. CASE ResetEmergencyStop
  BY <1>17 DEF ResetEmergencyStop, overrides
<1>18. CASE PerformHealthCheck
  BY <1>18 DEF PerformHealthCheck, CheckModeExpiration, DropExpired, Overridden, LeaveMode,
       ClearOverrides, Cleared, overrides
<1>19. CASE Tick
  BY <1>19 DEF Tick, Down
<1>20. CASE UNCHANGED vars
  BY <1>20 DEF vars, overrides
<1>. QED
  BY NextCases, <1>1, <1>2, <1>3, <1>4, <1>5, <1>6, <1>7, <1>8, <1>9, <1>10, <1>11,
       <1>12, <1>13, <1>14, <1>15, <1>16, <1>17, <1>18, <1>19, <1>20

\* LeaveMode finds every override through _active_overrides.
LEMMA LeaveModeClears ==
    ASSUME TypeOK, OverridesTracked,
           NEW ovr \in {override, DropExpired}, LeaveMode(ovr)
    PROVE  \A i \in Interlocks : override'[i] = None
  BY DEF LeaveMode, ClearOverrides, Cleared, DropExpired, Overridden, OverridesTracked

\* The tracking of overrides is exact, for all values of the constants.
THEOREM OverridesAlwaysTracked == Spec => []OverridesTracked
<1>1. Init => OverridesTracked
  BY DEF Init, OverridesTracked
<1>. QED  BY <1>1, TrackedStep, TypeCorrect, PTL DEF Spec

\* No mode ends with an override left in force, for all values of the constants.
THEOREM ModesEndClean == Spec => LeavingModeClearsOverrides
<1> DEFINE Clean == mode # "normal" /\ mode' = "normal" =>
                      \A i \in Interlocks : override'[i] = None
<1>1. ASSUME TypeOK, OverridesTracked, [Next]_vars PROVE [Clean]_vars
  <2> SUFFICES ASSUME Next, mode' # mode PROVE \A i \in Interlocks : override'[i] = None
                                               \/ mode' # "normal"
    BY <1>1
  <2>1. ASSUME NEW r \in Requests, NEW op \in Operations, ExitModeGranted(r, op)
        PROVE  \A i \in Interlocks : override'[i] = None
    BY <1>1, <2>1, LeaveModeClears DEF ExitModeGranted
  <2>2. ASSUME PerformHealthCheck
        PROVE  \A i \in Interlocks : override'[i] = None
    BY <1>1, <2>2, LeaveModeClears DEF PerformHealthCheck, CheckModeExpiration, modes
  <2>3. ASSUME NEW r \in Requests, NEW m \in {"maintenance", "diagnostic"},
       EnterModeGranted(r, m)
        PROVE  mode' # "normal"
    BY <2>3 DEF EnterModeGranted
  <2>4. MonitorIteration \/ WatchdogIteration \/ StopMonitoring \/ CheckInterlocks
          \/ ResetEmergencyStop \/ Tick => FALSE
    BY DEF MonitorIteration, WatchdogIteration, StopMonitoring, CheckInterlocks,
           ResetEmergencyStop, Tick, modes
  <2>5. /\ \A t \in Loops : ~LoopEnds(t)
        /\ \A t \in Tasks : \A u \in task[t].todo : ~ServiceStopped(t, u)
        /\ \A st \in SUBSET Conditions : ~UpdateSystemState(st)
        /\ \A i \in Interlocks : ~ClearInterlockOverride(i)
    BY DEF LoopEnds, ServiceStopped, UpdateSystemState, ClearInterlockOverride, modes
  <2>6. \A r \in Requests : /\ ~TriggerEmergencyStop(r) /\ ~StopGranted(r) /\ ~Denied(r)
                            /\ ~ResetGranted(r) /\ ~OverrideGranted(r)
                            /\ \A op, i : ~BeginWithPin(r, op, i)
    BY DEF TriggerEmergencyStop, StopGranted, Denied, ResetGranted, OverrideGranted,
           BeginWithPin, modes
  <2>. QED  BY NextCases, <2>1, <2>2, <2>3, <2>4, <2>5, <2>6
<1>2. Spec => [][Clean]_vars
  BY <1>1, TypeCorrect, OverridesAlwaysTracked, PTL DEF Spec
<1>. QED  BY <1>2 DEF LeavingModeClearsOverrides

-----------------------------------------------------------------------------
(* Every safety-critical service is told to stop.                          *)

\* The services not yet told are still before task t.
HasTheRest(t) == Underway(t) /\ Services \ told \subseteq task[t].todo

\* What makes it inductive: in the safe state the services have been told, or
\* one task will call all that have not, however many stops overlap.
BeingTold ==
    in_safe_state => Cancelled \/ told = Services \/ \E t \in Tasks : HasTheRest(t)

\* A stop or a safe-state entry that begins has every service before it.
LEMMA BeginningHasAll ==
    ASSUME TypeOK, RegistryAttached,
           NEW t \in Tasks, NEW then \in {"idle", "asleep", "ended"}, NEW again \in BOOLEAN,
           \/ task' = [task EXCEPT ![t] = Stopping(then, again)]
           \/ task' = [task EXCEPT ![t] = Shutting(then, again)]
           \/ task' = [task EXCEPT ![t] = Nested(then, again)]
    PROVE  BeingTold'
<1>1. task'[t] \in {Stopping(then, again), Shutting(then, again), Nested(then, again)}
  BY DEF TypeOK, TasksType
<1>2. task'[t].todo = Services /\ task'[t].pc \in {"stopping", "shutting", "nested"}
  BY <1>1 DEF Stopping, Shutting, Nested, Calling, Place, Critical
<1>3. HasTheRest(t)'
  BY <1>2 DEF HasTheRest, Underway
<1>. QED  BY <1>3 DEF BeingTold

\* emergency_stop, whose loop starts anew, and _enter_safe_state.
LEMMA StopTellsAll ==
    ASSUME TypeOK, RegistryAttached, NEW t \in Tasks,
           NEW then \in {"idle", "asleep", "ended"}, NEW again \in BOOLEAN, NEW E,
           \/ EmergencyStop(t, then, again, E) /\ told' = {}
           \/ EnterSafeState(t, then)
    PROVE  BeingTold'
<1>1. Critical = Services
  BY DEF Critical
<1>2. CASE Critical = {}
  <2>1. told' = Services
    BY <1>1, <1>2 DEF EnterSafeState, TypeOK, ProtectionType
  <2>. QED  BY <2>1 DEF BeingTold
<1>3. CASE Critical # {}
  <2>1. \/ task' = [task EXCEPT ![t] = Stopping(then, again)]
        \/ task' = [task EXCEPT ![t] = Shutting(then, FALSE)]
        \/ task' = [task EXCEPT ![t] = Nested(then, FALSE)]
    BY <1>3 DEF EmergencyStop, EnterSafeState, ShutDownServices
  <2>. QED  BY <2>1, BeginningHasAll
<1>. QED  BY <1>2, <1>3

\* A task that is not calling services, and is not the cancelled monitor, moves.
LEMMA BystanderTells ==
    ASSUME TypeOK, BeingTold, NEW t \in Tasks, NEW p,
           ~Underway(t), task[t].pc # "cancelled", task' = [task EXCEPT ![t] = p],
           told' = told, in_safe_state' = in_safe_state
    PROVE  BeingTold'
<1>1. \A u \in Tasks \ {t} : task'[u] = task[u]
  BY DEF TypeOK, TasksType
<1>2. ASSUME Cancelled PROVE Cancelled'
  BY <1>1, <1>2 DEF Cancelled, Tasks
<1>3. ASSUME NEW u \in Tasks, HasTheRest(u) PROVE HasTheRest(u)'
  BY <1>1, <1>3 DEF HasTheRest, Underway
<1>. QED  BY <1>2, <1>3 DEF BeingTold

\* The tasks and what has been told are as they were.
LEMMA RestTells ==
    ASSUME BeingTold, UNCHANGED <<task, told, in_safe_state>>
    PROVE  BeingTold'
  BY DEF BeingTold, Cancelled, HasTheRest, Underway

\* One service has been told, by the task with the rest or by another.
LEMMA ServiceTells ==
    ASSUME TypeOK, BeingTold, RegistryAttached,
           NEW t \in Tasks, NEW s \in task[t].todo, ServiceStopped(t, s)
    PROVE  BeingTold'
<1>1. /\ task[t].todo \subseteq Services /\ task[t].then \in {"idle", "asleep", "ended"}
      /\ task[t].again \in BOOLEAN /\ Critical = Services /\ Critical # {}
      /\ told \subseteq Services /\ emergency \in BOOLEAN /\ task[t].pc # "cancelled"
      /\ DOMAIN task = Tasks
  BY DEF TypeOK, TasksType, TaskPlaces, ProtectionType, Critical, ServiceStopped, Underway
<1>2. CASE task[t].todo # {s}
  <2>1. /\ task'[t] = Calling(task[t].pc, task[t].todo \ {s}, task[t].then, task[t].again)
        /\ \A u \in Tasks \ {t} : task'[u] = task[u]
        /\ told' = told \cup {s} /\ in_safe_state' = in_safe_state
    BY <1>1, <1>2 DEF ServiceStopped
  <2>2. task'[t].pc = task[t].pc /\ task'[t].todo = task[t].todo \ {s}
    BY <2>1 DEF Calling, Place
  <2>3. ASSUME NEW u \in Tasks, HasTheRest(u) PROVE HasTheRest(u)'
    BY <2>1, <2>2, <2>3 DEF HasTheRest, Underway
  <2>4. Cancelled => Cancelled'
    BY <2>1, <2>2 DEF Cancelled, Tasks
  <2>5. told = Services => told' = Services
    BY <1>1, <2>1
  <2>. QED  BY <2>1, <2>3, <2>4, <2>5 DEF BeingTold
<1>3. CASE task[t].todo = {s}
  <2>1. LastServiceStopped(t) /\ told' = IF emergency' /\ ~emergency THEN {} ELSE told \cup {s}
    BY <1>3 DEF ServiceStopped
  <2>2. CASE task[t].pc = "stopping" /\ ~in_safe_state
    <3>1. \/ task' = [task EXCEPT ![t] = Shutting(task[t].then, task[t].again)]
          \/ task' = [task EXCEPT ![t] = Nested(task[t].then, task[t].again)]
      BY <2>1, <2>2 DEF LastServiceStopped, ShutDownServices
    <3>. QED  BY <1>1, <3>1, BeginningHasAll
  <2>3. CASE task[t].pc = "nested"
    <3>1. task' = [task EXCEPT ![t] = Shutting(task[t].then, task[t].again)]
      BY <2>1, <2>3 DEF LastServiceStopped
    <3>. QED  BY <1>1, <3>1, BeginningHasAll
  <2> DEFINE Over == ~(task[t].pc = "stopping" /\ ~in_safe_state) /\ task[t].pc # "nested"
  <2>4. CASE Over /\ task[t].again /\ ~emergency
    <3>1. EmergencyStop(t, task[t].then, FALSE, Interlocks)
      BY <2>1, <2>4 DEF LastServiceStopped
    <3>2. told' = {}
      BY <2>1, <2>4, <3>1 DEF EmergencyStop
    <3>. QED  BY <1>1, <3>1, <3>2, StopTellsAll
  <2>5. CASE Over /\ ~(task[t].again /\ ~emergency)
    <3>1. /\ task' = [task EXCEPT ![t] = At(task[t].then)]
          /\ UNCHANGED <<in_safe_state, emergency>>
      BY <2>1, <2>5 DEF LastServiceStopped
    <3>2. told' = told \cup {s} /\ \A u \in Tasks \ {t} : task'[u] = task[u]
      BY <1>1, <2>1, <3>1
    <3>3. HasTheRest(t) => told' = Services
      BY <1>1, <1>3, <3>2 DEF HasTheRest
    <3>4. ASSUME NEW u \in Tasks \ {t}, HasTheRest(u) PROVE HasTheRest(u)'
      BY <3>2, <3>4 DEF HasTheRest, Underway
    <3>5. Cancelled => Cancelled'
      BY <1>1, <3>2 DEF Cancelled, Tasks
    <3>6. told = Services => told' = Services
      BY <1>1, <3>2
    <3>. QED  BY <3>1, <3>3, <3>4, <3>5, <3>6 DEF BeingTold
  <2>. QED  BY <2>2, <2>3, <2>4, <2>5
<1>. QED  BY <1>2, <1>3

\* Every step keeps it.
LEMMA TellingStep ==
    ASSUME TypeOK, BeingTold, RegistryAttached, [Next]_vars
    PROVE  BeingTold'
<1>1. CASE MonitorIteration
  <2>1. CASE EnterSafeState("monitor", "ended")
    BY <2>1, StopTellsAll DEF Tasks
  <2>2. ASSUME NEW again \in BOOLEAN, told' = {},
               EmergencyStop("monitor", "asleep", again, Violated(state))
        PROVE  BeingTold'
    BY <2>2, StopTellsAll DEF Tasks
  <2>3. CASE UNCHANGED <<task, told, in_safe_state>>
    BY <2>3, RestTells
  <2>. QED  BY <1>1, <2>1, <2>2, <2>3 DEF MonitorIteration
<1>2. CASE WatchdogIteration
  <2>1. CASE EnterSafeState("watchdog", "ended")
    BY <2>1, StopTellsAll DEF Tasks
  <2>2. CASE UNCHANGED <<task, protection>>
    BY <2>2, RestTells DEF protection
  <2>. QED  BY <1>2, <2>1, <2>2 DEF WatchdogIteration
<1>3. ASSUME NEW t \in Loops, LoopEnds(t) PROVE BeingTold'
  BY <1>3, BystanderTells DEF LoopEnds, Awake, Underway, protection, Tasks
<1>4. ASSUME NEW t \in Tasks, NEW s \in task[t].todo, ServiceStopped(t, s) PROVE BeingTold'
  BY <1>4, ServiceTells
<1>5. CASE StopMonitoring
  <2>1. task'["monitor"].pc = "cancelled"
    <3>1. At("cancelled").pc = "cancelled"
      BY AtType DEF PCs
    <3>. QED  BY <1>5, <3>1 DEF StopMonitoring, TypeOK, TasksType, Tasks
  <2>. QED  BY <2>1 DEF BeingTold, Cancelled
<1>6. ASSUME \/ \E st \in SUBSET Conditions : UpdateSystemState(st)
             \/ CheckInterlocks \/ ResetEmergencyStop \/ Tick
             \/ \E i \in Interlocks : ClearInterlockOverride(i)
             \/ UNCHANGED vars
      PROVE  BeingTold'
  BY <1>6, RestTells DEF UpdateSystemState, CheckInterlocks, ResetEmergencyStop, Tick,
     ClearInterlockOverride, vars, protection
<1>7. ASSUME NEW r \in Requests, TriggerEmergencyStop(r) PROVE BeingTold'
  BY <1>7, StopTellsAll DEF TriggerEmergencyStop, Tasks
<1>8. ASSUME NEW r \in Requests, StopGranted(r) PROVE BeingTold'
  <2>1. CASE Return(r) /\ UNCHANGED protection
    BY <1>8, <2>1, BystanderTells DEF StopGranted, Granted, Return, Underway, protection, Tasks
  <2>2. CASE EmergencyStop(r, "idle", FALSE, engaged) /\ told' = {}
    BY <2>2, StopTellsAll DEF Tasks
  <2>. QED  BY <1>8, <2>1, <2>2 DEF StopGranted
<1>9. ASSUME NEW r \in Requests, NEW op \in Operations, NEW i, BeginWithPin(r, op, i)
      PROVE  BeingTold'
  BY <1>9, BystanderTells DEF BeginWithPin, Underway, protection, Tasks
<1>10. ASSUME NEW r \in Requests,
              \/ Denied(r) \/ ResetGranted(r) \/ OverrideGranted(r)
              \/ \E m \in {"maintenance", "diagnostic"} : EnterModeGranted(r, m)
              \/ \E op \in Operations : ExitModeGranted(r, op)
       PROVE  BeingTold'
  <2>1. /\ task[r].pc = "authorizing" /\ task' = [task EXCEPT ![r] = At("idle")]
        /\ UNCHANGED <<told, in_safe_state>>
    BY <1>10 DEF Denied, ResetGranted, OverrideGranted, EnterModeGranted, ExitModeGranted,
       Granted, Return, protection
  <2>. QED  BY <2>1, BystanderTells DEF Underway, Tasks
<1>11. ~PerformHealthCheck
  BY DEF PerformHealthCheck
<1>. QED
  BY NextCases, <1>1, <1>2, <1>3, <1>4, <1>5, <1>6, <1>7, <1>8, <1>9, <1>10, <1>11

\* With the registry attached, every service is told to stop before the stops and
\* safe-state entries are over, for all values of the other constants.
THEOREM ServicesAlwaysTold ==
    ASSUME RegistryAttached
    PROVE  Spec => []AllServicesTold
<1>1. Init => BeingTold
  BY DEF Init, BeingTold
<1>2. TypeOK /\ BeingTold /\ [Next]_vars => BeingTold'
  BY TellingStep
<1>3. BeingTold => AllServicesTold
  BY DEF BeingTold, AllServicesTold, HasTheRest
<1>. QED  BY <1>1, <1>2, <1>3, TypeCorrect, PTL DEF Spec

=============================================================================
