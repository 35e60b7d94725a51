----------------------- MODULE CANMessageInjectorProofs -----------------------
(***************************************************************************)
(* For every set of jobs, interfaces and emergency_stop calls: a task that *)
(* is still alive is registered, and nothing is sent any more once an      *)
(* emergency_stop or stop has returned.                                    *)
(***************************************************************************)
EXTENDS CANMessageInjector, TLAPS

\* A call that waits knows every registered task, and no injection is
\* accepted while it waits.
WaitsForAll ==
    \A c \in Calls : call[c].pc = "waiting" => ~Permitted /\ active \subseteq call[c].waits

\* After a call has returned no injection is accepted and no bus is open.
AllClosed ==
    \A c \in Calls : Returned(c) => ~running /\ \A j \in Jobs : job[j].bus = "closed"

IInv == TypeOK /\ LiveTasksTracked /\ WaitsForAll /\ AllClosed

LEMMA JobTypes ==
    ASSUME NEW pc \in {"idle", "burst", "created", "asleep"},
           NEW bus \in Interfaces \cup {"closed"},
           NEW left \in 0..MaxCount, NEW failed \in 0..MaxFailures, NEW timed \in BOOLEAN
    PROVE  Job(pc, bus, left, failed, timed) \in JobType
BY DEF Job, JobType

LEMMA IdleType == Idle \in JobType
<1>1. 0 \in 0..MaxCount /\ 0 \in 0..MaxFailures
  BY InjectorAssumption
<1> QED
  BY <1>1, JobTypes DEF Idle

LEMMA InitInv == Init => IInv
<1> SUFFICES ASSUME Init PROVE IInv
  OBVIOUS
<1>1. \A c \in Calls : call[c] = [pc |-> "idle", waits |-> {}]
  BY DEF Init
<1>2. \A j \in Jobs : job[j].pc = "idle"
  BY DEF Init, Idle, Job
<1>3. TypeOK
  BY IdleType DEF Init, TypeOK
<1> QED
  BY <1>1, <1>2, <1>3 DEF IInv, LiveTasksTracked, WaitsForAll, AllClosed, Alive, Returned

-----------------------------------------------------------------------------
(* A burst.                                                                *)

LEMMA BurstStep ==
    ASSUME TypeOK, NEW j \in Jobs, NEW bus \in Interfaces \cup {"closed"},
           NEW left \in 0..MaxCount, NEW failed \in 0..MaxFailures,
           Burst(j, bus, left, failed)
    PROVE  /\ sent' \in BOOLEAN
           /\ job' \in [Jobs -> JobType]
           /\ \A k \in Jobs : k # j => job'[k] = job[k]
           /\ job'[j].pc \in {"idle", "burst"}
           /\ job'[j].bus \in {"closed", bus}
           /\ bus = "closed" => ~sent'
<1>1. PICK failures \in 0..left :
        LET through == failures < left
            rest == left - failures - 1
            aborted == failed + failures > MaxFailures
        IN /\ through => bus # "closed"
           /\ sent' = (through /\ ~aborted)
           /\ job' = [job EXCEPT ![j] =
                        IF aborted \/ ~through \/ rest = 0
                        THEN Idle
                        ELSE Job("burst", bus, rest, failed + failures, FALSE)]
  BY DEF Burst
<1> DEFINE through == failures < left
           rest == left - failures - 1
           aborted == failed + failures > MaxFailures
           over == aborted \/ ~through \/ rest = 0
           next == IF over THEN Idle ELSE Job("burst", bus, rest, failed + failures, FALSE)
<1>2. job' = [job EXCEPT ![j] = next] /\ sent' = (through /\ ~aborted) /\ (through => bus # "closed")
  BY <1>1
<1>3. ~over => rest \in 0..MaxCount /\ failed + failures \in 0..MaxFailures
  BY InjectorAssumption
<1>4. next \in JobType
  BY <1>3, IdleType, JobTypes
<1>5. next.pc \in {"idle", "burst"} /\ next.bus \in {"closed", bus}
  BY DEF Idle, Job
<1>6. job \in [Jobs -> JobType]
  BY DEF TypeOK
<1> HIDE DEF next
<1> QED
  BY <1>2, <1>4, <1>5, <1>6

-----------------------------------------------------------------------------
(* The steps of the injections.                                            *)

\* An injection step leaves the calls alone, closes no bus on its own, and
\* unless injections are permitted it opens none and adds no task.
LEMMA InjectionFrame ==
    ASSUME IInv, TypeOK', LiveTasksTracked',
           UNCHANGED <<running, emergency, call>>,
           Permitted \/ (/\ active' \subseteq active
                         /\ \A j \in Jobs : job'[j].bus \in {"closed", job[j].bus})
    PROVE  IInv'
<1>1. WaitsForAll'
  BY DEF IInv, WaitsForAll, Permitted
<1>2. AllClosed'
  BY DEF IInv, AllClosed, Permitted, Returned
<1> QED
  BY <1>1, <1>2 DEF IInv

LEMMA InjectSingleStep == ASSUME IInv, NEW i \in Interfaces, InjectSingle(i) PROVE IInv'
<1>1. TypeOK'
  BY DEF IInv, TypeOK, InjectSingle, UseBus
<1>2. LiveTasksTracked'
  BY DEF IInv, LiveTasksTracked, Alive, InjectSingle
<1> QED
  BY <1>1, <1>2, InjectionFrame DEF InjectSingle, UseBus

LEMMA InjectBurstStep ==
    ASSUME IInv, NEW j \in Jobs, NEW i \in Interfaces, NEW count \in 1..MaxCount,
           InjectBurst(j, i, count)
    PROVE  IInv'
<1>1. count \in 0..MaxCount /\ 0 \in 0..MaxFailures /\ i \in Interfaces \cup {"closed"}
  BY InjectorAssumption
<1>2. /\ sent' \in BOOLEAN
      /\ job' \in [Jobs -> JobType]
      /\ \A k \in Jobs : k # j => job'[k] = job[k]
      /\ job'[j].pc \in {"idle", "burst"}
  BY <1>1, BurstStep DEF IInv, InjectBurst
<1>3. TypeOK'
  BY <1>2 DEF IInv, TypeOK, InjectBurst, UseBus
<1>4. LiveTasksTracked'
  BY <1>2 DEF IInv, LiveTasksTracked, Alive, InjectBurst
<1> QED
  BY <1>3, <1>4, InjectionFrame DEF InjectBurst, UseBus

LEMMA ContinueBurstStep == ASSUME IInv, NEW j \in Jobs, ContinueBurst(j) PROVE IInv'
<1>1. /\ job[j].bus \in Interfaces \cup {"closed"}
      /\ job[j].left \in 0..MaxCount /\ job[j].failed \in 0..MaxFailures
  BY DEF IInv, TypeOK, JobType
<1>2. /\ sent' \in BOOLEAN
      /\ job' \in [Jobs -> JobType]
      /\ \A k \in Jobs : k # j => job'[k] = job[k]
      /\ job'[j].pc \in {"idle", "burst"}
      /\ job'[j].bus \in {"closed", job[j].bus}
  BY <1>1, BurstStep DEF IInv, ContinueBurst
<1>3. TypeOK'
  BY <1>2 DEF IInv, TypeOK, ContinueBurst
<1>4. LiveTasksTracked'
  BY <1>2 DEF IInv, LiveTasksTracked, Alive, ContinueBurst
<1>5. \A k \in Jobs : job'[k].bus \in {"closed", job[k].bus}
  BY <1>2
<1> QED
  BY <1>3, <1>4, <1>5, InjectionFrame DEF ContinueBurst

LEMMA InjectPeriodicStep ==
    ASSUME IInv, NEW j \in Jobs, NEW i \in Interfaces, NEW timed \in BOOLEAN,
           InjectPeriodic(j, i, timed)
    PROVE  IInv'
<1>1. Job("created", i, 0, 0, timed) \in JobType
  BY InjectorAssumption, JobTypes
<1>2. TypeOK'
  BY <1>1 DEF IInv, TypeOK, InjectPeriodic, UseBus
<1>3. LiveTasksTracked'
  BY DEF IInv, TypeOK, LiveTasksTracked, Alive, InjectPeriodic
<1> QED
  BY <1>2, <1>3, InjectionFrame DEF InjectPeriodic, UseBus

LEMMA PeriodicSenderStep == ASSUME IInv, NEW j \in Jobs, PeriodicSender(j) PROVE IInv'
<1>1. job \in [Jobs -> JobType] /\ j \in active
  BY DEF IInv, TypeOK, LiveTasksTracked, PeriodicSender
<1>2. CASE job[j].cancel \/ DurationOver(j)
  <2>1. job' = [job EXCEPT ![j] = Idle] /\ active \ {j} \subseteq active' /\ active' \subseteq active
    BY <1>2 DEF PeriodicSender
  <2>2. TypeOK'
    BY <1>1, <1>2, <2>1, IdleType DEF IInv, TypeOK, PeriodicSender
  <2>3. LiveTasksTracked'
    BY <1>1, <2>1 DEF IInv, LiveTasksTracked, Alive, Idle, Job
  <2>4. \A k \in Jobs : job'[k].bus \in {"closed", job[k].bus}
    BY <1>1, <2>1 DEF Idle, Job
  <2> QED
    BY <2>1, <2>2, <2>3, <2>4, InjectionFrame DEF PeriodicSender
<1>3. CASE ~(job[j].cancel \/ DurationOver(j))
  <2>1. /\ job' = [job EXCEPT ![j].pc = "asleep"] /\ active' = active
        /\ sent' \in {FALSE, job[j].bus # "closed"}
    BY <1>3 DEF PeriodicSender
  <2>2. \A k \in Jobs : /\ job'[k] \in JobType /\ job'[k].bus = job[k].bus
                        /\ job'[k].pc = IF k = j THEN "asleep" ELSE job[k].pc
    BY <1>1, <2>1 DEF JobType
  <2>3. job' \in [Jobs -> JobType]
    BY <1>1, <2>1, <2>2
  <2>4. TypeOK'
    BY <2>1, <2>3 DEF IInv, TypeOK, PeriodicSender
  <2>5. LiveTasksTracked'
    BY <1>1, <2>1, <2>2 DEF IInv, LiveTasksTracked, Alive
  <2> QED
    BY <2>1, <2>2, <2>4, <2>5, InjectionFrame DEF PeriodicSender
<1> QED
  BY <1>2, <1>3

\* Setting the cancel or the over flag of some jobs changes nothing else.
LEMMA FlagStep ==
    ASSUME IInv, job' \in [Jobs -> JobType],
           \A j \in Jobs : job'[j].pc = job[j].pc /\ job'[j].bus = job[j].bus,
           sent' = FALSE,
           UNCHANGED <<running, emergency, buses, active, call>>
    PROVE  IInv'
<1>1. TypeOK'
  BY DEF IInv, TypeOK
<1>2. LiveTasksTracked'
  BY DEF IInv, LiveTasksTracked, Alive
<1> QED
  BY <1>1, <1>2, InjectionFrame

LEMMA CancelledJobs ==
    ASSUME TypeOK, NEW S
    PROVE  /\ Cancelled(S) \in [Jobs -> JobType]
           /\ \A j \in Jobs : Cancelled(S)[j].pc = job[j].pc /\ Cancelled(S)[j].bus = job[j].bus
BY DEF Cancelled, TypeOK, JobType

LEMMA FlagSteps ==
    ASSUME IInv,
           \/ \E j \in Jobs : CallerCancels(j) \/ DurationPasses(j)
           \/ \E S \in SUBSET Jobs : StopInjection(S)
    PROVE  IInv'
<1>1. job \in [Jobs -> JobType]
  BY DEF IInv, TypeOK
<1>2. CASE \E j \in Jobs : CallerCancels(j)
  <2>1. PICK j \in Jobs : job' = [job EXCEPT ![j].cancel = TRUE]
    BY <1>2 DEF CallerCancels
  <2>2. \A k \in Jobs : /\ job'[k] \in JobType
                        /\ job'[k].pc = job[k].pc /\ job'[k].bus = job[k].bus
    BY <1>1, <2>1 DEF JobType
  <2>3. job' \in [Jobs -> JobType]
    BY <1>1, <2>1, <2>2
  <2> QED
    BY <1>2, <2>2, <2>3, FlagStep DEF CallerCancels
<1>3. CASE \E j \in Jobs : DurationPasses(j)
  <2>1. PICK j \in Jobs : job' = [job EXCEPT ![j].over = TRUE]
    BY <1>3 DEF DurationPasses
  <2>2. \A k \in Jobs : /\ job'[k] \in JobType
                        /\ job'[k].pc = job[k].pc /\ job'[k].bus = job[k].bus
    BY <1>1, <2>1 DEF JobType
  <2>3. job' \in [Jobs -> JobType]
    BY <1>1, <2>1, <2>2
  <2> QED
    BY <1>3, <2>2, <2>3, FlagStep DEF DurationPasses
<1>4. CASE \E S \in SUBSET Jobs : StopInjection(S)
  BY <1>4, CancelledJobs, FlagStep DEF StopInjection, IInv
<1> QED
  BY <1>2, <1>3, <1>4

-----------------------------------------------------------------------------
(* The steps of stop and emergency_stop.                                   *)

\* Closing everything when no task is alive.
LEMMA CloseAllStep ==
    ASSUME IInv, NEW c \in Calls, CloseAll(job), \A j \in Jobs : ~Alive(j),
           call' = [call EXCEPT ![c] = [pc |-> "returned", waits |-> {}]],
           running' = FALSE, emergency' \in BOOLEAN, sent' = FALSE
    PROVE  IInv'
<1>1. job \in [Jobs -> JobType]
  BY DEF IInv, TypeOK
<1>2. \A j \in Jobs : /\ job'[j] \in JobType /\ job'[j].bus = "closed"
                      /\ job'[j].pc = job[j].pc
  BY <1>1 DEF CloseAll, JobType
<1>3. TypeOK'
  BY <1>1, <1>2 DEF IInv, TypeOK, CloseAll
<1>4. LiveTasksTracked'
  BY <1>2 DEF LiveTasksTracked, Alive
<1>5. WaitsForAll'
  BY DEF WaitsForAll, Permitted, CloseAll
<1>6. AllClosed'
  BY <1>2 DEF AllClosed
<1> QED
  BY <1>3, <1>4, <1>5, <1>6 DEF IInv

LEMMA BeginStopStep ==
    ASSUME IInv, NEW c \in Calls, BeginStop(c), emergency' \in BOOLEAN, sent' = FALSE,
           emergency => emergency', c = "shutdown" \/ emergency'
    PROVE  IInv'
<1>1. CASE active = {}
  BY <1>1, CloseAllStep DEF IInv, LiveTasksTracked, BeginStop
<1>2. CASE active # {}
  <2>1. /\ call' = [call EXCEPT ![c] = [pc |-> "waiting", waits |-> active]]
        /\ job' = Cancelled(active) /\ buses' = buses /\ active' = active
        /\ running' = (running /\ c # "shutdown")
    BY <1>2 DEF BeginStop
  <2>2. TypeOK'
    BY <2>1, CancelledJobs DEF IInv, TypeOK
  <2>3. LiveTasksTracked'
    BY <2>1, CancelledJobs DEF IInv, LiveTasksTracked, Alive
  <2>4. WaitsForAll'
    BY <2>1 DEF IInv, TypeOK, WaitsForAll, Permitted
  <2>5. AllClosed'
    BY <2>1, CancelledJobs DEF IInv, TypeOK, AllClosed, Returned
  <2> QED
    BY <2>2, <2>3, <2>4, <2>5 DEF IInv
<1> QED
  BY <1>1, <1>2

LEMMA FinishStopStep == ASSUME IInv, NEW c \in Calls, FinishStop(c) PROVE IInv'
<1>1. \A j \in Jobs : ~Alive(j)
  BY DEF IInv, LiveTasksTracked, WaitsForAll, FinishStop, TasksEnded
<1> QED
  BY <1>1, CloseAllStep DEF FinishStop, IInv, TypeOK

LEMMA StepInv == IInv /\ [Next]_vars => IInv'
<1> SUFFICES ASSUME IInv, [Next]_vars PROVE IInv'
  OBVIOUS
<1>1. CASE \E i \in Interfaces : InjectSingle(i)
  BY <1>1, InjectSingleStep
<1>2. CASE \E j \in Jobs, i \in Interfaces :
             \/ \E count \in 1..MaxCount : InjectBurst(j, i, count)
             \/ \E timed \in BOOLEAN : InjectPeriodic(j, i, timed)
  BY <1>2, InjectBurstStep, InjectPeriodicStep
<1>3. CASE \E j \in Jobs : ContinueBurst(j) \/ PeriodicSender(j)
  BY <1>3, ContinueBurstStep, PeriodicSenderStep
<1>4. CASE \/ \E j \in Jobs : CallerCancels(j) \/ DurationPasses(j)
           \/ \E S \in SUBSET Jobs : StopInjection(S)
  BY <1>4, FlagSteps
<1>5. CASE \E c \in Stops : EmergencyStop(c)
  BY <1>5, BeginStopStep DEF EmergencyStop, Calls
<1>6. CASE Shutdown
  BY <1>6, BeginStopStep DEF Shutdown, Calls, IInv, TypeOK
<1>7. CASE \E c \in Calls : FinishStop(c)
  BY <1>7, FinishStopStep
<1>8. CASE UNCHANGED vars
  BY <1>8 DEF vars, IInv, TypeOK, LiveTasksTracked, WaitsForAll, AllClosed,
              Alive, Returned, Permitted
<1> QED
  BY <1>1, <1>2, <1>3, <1>4, <1>5, <1>6, <1>7, <1>8 DEF Next

\* A periodic task that can still send is registered in _active_injections,
\* where stop_injection and emergency_stop look for it.
THEOREM LiveTasksAlwaysTracked == Spec => []LiveTasksTracked
<1>1. IInv => LiveTasksTracked
  BY DEF IInv
<1> QED
  BY <1>1, InitInv, StepInv, PTL DEF Spec

LEMMA QuietStep ==
    ASSUME IInv, Next, NEW c \in Calls, Returned(c)
    PROVE  ~sent'
<1>1. ~Permitted /\ \A j \in Jobs : job[j].bus = "closed"
  BY DEF IInv, AllClosed, Permitted
<1>2. CASE \E j \in Jobs : ContinueBurst(j)
  <2>1. PICK j \in Jobs : ContinueBurst(j)
    BY <1>2
  <2>2. /\ job[j].bus \in Interfaces \cup {"closed"}
        /\ job[j].left \in 0..MaxCount /\ job[j].failed \in 0..MaxFailures
    BY DEF IInv, TypeOK, JobType
  <2> QED
    BY <1>1, <2>1, <2>2, BurstStep DEF IInv, ContinueBurst
<1>3. CASE \E j \in Jobs : PeriodicSender(j)
  BY <1>1, <1>3 DEF PeriodicSender
<1>4. CASE ~(\E j \in Jobs : ContinueBurst(j) \/ PeriodicSender(j))
  BY <1>1, <1>4 DEF Next, InjectSingle, InjectBurst, InjectPeriodic, UseBus, CallerCancels,
       DurationPasses, StopInjection, EmergencyStop, Shutdown, FinishStop
<1> QED
  BY <1>2, <1>3, <1>4

\* After emergency_stop or stop has returned no injection puts a message on a
\* bus, whatever was in progress when it was called.
THEOREM StopsAreQuiet == FairSpec => QuietAfterStop
<1>1. IInv /\ [Next]_vars => [(\E c \in Calls : Returned(c)) => ~sent']_vars
  BY QuietStep
<1>2. Spec => QuietAfterStop
  BY <1>1, InitInv, StepInv, PTL DEF Spec, QuietAfterStop
<1> QED
  BY <1>2 DEF FairSpec

=============================================================================
