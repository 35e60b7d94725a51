------------------------------- MODULE CANFacade -------------------------------
(***************************************************************************)
(* CANFacade and the CANBusService it coordinates                          *)
(* (src/backend/services/can_facade.py and can_bus_service.py): receiving  *)
(* listeners, and emergency stops, of the facade and of the bus service    *)
(* itself (the safety service calls both), that overlap.                   *)
(*                                                                         *)
(* Everything runs on one event loop: a step goes from one await to the    *)
(* next.  start() of the bus service never suspends and is called once,    *)
(* when the service registry creates it, so it is part of the initial      *)
(* state.  Nothing stops or restarts either service afterwards, and        *)
(* nothing clears the flags of an emergency stop.                          *)
(***************************************************************************)
EXTENDS Naturals, Sequences, FiniteSets

CONSTANTS
    Interfaces,      \* the CAN interfaces
    FacadeStops,     \* calls of the facade's emergency_stop
    BusStops,        \* calls of the bus service's own emergency_stop
    Tools            \* the facade's other services: injector, filter, recorder, analyzer

ASSUME CANFacadeAssumption ==
    {"engine", "detector"} \cap Interfaces = {} /\ IsFiniteSet(Interfaces)

Calls == FacadeStops \cup BusStops

\* The background tasks: a listener for each interface, the pattern engine's
\* analysis and the anomaly detector's clean-up.
Tasks == Interfaces \cup {"engine", "detector"}

VARIABLES
    busRunning,      \* CANBusService._running
    listed,          \* the listener order of _listeners; <<>> once cleaned up
    task,            \* "waiting", "handling" (a message), "cancelled" or "ended"
    notifier,        \* the interfaces whose notifier runs
    stop,            \* per call: its place, and what it still has to do
    tool,            \* "running", "stopped" or "raised"
    facadeHalted,    \* CANFacade._emergency_stop_active
    facadeStatus,    \* CANFacade._safety_status
    monitored        \* the facade's health task was started

cfVars == <<busRunning, listed, task, notifier, stop, tool, facadeHalted,
            facadeStatus, monitored>>

-----------------------------------------------------------------------------
(* The listeners.                                                          *)

\* _can_listener_task takes a message and awaits the tools and the decoder.
Receive(i) ==
    /\ task[i] = "waiting" /\ i \in notifier
    /\ task' = [task EXCEPT ![i] = "handling"]
    /\ UNCHANGED <<busRunning, listed, notifier, stop, tool, facadeHalted,
                   facadeStatus, monitored>>

\* It is done with the message and looks at _running.
Handled(i) ==
    /\ task[i] = "handling"
    /\ task' = [task EXCEPT ![i] = IF busRunning THEN "waiting" ELSE "ended"]
    /\ UNCHANGED <<busRunning, listed, notifier, stop, tool, facadeHalted,
                   facadeStatus, monitored>>

\* Receiving raises: the listener ends for good; nothing else notices.
ReceiveFails(i) ==
    /\ task[i] = "waiting"
    /\ task' = [task EXCEPT ![i] = "ended"]
    /\ UNCHANGED <<busRunning, listed, notifier, stop, tool, facadeHalted,
                   facadeStatus, monitored>>

\* A cancelled task runs once more and ends.
TaskEnds(t) ==
    /\ task[t] = "cancelled"
    /\ task' = [task EXCEPT ![t] = "ended"]
    /\ UNCHANGED <<busRunning, listed, notifier, stop, tool, facadeHalted,
                   facadeStatus, monitored>>

-----------------------------------------------------------------------------
(* emergency_stop of the bus service.                                      *)

CancelTask(t) ==
    task' = [task EXCEPT ![t] = IF @ = "ended" THEN @ ELSE "cancelled"]

\* What the call has to cancel and wait for, one after the other:
\* the listeners it finds, the engine, the detector.
ToCancel == listed \o <<"engine", "detector">>

\* The call marks the service and cancels its first task.
BeginBusStop(c) ==
    /\ stop[c].bus = "due"
    /\ stop' = [stop EXCEPT ![c].bus = "cancelling", ![c].left = ToCancel]
    /\ busRunning' = FALSE
    /\ CancelTask(Head(ToCancel))
    /\ UNCHANGED <<listed, notifier, tool, facadeHalted, facadeStatus, monitored>>

\* The task has ended: its notifier is stopped, and the next task is cancelled.
\* _listeners is emptied after the last listener.
NextTask(c) ==
    LET t == Head(stop[c].left)
        rest == Tail(stop[c].left)
    IN /\ stop[c].bus = "cancelling"
       /\ task[t] = "ended"
       /\ notifier' = notifier \ {t}
       /\ listed' = IF rest # <<>> /\ Head(rest) = "engine" THEN <<>> ELSE listed
       /\ IF rest = <<>>
          THEN /\ stop' = [stop EXCEPT ![c].bus = "done", ![c].left = rest]
               /\ task' = task
          ELSE /\ stop' = [stop EXCEPT ![c].left = rest]
               /\ CancelTask(Head(rest))
       /\ UNCHANGED <<busRunning, tool, facadeHalted, facadeStatus, monitored>>

-----------------------------------------------------------------------------
(* The facade.                                                             *)

\* emergency_stop marks the facade and lets the services stop in parallel; the
\* detector is one of them, and the bus service stops it too.
BeginStop(c) ==
    /\ stop[c].pc = "idle"
    /\ stop' = [stop EXCEPT ![c].pc = "gathering", ![c].bus = "due",
                            ![c].tools = IF c \in FacadeStops THEN Tools ELSE {}]
    /\ IF c \in FacadeStops
       THEN facadeHalted' = TRUE /\ facadeStatus' = "emergency_stop" /\ CancelTask("detector")
       ELSE UNCHANGED <<facadeHalted, facadeStatus, task>>
    /\ UNCHANGED <<busRunning, listed, notifier, tool, monitored>>

\* One of them has stopped, or raised.
ToolStops(c, s) ==
    /\ stop[c].pc = "gathering" /\ s \in stop[c].tools
    /\ stop' = [stop EXCEPT ![c].tools = @ \ {s}]
    /\ \E outcome \in {"stopped", "raised"} :
         tool' = [tool EXCEPT ![s] = IF @ = "stopped" THEN @ ELSE outcome]
    /\ UNCHANGED <<busRunning, listed, task, notifier, facadeHalted, facadeStatus, monitored>>

\* Mutant: gather without return_exceptions: the first exception ends the wait.
GatheredOrRaised(c) ==
    (stop[c].bus = "done" /\ stop[c].tools = {})
        \/ \E s \in Tools \ stop[c].tools : c \in FacadeStops /\ tool[s] = "raised"

\* gather with return_exceptions: all have stopped or raised.
Gathered(c) == stop[c].bus = "done" /\ stop[c].tools = {}

Return(c) ==
    /\ stop[c].pc = "gathering" /\ Gathered(c)
    /\ stop' = [stop EXCEPT ![c].pc = "returned"]
    /\ UNCHANGED <<busRunning, listed, task, notifier, tool, facadeHalted,
                   facadeStatus, monitored>>

\* Mutant: the flag of the emergency stop is not looked at.
FlagForgotten == IF busRunning THEN "safe" ELSE "degraded"

\* What _monitor_health makes of the bus service's health.
Assessed ==
    IF ~busRunning THEN "degraded" ELSE IF facadeHalted THEN "emergency_stop" ELSE "safe"

\* An iteration of _monitor_health; the assessment may raise.
MonitorHealth ==
    /\ monitored
    /\ facadeStatus' \in {Assessed, "unsafe"}
    /\ UNCHANGED <<busRunning, listed, task, notifier, stop, tool, facadeHalted, monitored>>

\* validate_safety_interlock("send_message").
SendPermitted == facadeStatus \in {"safe", "degraded"}

\* start() of the facade was called or (as main.py has it) not.
CFInit ==
    /\ busRunning = TRUE
    /\ listed \in {s \in [1..Cardinality(Interfaces) -> Interfaces] :
                      \A i \in Interfaces : \E k \in DOMAIN s : s[k] = i}
    /\ task = [t \in Tasks |-> "waiting"]
    /\ notifier = Interfaces
    /\ stop = [c \in Calls |-> [pc |-> "idle", bus |-> "none", left |-> <<>>, tools |-> {}]]
    /\ tool = [s \in Tools |-> "running"]
    /\ facadeHalted = FALSE
    /\ facadeStatus = "safe"
    /\ monitored \in BOOLEAN

CFNext ==
    \/ \E i \in Interfaces : Receive(i) \/ Handled(i) \/ ReceiveFails(i)
    \/ \E t \in Tasks : TaskEnds(t)
    \/ \E c \in Calls :
         \/ BeginStop(c) \/ BeginBusStop(c) \/ NextTask(c) \/ Return(c)
         \/ \E s \in Tools : ToolStops(c, s)
    \/ MonitorHealth

CFSpec == CFInit /\ [][CFNext]_cfVars

-----------------------------------------------------------------------------
(* Properties.                                                             *)

\* When an emergency stop has returned, nothing of the bus service runs and no
\* message is handled any more, whichever other stop is still under way and
\* whatever raised; a stop of the facade has also been through its services.
StopLeavesNothingRunning ==
    \A c \in Calls : stop[c].pc = "returned" =>
        /\ notifier = {}
        /\ \A t \in Tasks : task[t] = "ended"
        /\ c \in FacadeStops => \A s \in Tools : tool[s] # "running"

\* After an emergency stop of the facade sends stay refused.  With the health
\* task it is less: the status never says safe again, but degraded, which
\* permits sends, as soon as the bus service has stopped.
StoppedFacadeRefuses ==
    facadeHalted =>
        /\ facadeStatus # "safe"
        /\ SendPermitted => monitored /\ ~busRunning

===============================================================================
