---------------------------- MODULE EntityControl ----------------------------
(***************************************************************************)
(* Commands to lights, from the request to the bus: EntityDomainService    *)
(* (services/entity_domain_service.py) checks and tracks an operation,     *)
(* EntityService (services/entity_service.py) computes the new brightness, *)
(* updates the entity optimistically and queues a frame, can_writer        *)
(* (integrations/can/manager.py) sends each frame twice, and the status    *)
(* the light reports comes back through CANBusService.                     *)
(*                                                                         *)
(* An operation awaits two broadcasts and then its acknowledgement; a step *)
(* is the code between two awaits.  The acknowledgement never comes: the   *)
(* poll calls get_entity_current_state, which no class defines, so every   *)
(* poll raises, is logged, and the wait ends by its timeout.               *)
(*                                                                         *)
(* Data abstraction: brightness is a level; a light's `raw' field is kept  *)
(* only as whether it is a dict (a status message put it there) or the     *)
(* integer an optimistic update leaves.                                    *)
(***************************************************************************)
EXTENDS Integers, Sequences, FiniteSets

CONSTANTS
    Operations,       \* operations of a run, each used once
    Lights,           \* entities of type light, with an instance
    MaxLevel,         \* full brightness
    BulkConcurrency,  \* _max_concurrent_operations
    MaxStops,         \* bound on the emergency stops of a run
    MaxSendFailures,  \* bound on the frames that are not sent
    WriterStarted     \* can_writer runs

ASSUME EntityControlAssumption ==
    /\ IsFiniteSet(Operations)
    /\ IsFiniteSet(Lights)
    /\ MaxLevel \in Nat \ {0}
    /\ BulkConcurrency \in Nat \ {0}
    /\ MaxStops \in Nat
    /\ MaxSendFailures \in Nat
    /\ WriterStarted \in BOOLEAN

VARIABLES
    light,           \* Lights -> the entity's state
    device,          \* Lights -> the level of the lamp itself
    operation,       \* Operations -> where each operation is
    pending,         \* _pending_operations
    halted,          \* _emergency_stop_active
    halts,           \* emergency stops so far
    can_tx_queue,    \* frames: the light and its level
    writer,          \* can_writer: the frame it is sending
    sendFailures     \* failed sends so far

ecVars == <<light, device, operation, pending, halted, halts, can_tx_queue,
            writer, sendFailures>>

Levels == 0..MaxLevel
Commands == {"set_on", "set_off", "toggle", "brightness_up", "brightness_down"}
Statuses == {"none", "pending", "safety_abort", "failed", "timeout"}

\* No brightness given.
Unspecified == MaxLevel + 1

NoOperation == [pc |-> "unused", light |-> CHOOSE l \in Lights : TRUE, level |-> 0,
                command |-> "toggle", brightness |-> Unspecified,
                confirmed |-> FALSE, bulk |-> {}, limit |-> 1, status |-> "none"]

Idle == [pc |-> "get"]

-----------------------------------------------------------------------------
(* EntityService.control_light.                                            *)

\* get_last_known_brightness, with control_light's repair of zero.
LastKnown(l) == IF light[l].last = 0 THEN MaxLevel ELSE light[l].last

\* What the command makes of the light: `raises', or the new level and the
\* new last known brightness.  The `raw' left by an optimistic update is an
\* integer and has no get(); an Entity takes no item assignment, so "set off"
\* raises while the light is on.
Raises == [raises |-> TRUE, level |-> 0, last |-> 0]

Outcome(level, last) == [raises |-> FALSE, level |-> level, last |-> last]

Lower(a, b) == IF a < b THEN a ELSE b
Higher(a, b) == IF a > b THEN a ELSE b

ControlLight(l, command, b) ==
    LET s == light[l]
        target == IF b = Unspecified THEN LastKnown(l) ELSE b
    IN CASE ~s.rawIsDict -> Raises
         [] s.rawIsDict /\ command = "set_on" ->
              Outcome(IF target = 0 THEN MaxLevel ELSE target, target)
         [] s.rawIsDict /\ command = "set_off" ->
              IF s.on THEN Raises ELSE Outcome(0, s.last)
         [] s.rawIsDict /\ command = "toggle" ->
              IF s.on THEN Outcome(0, s.level) ELSE Outcome(LastKnown(l), s.last)
         [] s.rawIsDict /\ command = "brightness_up" ->
              LET n == Lower(s.level + 1, MaxLevel) IN Outcome(n, n)
         [] s.rawIsDict /\ command = "brightness_down" ->
              LET n == Higher(s.level - 1, 0) IN Outcome(n, IF n > 0 THEN n ELSE s.last)

\* update_entity_state_and_history with the optimistic payload.
Optimistic(s, out) ==
    [on |-> out.level > 0, level |-> out.level, rawIsDict |-> FALSE, last |-> out.last]

-----------------------------------------------------------------------------
(* EntityDomainService.                                                    *)

\* _check_safety_interlocks: no stop, and "set" and "toggle" are confirmed.
InterlocksPass(request) ==
    /\ ~halted
    /\ request.command \in {"set_on", "set_off", "toggle"} => request.confirmed

\* Operations that no request has used yet.
Unused == {o \in Operations : operation[o].pc = "unused"}

Running == {o \in Operations : operation[o].pc \in {"updated", "queued_frame", "waiting"}}

\* Mutant: the finally clause does not untrack the operation.
FinishTracked(o, status) ==
    /\ operation' = [operation EXCEPT ![o] = [NoOperation EXCEPT !.pc = "done", !.status = status]]
    /\ UNCHANGED pending

\* The end of control_entity_safe: the status, and the finally clause.
Finish(o, status) ==
    /\ operation' = [operation EXCEPT ![o] = [NoOperation EXCEPT !.pc = "done", !.status = status]]
    /\ pending' = pending \ {o}

\* control_entity_safe up to its first suspension: the interlocks, the
\* tracking, the command and the optimistic update.
Execute(o, request) ==
    LET l == request.light
        out == ControlLight(l, request.command, request.brightness)
    IN /\ IF ~InterlocksPass(request)
          THEN Finish(o, "safety_abort") /\ UNCHANGED light
          ELSE IF out.raises
          THEN Finish(o, "failed") /\ UNCHANGED light
          ELSE /\ light' = [light EXCEPT ![l] = Optimistic(@, out)]
               /\ operation' = [operation EXCEPT ![o] = [NoOperation EXCEPT !.pc = "updated",
                                     !.light = l, !.level = out.level, !.status = "pending"]]
               /\ pending' = pending \cup {o}
       /\ UNCHANGED <<device, halted, halts, can_tx_queue, writer, sendFailures>>

\* A bulk of the same command for several lights; a light may be named twice.
\* Its operations wait for a semaphore of their own, of `limit' places.
Request(S, limit, where, command, b, confirmed) ==
    /\ S # {}
    /\ S \subseteq Unused
    /\ ~halted
    /\ operation' = [o \in Operations |->
           IF o \in S THEN [NoOperation EXCEPT !.pc = "requested", !.light = where[o],
                                !.command = command, !.brightness = b,
                                !.confirmed = confirmed, !.bulk = S, !.limit = limit]
           ELSE operation[o]]
    /\ UNCHANGED <<light, device, pending, halted, halts, can_tx_queue, writer, sendFailures>>

\* The command of one light calls control_entity_safe itself: no semaphore,
\* and only the interlocks look at the stop.  The API confirms for the user.
RequestSingle(o, l, command, b) ==
    /\ o \in Unused
    /\ Execute(o, [light |-> l, command |-> command, brightness |-> b, confirmed |-> TRUE])

\* The semaphore of the operation's bulk has a place.
SemaphoreFree(o) == Cardinality(Running \cap operation[o].bulk) < operation[o].limit

Begin(o) ==
    /\ operation[o].pc = "requested"
    /\ SemaphoreFree(o)
    /\ Execute(o, operation[o])

\* The first broadcast returned: the frame is queued.
QueueFrame(o) ==
    /\ operation[o].pc = "updated"
    /\ can_tx_queue' = Append(can_tx_queue,
                              [light |-> operation[o].light, level |-> operation[o].level])
    /\ operation' = [operation EXCEPT ![o] = [NoOperation EXCEPT !.pc = "queued_frame",
                                                                 !.status = operation[o].status]]
    /\ UNCHANGED <<light, device, pending, halted, halts, writer, sendFailures>>

\* A broadcast raises (its client set changed while it was sending): the
\* operation fails, before or after its frame was queued.
BroadcastRaises(o) ==
    /\ operation[o].pc \in {"updated", "queued_frame"}
    /\ Finish(o, "failed")
    /\ UNCHANGED <<light, device, halted, halts, can_tx_queue, writer, sendFailures>>

\* The second broadcast returned: control_light answers, the wait begins.
AwaitAcknowledgment(o) ==
    /\ operation[o].pc = "queued_frame"
    /\ operation' = [operation EXCEPT ![o].pc = "waiting"]
    /\ UNCHANGED <<light, device, pending, halted, halts, can_tx_queue, writer, sendFailures>>

\* Mutant: the polling loop has no deadline.
PollForever(o) == FALSE

AcknowledgmentTimeout(o) ==
    /\ operation[o].pc = "waiting"
    /\ Finish(o, "timeout")
    /\ UNCHANGED <<light, device, halted, halts, can_tx_queue, writer, sendFailures>>

\* The status emergency_stop gives to every tracked operation.
Aborted == [o \in Operations |->
              IF o \in pending THEN [operation[o] EXCEPT !.status = "safety_abort"]
              ELSE operation[o]]

EmergencyStopEntities ==
    /\ halts < MaxStops
    /\ halts' = halts + 1
    /\ halted' = TRUE
    /\ operation' = Aborted
    /\ pending' = {}
    /\ UNCHANGED <<light, device, can_tx_queue, writer, sendFailures>>

ClearEmergencyStopEntities ==
    /\ halted
    /\ halted' = FALSE
    /\ UNCHANGED <<light, device, operation, pending, halts, can_tx_queue, writer, sendFailures>>

-----------------------------------------------------------------------------
(* can_writer and the bus.                                                 *)

\* A frame is taken from the queue and sent for the first time.
WriterTakes ==
    /\ WriterStarted
    /\ writer.pc = "get"
    /\ can_tx_queue # <<>>
    /\ LET f == Head(can_tx_queue)
       IN writer' = [pc |-> "again", frame |-> f] /\ device' = [device EXCEPT ![f.light] = f.level]
    /\ can_tx_queue' = Tail(can_tx_queue)
    /\ UNCHANGED <<light, operation, pending, halted, halts, sendFailures>>

\* The second copy, 50 ms later.
WriterSendsAgain ==
    /\ writer.pc = "again"
    /\ device' = [device EXCEPT ![writer.frame.light] = writer.frame.level]
    /\ writer' = Idle
    /\ UNCHANGED <<light, operation, pending, halted, halts, can_tx_queue, sendFailures>>

\* The interface raises on the first copy or the second: the frame is logged
\* and dropped, the writer goes on.
SendFails ==
    /\ WriterStarted
    /\ sendFailures < MaxSendFailures
    /\ sendFailures' = sendFailures + 1
    /\ \/ writer.pc = "get" /\ can_tx_queue # <<>> /\ can_tx_queue' = Tail(can_tx_queue)
       \/ writer.pc = "again" /\ UNCHANGED can_tx_queue
    /\ writer' = Idle
    /\ UNCHANGED <<light, device, operation, pending, halted, halts>>

\* Mutant: a status message only refreshes `raw'.
ReportedRawOnly(l) == [light[l] EXCEPT !.rawIsDict = TRUE]

\* _update_light_state: what a status message makes of the entity.
Reported(l) == [on |-> device[l] > 0, level |-> device[l], rawIsDict |-> TRUE,
                last |-> device[l]]

\* _update_entity_from_can_message.
StatusMessage(l) ==
    /\ light[l] # Reported(l)
    /\ light' = [light EXCEPT ![l] = Reported(l)]
    /\ UNCHANGED <<device, operation, pending, halted, halts, can_tx_queue, writer, sendFailures>>

-----------------------------------------------------------------------------

\* The entities after their first status message.
ECInit ==
    /\ device = [l \in Lights |-> 0]
    /\ light = [l \in Lights |-> [on |-> FALSE, level |-> 0, rawIsDict |-> TRUE, last |-> 0]]
    /\ operation = [o \in Operations |-> NoOperation]
    /\ pending = {}
    /\ halted = FALSE
    /\ halts = 0
    /\ can_tx_queue = <<>>
    /\ writer = Idle
    /\ sendFailures = 0

\* What an operation under way does next on its own.
Advance(o) == QueueFrame(o) \/ BroadcastRaises(o) \/ AwaitAcknowledgment(o) \/ AcknowledgmentTimeout(o)

\* The places of a bulk's semaphore: what the request asks for, at most
\* BulkConcurrency; more places than operations are no limit.
Limits(S) == 1..Lower(BulkConcurrency, Cardinality(S))

Brightnesses(command) == IF command = "set_on" THEN Levels \cup {Unspecified} ELSE {Unspecified}
Confirmations(command) ==
    IF command \in {"set_on", "set_off", "toggle"} THEN BOOLEAN ELSE {FALSE}

ECNext ==
    \/ \E S \in SUBSET Unused, command \in Commands :
         \E limit \in Limits(S), where \in [S -> Lights],
            b \in Brightnesses(command), confirmed \in Confirmations(command) :
              Request(S, limit, where, command, b, confirmed)
    \/ \E o \in Unused, l \in Lights, command \in Commands :
         \E b \in Brightnesses(command) : RequestSingle(o, l, command, b)
    \/ \E o \in Operations :
         \/ Begin(o)
         \/ QueueFrame(o)
         \/ BroadcastRaises(o)
         \/ AwaitAcknowledgment(o)
         \/ AcknowledgmentTimeout(o)
    \/ EmergencyStopEntities
    \/ ClearEmergencyStopEntities
    \/ WriterTakes
    \/ WriterSendsAgain
    \/ SendFails
    \/ \E l \in Lights : StatusMessage(l)

ECSpec == ECInit /\ [][ECNext]_ecVars

-----------------------------------------------------------------------------
(* Properties.                                                             *)

\* An emergency stop reaches everything that runs: an operation that is not
\* finished is tracked, unless an earlier stop has already marked it, and
\* nothing finished stays tracked.
RunningOperationsTracked ==
    /\ pending \subseteq Running
    /\ \A o \in Running : o \in pending \/ operation[o].status = "safety_abort"

\* Once commands have ceased the entity's state is the lamp's again, whatever
\* broadcasts, sends and reorderings did to the optimistic updates.
StateConverges == <>[](\A l \in Lights : light[l].level = device[l])

\* Every operation that began ends, and a stop does not keep it waiting.
OperationsEnd ==
    \A o \in Operations : (o \in Running) ~> (operation[o].pc = "done")

=============================================================================
