---------------------------- MODULE CANBusRecorder ----------------------------
(***************************************************************************)
(* CANBusRecorder (src/backend/integrations/can/can_bus_recorder.py): one  *)
(* state field shared by recording and replay, the auto-save task of each  *)
(* recording, the replay tasks, and the calls that stop them.              *)
(*                                                                         *)
(* A step goes from one await to the next.  A wait for a task that has     *)
(* ended, or for none, is a step of its own although the code does not     *)
(* suspend there: this adds behaviours and takes none away.  The messages  *)
(* in the buffer, and those of a file, are abstracted to the number of the *)
(* session they were recorded in.                                          *)
(***************************************************************************)
EXTENDS Naturals

CONSTANTS
    Emergencies,     \* calls of emergency_stop
    RecordingStops,  \* calls of stop_recording
    ReplayStops,     \* calls of stop_replay
    MaxSessions,     \* recordings ever started
    MaxReplays       \* replays ever started

ASSUME CANBusRecorderAssumption ==
    /\ MaxSessions \in Nat /\ MaxReplays \in Nat
    /\ Emergencies \cap (RecordingStops \cup ReplayStops) = {}
    /\ RecordingStops \cap ReplayStops = {}

RecCalls == Emergencies \cup RecordingStops \cup ReplayStops
SavingStops == RecordingStops \cup Emergencies
Sessions == 1..MaxSessions
Replays == 1..MaxReplays

VARIABLES
    recState,        \* recording_state: "idle", "recording", "paused", "replaying"
    recRunning,      \* _is_running
    recHalted,       \* _emergency_stop_active
    sessions,        \* how many recordings were started; each is its number
    current,         \* current_session, 0 for None
    autosave,        \* per session its task: "none", "running", "cancelled", "ended", "failed"
    message_buffer,  \* the session whose messages it holds, 0 for those of no session
    recording_task,  \* the session whose task it is, 0 for None
    replay,          \* per replay: "none", "loading", "created", "ready", "sleeping",
                     \* "cancelled", "dropped" (cancelled before it first ran), "ended"
    replay_task,     \* 0 for None
    call,            \* per call: [pc, target: the task or session it waits for]
    saved,           \* sessions whose own messages a stop wrote (history)
    exposed,         \* sessions that met one of the races RecordingsKept names (history)
    late,            \* per replay: messages since the emergency stop (history)
    again            \* a replay was started since (history)

cbVars == <<recState, recRunning, recHalted, sessions, current, autosave, message_buffer,
            recording_task, replay, replay_task, call, saved, exposed, late, again>>

recorded == <<sessions, current, autosave, recording_task, saved>>
recording == <<recorded, message_buffer, exposed>>
replaying == <<replay, replay_task, late, again>>

Stopping(c) == call[c].pc \notin {"idle", "returned", "raised"}
At(c, pc) == call[c].pc = pc
Goto(c, pc, target) == call' = [call EXCEPT ![c] = [pc |-> pc, target |-> target]]

Expose(S) == exposed' = exposed \cup (S \ {0})

CancelAutosave == autosave' = [n \in Sessions |->
    IF n = recording_task /\ autosave[n] = "running" THEN "cancelled" ELSE autosave[n]]

CancelReplay == replay' = [k \in Replays |->
    IF k # replay_task THEN replay[k]
    ELSE IF replay[k] = "created" THEN "dropped"
    ELSE IF replay[k] \in {"ready", "sleeping"} THEN "cancelled" ELSE replay[k]]

-----------------------------------------------------------------------------
(* Recording.                                                              *)

StartRecording ==
    /\ recRunning /\ ~recHalted /\ recState = "idle" /\ sessions < MaxSessions
    /\ sessions' = sessions + 1
    /\ current' = sessions' /\ recording_task' = sessions'
    /\ autosave' = [autosave EXCEPT ![sessions'] = "running"]
    /\ message_buffer' = sessions'
    /\ recState' = "recording"
    /\ Expose(IF \E c \in SavingStops : Stopping(c) THEN {current, current'} ELSE {})
    /\ UNCHANGED <<recRunning, recHalted, call, saved, replaying>>

PauseOrResume ==
    /\ recState \in {"recording", "paused"}
    /\ recState' = IF recState = "recording" THEN "paused" ELSE "recording"
    /\ UNCHANGED <<recRunning, recHalted, call, recording, replaying>>

\* After its sleep the task of a session looks at the state - of whatever is
\* recorded by then - or it was cancelled, or its save raised.
AutosaveEnds(n) ==
    /\ \/ autosave[n] = "cancelled"
       \/ autosave[n] = "running" /\ recState \notin {"recording", "paused"}
    /\ autosave' = [autosave EXCEPT ![n] = "ended"]
    /\ UNCHANGED <<recState, recRunning, recHalted, call, sessions, current, message_buffer,
                   recording_task, saved, exposed, replaying>>

AutosaveFails(n) ==
    /\ autosave[n] = "running" /\ current # 0
    /\ autosave' = [autosave EXCEPT ![n] = "failed"]
    /\ Expose({n})
    /\ UNCHANGED <<recState, recRunning, recHalted, call, sessions, current, message_buffer,
                   recording_task, saved, replaying>>

\* stop_recording sets the state and broadcasts it ...
BeginStopRecording(c) ==
    /\ At(c, "idle") /\ recState = "recording"
    /\ recState' = "idle"
    /\ Goto(c, "broadcast", 0)
    /\ UNCHANGED <<recRunning, recHalted, recording, replaying>>

\* ... cancels the auto-save task it then finds ...
StopAutosave(c) ==
    /\ At(c, "broadcast")
    /\ CancelAutosave
    /\ Goto(c, "autosave", recording_task)
    /\ UNCHANGED <<recState, recRunning, recHalted, sessions, current, message_buffer,
                   recording_task, saved, exposed, replaying>>

AutosaveIs(n, states) == n # 0 /\ autosave[n] \in states

\* ... waits for it, which raises what the task raised, long ago perhaps ...
AutosaveRaises(c) ==
    /\ At(c, "autosave") /\ AutosaveIs(call[c].target, {"failed"})
    /\ Goto(c, "raised", 0)
    /\ UNCHANGED <<recState, recRunning, recHalted, recording, replaying>>

AutosaveDone(c) == call[c].target = 0 \/ AutosaveIs(call[c].target, {"ended"})

\* _save_recording copies the buffer: the messages of the session, or others.
Save(c) ==
    IF current = 0 THEN Goto(c, "returned", 0)
    ELSE Goto(c, IF message_buffer = current THEN "saving" ELSE "overwriting", current)

\* ... and saves the session it then finds, if there still is one.
SaveAndEnd(c) ==
    /\ c \in RecordingStops /\ At(c, "autosave") /\ AutosaveDone(c)
    /\ Save(c)
    /\ UNCHANGED <<recState, recRunning, recHalted, recording, replaying>>

\* Mutant: the session is forgotten without having been written.
NotWritten(c) ==
    /\ At(c, "saving") /\ current' = 0
    /\ Goto(c, "returned", 0)
    /\ UNCHANGED <<recState, recRunning, recHalted, sessions, autosave, message_buffer,
                   recording_task, saved, exposed, replaying>>

\* The save writes what it copied.  Its file may also be left with the older copy
\* of an auto-save that nobody cancelled, or the save fails.  Either stop then
\* forgets the current session, except that stop_recording keeps it when it raises.
Saved(c) ==
    LET n == call[c].target IN
    /\ call[c].pc \in {"saving", "overwriting"}
    /\ \/ At(c, "saving") /\ saved' = saved \cup {n} /\ current' = 0 /\ Expose({})
       \/ At(c, "overwriting") /\ saved' = saved \ {n} /\ current' = 0 /\ Expose({})
       \/ /\ \E m \in Sessions : autosave[m] = "running"
          /\ saved' = saved \ {n} /\ current' = 0 /\ Expose({n})
       \/ /\ saved' = saved \ {n} /\ Expose({n})
          /\ current' = IF c \in Emergencies THEN 0 ELSE current
    /\ Goto(c, "returned", 0)
    /\ UNCHANGED <<recState, recRunning, recHalted, sessions, autosave, message_buffer,
                   recording_task, replaying>>

-----------------------------------------------------------------------------
(* Replay.                                                                 *)

\* start_replay checks the state, and no interlock, before it loads the file ...
LoadReplay(k) ==
    /\ recState = "idle" /\ replay[k] = "none"
    /\ replay' = [replay EXCEPT ![k] = "loading"]
    /\ UNCHANGED <<recState, recRunning, recHalted, call, recording, replay_task, late, again>>

\* ... whose messages then replace those in the buffer, and sets it afterwards,
\* whatever it is by then.
BeginReplay(k) ==
    /\ replay[k] = "loading"
    /\ message_buffer' = 0 /\ Expose({current})
    /\ recState' = "replaying"
    /\ replay' = [replay EXCEPT ![k] = "created"]
    /\ replay_task' = k
    /\ again' = recHalted
    /\ UNCHANGED <<recRunning, recHalted, call, recorded, late>>

\* A file that cannot be loaded leaves the buffer as it is, or emptied.
LoadFails(k) ==
    /\ replay[k] = "loading"
    /\ replay' = [replay EXCEPT ![k] = "ended"]
    /\ \/ UNCHANGED <<message_buffer, exposed>>
       \/ message_buffer' = 0 /\ Expose({current})
    /\ UNCHANGED <<recState, recRunning, recHalted, call, recorded, replay_task, late, again>>

\* Mutant: the loop over the messages does not look at the state.
ReplayAnyway == TRUE
ReplayAllowed == recState = "replaying"

\* The next message is due after a sleep ...
NextMessage(k) ==
    /\ replay[k] \in {"created", "ready"} /\ ReplayAllowed
    /\ replay' = [replay EXCEPT ![k] = "sleeping"]
    /\ UNCHANGED <<recState, recRunning, recHalted, call, recording, replay_task, late, again>>

\* ... and sent after it, without another look at the state.
SendMessage(k) ==
    /\ replay[k] = "sleeping"
    /\ replay' = [replay EXCEPT ![k] = "ready"]
    /\ late' = IF recHalted /\ late[k] < 2 THEN [late EXCEPT ![k] = @ + 1] ELSE late
    /\ UNCHANGED <<recState, recRunning, recHalted, call, recording, replay_task, again>>

\* Out of messages, cancelled, or the state has changed: the finally clause makes
\* the recorder idle, unless the task never ran.
ReplayEnds(k) ==
    /\ replay[k] \in {"created", "ready", "cancelled", "dropped"}
    /\ replay' = [replay EXCEPT ![k] = "ended"]
    /\ recState' = IF replay[k] = "dropped" THEN recState ELSE "idle"
    /\ Expose(IF recState' = "idle" /\ recState \in {"recording", "paused"} THEN {current} ELSE {})
    /\ UNCHANGED <<recRunning, recHalted, call, recorded, message_buffer, replay_task, late, again>>

BeginStopReplay(c) ==
    /\ At(c, "idle") /\ recState = "replaying"
    /\ recState' = "idle"
    /\ CancelReplay
    /\ Goto(c, "replay", replay_task)
    /\ UNCHANGED <<recRunning, recHalted, recording, replay_task, late, again>>

ReplayDone(c) == \A k \in Replays : k = call[c].target => replay[k] = "ended"

EndStopReplay(c) ==
    /\ c \in ReplayStops /\ At(c, "replay") /\ ReplayDone(c)
    /\ Goto(c, "returned", 0)
    /\ UNCHANGED <<recState, recRunning, recHalted, recording, replaying>>

-----------------------------------------------------------------------------
(* emergency_stop.                                                         *)

BeginEmergency(c) ==
    /\ At(c, "idle")
    /\ recHalted' = TRUE /\ recRunning' = FALSE /\ recState' = "idle"
    /\ CancelAutosave
    /\ Goto(c, "autosave", recording_task)
    /\ late' = [k \in Replays |-> 0]
    /\ UNCHANGED <<sessions, current, message_buffer, recording_task, saved, exposed,
                   replay, replay_task, again>>

EmergencyReplay(c) ==
    /\ c \in Emergencies /\ At(c, "autosave") /\ AutosaveDone(c)
    /\ CancelReplay
    /\ Goto(c, "replay", replay_task)
    /\ UNCHANGED <<recState, recRunning, recHalted, recording, replay_task, late, again>>

EmergencySave(c) ==
    /\ c \in Emergencies /\ At(c, "replay") /\ ReplayDone(c)
    /\ Save(c)
    /\ UNCHANGED <<recState, recRunning, recHalted, recording, replaying>>

CBInit ==
    /\ recState = "idle" /\ recRunning \in BOOLEAN /\ recHalted = FALSE
    /\ sessions = 0 /\ current = 0 /\ message_buffer = 0 /\ recording_task = 0 /\ replay_task = 0
    /\ autosave = [n \in Sessions |-> "none"]
    /\ replay = [k \in Replays |-> "none"]
    /\ call = [c \in RecCalls |-> [pc |-> "idle", target |-> 0]]
    /\ saved = {} /\ exposed = {}
    /\ late = [k \in Replays |-> 0]
    /\ again = FALSE

CBNext ==
    \/ StartRecording \/ PauseOrResume
    \/ \E n \in Sessions : AutosaveEnds(n) \/ AutosaveFails(n)
    \/ \E k \in Replays :
         LoadReplay(k) \/ BeginReplay(k) \/ LoadFails(k) \/ NextMessage(k) \/ SendMessage(k)
           \/ ReplayEnds(k)
    \/ \E c \in RecordingStops : BeginStopRecording(c) \/ StopAutosave(c) \/ SaveAndEnd(c)
    \/ \E c \in ReplayStops : BeginStopReplay(c) \/ EndStopReplay(c)
    \/ \E c \in Emergencies : BeginEmergency(c) \/ EmergencyReplay(c) \/ EmergencySave(c)
    \/ \E c \in SavingStops : AutosaveRaises(c) \/ Saved(c)

CBSpec == CBInit /\ [][CBNext]_cbVars

-----------------------------------------------------------------------------
(* Properties.                                                             *)

\* After an emergency stop nothing is recorded.  Each replay, also one the recorder
\* has lost track of, sends at most the message it was waiting for, and the one it
\* knows of has ended when the stop has returned - unless a replay is started after
\* the stop, which nothing prevents, and which lets older replays go on too.
RecorderQuietAfterStop ==
    recHalted =>
        /\ recState \notin {"recording", "paused"}
        /\ ~again =>
             /\ recState = "idle"
             /\ \A k \in Replays : late[k] <= 1
             /\ (\E c \in Emergencies : call[c].pc = "returned") /\ replay_task # 0
                    => replay[replay_task] = "ended"

\* Each recording is the current one or a stop wrote its messages, whatever became
\* of the recordings before it, except one that met a race of its own: it, or the
\* next one, was started while a stop was under way; a replay was loaded into the
\* buffer, or ended, while it was the current one; an auto-save nobody cancelled
\* was running when it was written; or one of its saves failed.
RecordingsKept ==
    \A n \in 1..sessions : n = current \/ n \in saved \/ n \in exposed

===============================================================================
