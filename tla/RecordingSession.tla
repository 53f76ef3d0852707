-------------------------- MODULE RecordingSession --------------------------
(***************************************************************************)
(* The recording session of the listener plugin: the state machine of      *)
(* plugins/listener/src/fsm.rs, the pipeline it builds and tears down, the *)
(* transcript monitor that runs beside it, the reconnect coordinators and  *)
(* watchdog stops a monitor leaves behind, and the columns of the session  *)
(* row that completion publishes.                                          *)
(*                                                                         *)
(* Every command locks SharedState and holds the lock across the awaits of *)
(* its handler, so at most one handler runs; `handler' is its program      *)
(* counter.  Monitors take no lock: they share the pipeline status, the    *)
(* session-state watch and two flags with the handler.                     *)
(***************************************************************************)
EXTENDS Naturals

CONSTANTS
  Sessions,       \* the notes that can be recorded
  Monitors,       \* names for transcript tasks, reused once joined
  Coordinators,   \* names for reconnect coordinators: bounds how many coexist
  Inputs,         \* the muteable inputs, {"mic", "speaker"} in the code
  NoSession, NoMonitor, NoCoordinator,  \* None
  MaxAttempts,    \* STREAM_RECONNECT_DELAYS_SECS.len()
  MaxRetries,     \* MAX_RETRIES of the device recovery
  SetupFaults     \* the points of SetupPoints at which a setup may fail here

(* Where setup_resources returns early: before it owns the session id,     *)
(* before it replaces the watch and mute channels, or after it did.        *)
SetupPoints == {"lookup", "config", "connect"}

ASSUME ConstantsAssumption ==
  /\ NoSession \notin Sessions
  /\ NoMonitor \notin Monitors
  /\ NoCoordinator \notin Coordinators
  /\ MaxAttempts \in Nat \ {0}
  /\ MaxRetries \in Nat
  /\ SetupFaults \subseteq SetupPoints

VARIABLES
  (* fields of Session, under the SharedState lock *)
  state,             \* the statig state
  session,           \* session_id
  recordingStarted,  \* recording_started
  failed,            \* recording_completion.failed
  task,              \* transcript_task
  tasksUp,           \* tasks.is_some()
  streaming,         \* is_streaming_stt
  handler,           \* the handler that holds the lock, and where it awaits
  (* shared with the tasks the pipeline spawned *)
  status,            \* pipeline_status
  watch,             \* the value in session_state_tx, "none" before any setup
  muted,             \* the values in mic_muted_tx and speaker_muted_tx
  monitors,          \* the transcript tasks
  coords,            \* spawned schedule_stream_reconnect tasks
  autoStops,         \* sessions a watchdog spawned a stop task for
  (* the database, and a history variable *)
  rows,              \* the sessions columns completion reads and writes
  gap                \* history: has the current recording lost transcript?

fsmVars == <<state, session, recordingStarted, failed>>
pipelineVars == <<task, tasksUp, streaming>>
channelVars == <<watch, muted>>
vars == <<fsmVars, pipelineVars, channelVars, handler, status, monitors,
          coords, autoStops, rows, gap>>

-----------------------------------------------------------------------------
States == {"inactive", "active", "paused"}
Phases == {"inactive", "starting", "active", "reconnecting", "paused", "failed"}
Stages == {"free", "connecting", "announcing", "streaming", "done"}
Awaits == {"idle", "closing", "awaiting", "completing", "detaching",
           "rebuilding", "verifying", "restarting", "resetting", "judging"}

(* The records: a handler with its arguments, PipelineStatus, a transcript *)
(* task with the flags it shares, a reconnect task, and a sessions row.    *)
Handler == [pc : Awaits, kind : {"none", "stop", "recover"},
            target : Sessions \cup {NoSession}, retry : 0..MaxRetries,
            by : Coordinators \cup {NoCoordinator}]
Status == [phase : Phases, session : Sessions \cup {NoSession},
           enabled : [Inputs -> BOOLEAN]]
Monitor == [stage : Stages, session : Sessions \cup {NoSession},
            connected : BOOLEAN, ok : BOOLEAN, autoStop : BOOLEAN,
            finishing : BOOLEAN, closed : BOOLEAN, drained : BOOLEAN]
Coordinator == [pc : {"free", "notify", "sleeping", "exhausted"},
                session : Sessions \cup {NoSession},
                attempt : 1..MaxAttempts, stale : BOOLEAN]
Row == [started : BOOLEAN, ended : BOOLEAN, needs : BOOLEAN, words : BOOLEAN]

LiveStages == {"connecting", "announcing", "streaming"}

FreeMonitor == [stage |-> "free", session |-> NoSession, connected |-> FALSE,
                ok |-> TRUE, autoStop |-> FALSE, finishing |-> FALSE,
                closed |-> FALSE, drained |-> FALSE]
NewMonitor(s) == [FreeMonitor EXCEPT !.stage = "connecting", !.session = s]

Coord(p, s) == [pc |-> p, session |-> s, attempt |-> 1, stale |-> FALSE]
FreeCoord == Coord("free", NoSession)
NewCoord(s) == Coord("notify", s)
NextAttempt(r) == [r EXCEPT !.pc = "notify", !.attempt = @ + 1]

Handling(p, k, s, n, c) ==
  [pc |-> p, kind |-> k, target |-> s, retry |-> n, by |-> c]
IdleHandler == Handling("idle", "none", NoSession, 0, NoCoordinator)
At(p) == [handler EXCEPT !.pc = p]

InactiveStatus == [phase |-> "inactive", session |-> NoSession,
                   enabled |-> [i \in Inputs |-> TRUE]]

NewRow == [started |-> FALSE, ended |-> FALSE, needs |-> FALSE,
           words |-> FALSE]

Idle == handler.pc = "idle"
Running == state \in {"active", "paused"}
Live(m) == monitors[m].stage \in LiveStages

(* set_pipeline_phase for a phase other than Inactive. *)
InPhase(p, s) == [status EXCEPT !.phase = p, !.session = s]

(* Faulty variant of FailedFor: a pipeline that is reconnecting is left to *)
(* the coordinator, which a device change does not have.                   *)
FailedForSettled(s) ==
  IF status.session = s /\ status.phase \notin {"inactive", "failed", "reconnecting"}
    THEN [status EXCEPT !.phase = "failed"]
    ELSE status

(* PipelineStatus::fail_for_session *)
FailedFor(s) ==
  IF status.session = s /\ status.phase \notin {"inactive", "failed"}
    THEN [status EXCEPT !.phase = "failed"]
    ELSE status

Begun(row) == [row EXCEPT !.ended = FALSE, !.needs = FALSE]
Started(row) == [Begun(row) EXCEPT !.started = TRUE]
Completed(row, drained) ==
  IF row.started /\ ~row.ended
    THEN [row EXCEPT !.ended = TRUE, !.needs = drained /\ row.words]
    ELSE row

Aborted(m) == [monitors EXCEPT ![m] = FreeMonitor]
Lost(s) == [gap EXCEPT ![s] = TRUE]

-----------------------------------------------------------------------------
Init ==
  /\ state = "inactive"
  /\ session = NoSession
  /\ recordingStarted = FALSE
  /\ failed = FALSE
  /\ task = NoMonitor
  /\ tasksUp = FALSE
  /\ streaming = FALSE
  /\ handler = IdleHandler
  /\ status = InactiveStatus
  /\ watch = "none"
  /\ muted = [i \in Inputs |-> FALSE]
  /\ monitors = [m \in Monitors |-> FreeMonitor]
  /\ coords = [c \in Coordinators |-> FreeCoord]
  /\ autoStops = {}
  /\ rows \in [Sessions -> {NewRow, [NewRow EXCEPT !.words = TRUE]}]
  /\ gap = [s \in Sessions |-> FALSE]

-----------------------------------------------------------------------------
(* setup_resources: fresh watch and mute channels, then a fresh monitor.   *)
FreshChannels ==
  /\ watch' = "active"
  /\ muted' = [i \in Inputs |-> FALSE]

BuildPipeline(s) ==
  /\ FreshChannels
  /\ tasksUp' = TRUE
  /\ streaming' \in BOOLEAN
  /\ \E m \in Monitors :
       /\ monitors[m].stage = "free"
       /\ monitors' = [monitors EXCEPT ![m] = NewMonitor(s)]
       /\ task' = m

(* An early return of setup_resources, given the session id held before.   *)
SetupFails(point, s, held) ==
  /\ session' = IF point = "lookup" THEN held ELSE s
  /\ IF point = "connect"
       THEN FreshChannels /\ streaming' \in BOOLEAN
       ELSE UNCHANGED <<channelVars, streaming>>
  /\ UNCHANGED <<monitors, task, tasksUp>>

-----------------------------------------------------------------------------
(* Commands.  Each needs the lock.                                         *)

StartSucceeds(s) ==
  /\ Idle /\ state = "inactive"
  /\ state' = "active"
  /\ session' = s
  /\ failed' = FALSE
  /\ recordingStarted' = TRUE
  /\ status' = InPhase("starting", s)
  /\ BuildPipeline(s)
  /\ rows' \in {[rows EXCEPT ![s] = Begun(@)],      \* the mark was not stored
                [rows EXCEPT ![s] = Started(@)]}
  /\ gap' = [gap EXCEPT ![s] = FALSE]
  /\ coords' = [c \in Coordinators |->
                  [coords[c] EXCEPT !.stale = coords[c].pc # "free"]]
  /\ UNCHANGED <<handler, autoStops>>

(* Faulty variant of StartFails: the session id of the failed start stays. *)
StartFailsHalfway(s) ==
  /\ Idle /\ state = "inactive"
  /\ failed' = TRUE
  /\ session' = s
  /\ status' = InPhase("failed", s)
  /\ UNCHANGED <<state, recordingStarted, pipelineVars, channelVars, handler,
                 monitors, coords, autoStops, rows, gap>>

(* Start fails in begin_recording or in setup, passes through Failed and   *)
(* re-enters Inactive, which finds nothing to drain.                       *)
StartFails(s) ==
  /\ Idle /\ state = "inactive"
  /\ failed' = TRUE
  /\ session' = NoSession
  /\ status' = InactiveStatus
  /\ \E begun, rewired \in BOOLEAN :
       /\ begun => SetupFaults # {}
       /\ rewired => begun /\ "connect" \in SetupFaults
       /\ rows' = IF begun THEN [rows EXCEPT ![s] = Begun(@)] ELSE rows
       /\ watch' = IF rewired \/ watch # "none" THEN "inactive" ELSE "none"
       /\ IF rewired
            THEN muted' = [i \in Inputs |-> FALSE] /\ streaming' \in BOOLEAN
            ELSE UNCHANGED <<muted, streaming>>
  /\ UNCHANGED <<state, recordingStarted, task, tasksUp, handler, monitors,
                 coords, autoStops, gap>>

(* The transition to Inactive, up to the point where enter_inactive awaits *)
(* the drain.  A streaming provider is told that the end is intended.      *)
EnterInactive ==
  /\ state' = "inactive"
  /\ status' = InactiveStatus
  /\ watch' = "inactive"
  /\ recordingStarted' = FALSE
  /\ handler' = Handling("closing", "stop",
                         IF recordingStarted THEN session ELSE NoSession,
                         0, NoCoordinator)
  /\ monitors' = IF streaming /\ task # NoMonitor
                   THEN [monitors EXCEPT ![task].finishing = TRUE]
                   ELSE monitors
  /\ UNCHANGED <<session, failed, pipelineVars, muted, rows, gap, coords>>

Stop ==
  /\ Idle /\ Running
  /\ EnterInactive
  /\ UNCHANGED autoStops

(* Start of another note only stops the one that is running.               *)
StartOther(s) ==
  /\ Idle /\ Running
  /\ session \notin {NoSession, s}
  /\ EnterInactive
  /\ UNCHANGED autoStops

(* The stop task a watchdog spawned: ignored unless its session is current.*)
WatchdogStop(s) ==
  /\ Idle
  /\ s \in autoStops
  /\ autoStops' = autoStops \ {s}
  /\ IF session = s
       THEN EnterInactive
       ELSE UNCHANGED <<fsmVars, pipelineVars, channelVars, handler, status,
                        monitors, coords, rows, gap>>

Pause ==
  /\ Idle /\ state = "active"
  /\ state' = "paused"
  /\ status' = InPhase("paused", session)
  /\ watch' = "paused"
  /\ UNCHANGED <<session, recordingStarted, failed, pipelineVars, muted,
                 handler, monitors, coords, autoStops, rows, gap>>

Resume ==
  /\ Idle /\ state = "paused"
  /\ state' = "active"
  /\ status' = InPhase("active", session)
  /\ watch' = "active"
  /\ recordingStarted' = TRUE
  /\ rows' \in {rows} \cup                          \* the mark was not stored
               {[rows EXCEPT ![s] = Started(@)] : s \in Sessions \cap {session}}
  /\ UNCHANGED <<session, failed, pipelineVars, muted, handler, monitors,
                 coords, autoStops, gap>>

Mute(i, b) ==
  /\ Idle
  /\ muted' = IF watch = "none" THEN muted ELSE [muted EXCEPT ![i] = b]
  /\ status' = [status EXCEPT !.enabled = [j \in Inputs |-> ~muted'[j]]]
  /\ UNCHANGED <<fsmVars, pipelineVars, watch, handler, monitors, coords,
                 autoStops, rows, gap>>

-----------------------------------------------------------------------------
(* Recovery: recover_active_stream and the retried rebuild under it.       *)

Recovering(by, retry, target) ==
  Handling(IF streaming THEN "closing" ELSE "detaching", "recover", target,
           retry, by)

BeginRecovery(by, retry, target) ==
  /\ handler' = Recovering(by, retry, target)
  /\ monitors' = IF streaming /\ task # NoMonitor
                   THEN [monitors EXCEPT ![task].finishing = TRUE]
                   ELSE monitors

(* A different microphone was chosen, or the default input changed in auto *)
(* mode.  The state machine accepts it in every state.                     *)
MicChange ==
  /\ Idle
  /\ session # NoSession /\ tasksUp
  /\ status' = InPhase("reconnecting", session)
  /\ BeginRecovery(NoCoordinator, 0, session)
  /\ UNCHANGED <<fsmVars, pipelineVars, channelVars, coords, autoStops, rows,
                 gap>>

AfterDrain == IF handler.kind = "stop" THEN "completing" ELSE "detaching"

(* The drain both flows share.  Ingress stops, then input_closed is set    *)
(* and the senders drop; with no transcript task the drain is a failure.   *)
CloseInput ==
  /\ handler.pc = "closing"
  /\ IF task = NoMonitor
       THEN /\ handler' = At(AfterDrain)
            /\ failed' = TRUE
            /\ UNCHANGED monitors
       ELSE /\ handler' = At("awaiting")
            /\ monitors' = [monitors EXCEPT ![task].closed = TRUE]
            /\ UNCHANGED failed
  /\ UNCHANGED <<state, session, recordingStarted, pipelineVars, channelVars,
                 status, coords, autoStops, rows, gap>>

(* Faulty variant of Join: the last drain overwrites the verdict.          *)
JoinForgets ==
  /\ handler.pc = "awaiting"
  /\ monitors[task].stage = "done"
  /\ failed' = ~monitors[task].drained
  /\ monitors' = Aborted(task)
  /\ task' = NoMonitor
  /\ handler' = At(AfterDrain)
  /\ UNCHANGED <<state, session, recordingStarted, tasksUp, streaming,
                 channelVars, status, coords, autoStops, rows, gap>>

(* The monitor returned before the deadline: its value is the outcome.     *)
Join ==
  /\ handler.pc = "awaiting"
  /\ monitors[task].stage = "done"
  /\ failed' = (failed \/ ~monitors[task].drained)
  /\ monitors' = Aborted(task)
  /\ task' = NoMonitor
  /\ handler' = At(AfterDrain)
  /\ UNCHANGED <<state, session, recordingStarted, tasksUp, streaming,
                 channelVars, status, coords, autoStops, rows, gap>>

(* Faulty variant of DrainTimesOut: the late monitor is dropped, which     *)
(* detaches a tokio task, and not aborted.                                 *)
DrainLetsGo ==
  /\ handler.pc = "awaiting"
  /\ failed' = TRUE
  /\ task' = NoMonitor
  /\ handler' = At(AfterDrain)
  /\ UNCHANGED <<state, session, recordingStarted, tasksUp, streaming,
                 channelVars, status, monitors, coords, autoStops, rows, gap>>

(* The ingress stop (streaming only) or the monitor missed its deadline.   *)
DrainTimesOut ==
  /\ \/ handler.pc = "awaiting"
     \/ handler.pc = "closing" /\ streaming
  /\ task # NoMonitor
  /\ handler.pc = "awaiting" => Live(task)
  /\ failed' = TRUE
  /\ gap' = Lost(monitors[task].session)
  /\ monitors' = Aborted(task)
  /\ task' = NoMonitor
  /\ handler' = At(AfterDrain)
  /\ UNCHANGED <<state, session, recordingStarted, tasksUp, streaming,
                 channelVars, status, coords, autoStops, rows>>

(* The tail of teardown_resources(true) and of enter_inactive.             *)
CompleteStop ==
  /\ handler.pc = "completing"
  /\ session' = NoSession
  /\ tasksUp' = FALSE
  /\ rows' \in {rows} \cup                          \* completion not stored
               {[rows EXCEPT ![s] = Completed(@, ~failed)] :
                  s \in Sessions \cap {handler.target}}
  /\ handler' = IdleHandler
  /\ UNCHANGED <<state, recordingStarted, failed, task, streaming,
                 channelVars, status, monitors, coords, autoStops, gap>>

(* Faulty variant of Detach: only the audio tasks are aborted.             *)
DetachAudioOnly ==
  /\ handler.pc = "detaching"
  /\ tasksUp' = FALSE
  /\ handler' = At("rebuilding")
  /\ UNCHANGED <<fsmVars, task, streaming, channelVars, status, monitors,
                 coords, autoStops, rows, gap>>

(* Abort what is left of the old pipeline before rebuilding it.            *)
Detach ==
  /\ handler.pc = "detaching"
  /\ IF task = NoMonitor
       THEN UNCHANGED <<failed, monitors, gap>>
       ELSE /\ failed' = TRUE
            /\ monitors' = Aborted(task)
            /\ gap' = Lost(monitors[task].session)
  /\ task' = NoMonitor
  /\ tasksUp' = FALSE
  /\ handler' = At("rebuilding")
  /\ UNCHANGED <<state, session, recordingStarted, streaming, channelVars,
                 status, coords, autoStops, rows>>

Rebuild ==
  /\ handler.pc = "rebuilding"
  /\ \/ /\ session' = handler.target
        /\ BuildPipeline(handler.target)
        /\ handler' = At("verifying")
     \/ /\ \E point \in SetupFaults : SetupFails(point, handler.target, session)
        /\ handler' = At("restarting")
  /\ UNCHANGED <<state, recordingStarted, failed, status, coords, autoStops,
                 rows, gap>>

(* Where the lock goes when a recovery returns: back to the coordinator,   *)
(* which judges the attempt, or to the next command.                       *)
Returned == IF handler.by = NoCoordinator THEN IdleHandler
            ELSE At("judging")

(* wait_for_stream_connection: the monitor connected in time, or it ended  *)
(* without connecting, or the wait timed out.                              *)
Verified ==
  /\ handler.pc = "verifying"
  /\ monitors[task].connected
  /\ handler' = Returned
  /\ UNCHANGED <<fsmVars, pipelineVars, channelVars, status, monitors, coords,
                 autoStops, rows, gap>>

(* Faulty variant of NotVerified: the retry is not counted.                *)
NotVerifiedUncounted ==
  /\ handler.pc = "verifying"
  /\ ~monitors[task].connected
  /\ BeginRecovery(handler.by, handler.retry, handler.target)
  /\ UNCHANGED <<fsmVars, pipelineVars, channelVars, status, coords,
                 autoStops, rows, gap>>

NotVerified ==
  /\ handler.pc = "verifying"
  /\ ~monitors[task].connected
  /\ IF handler.retry < MaxRetries
       THEN BeginRecovery(handler.by, handler.retry + 1, handler.target)
       ELSE handler' = At("restarting") /\ UNCHANGED monitors
  /\ UNCHANGED <<fsmVars, pipelineVars, channelVars, status, coords,
                 autoStops, rows, gap>>

(* The fallback of recover_active_stream: teardown_resources(false) ...    *)
Discard ==
  /\ handler.pc = "restarting"
  /\ session' = NoSession
  /\ failed' = TRUE
  /\ watch' = "inactive"
  /\ IF task = NoMonitor
       THEN UNCHANGED <<monitors, gap>>
       ELSE monitors' = Aborted(task) /\ gap' = Lost(monitors[task].session)
  /\ task' = NoMonitor
  /\ tasksUp' = FALSE
  /\ handler' = At("resetting")
  /\ UNCHANGED <<state, recordingStarted, streaming, muted, status, coords,
                 autoStops, rows>>

(* ... then a setup from nothing, whose connection nobody waits for.       *)
Restart ==
  /\ handler.pc = "resetting"
  /\ \/ /\ session' = handler.target
        /\ BuildPipeline(handler.target)
        /\ UNCHANGED status
     \/ /\ \E point \in SetupFaults : SetupFails(point, handler.target, session)
        /\ status' = InPhase("failed", session')
  /\ handler' = Returned
  /\ UNCHANGED <<state, recordingStarted, failed, coords, autoStops, rows, gap>>

-----------------------------------------------------------------------------
(* Reconnect coordinators: schedule_stream_reconnect.                      *)

(* update_reconnect_pipeline_status, then the attempt's delay begins.      *)
Announce(c) ==
  /\ Idle
  /\ coords[c].pc = "notify"
  /\ status' = IF session = coords[c].session
                 THEN InPhase("reconnecting", session) ELSE status
  /\ coords' = [coords EXCEPT ![c].pc = "sleeping"]
  /\ UNCHANGED <<fsmVars, pipelineVars, channelVars, handler, monitors,
                 autoStops, rows, gap>>

(* The delay is over, but the session moved on or is not running.          *)
Abandon(c) ==
  /\ Idle
  /\ coords[c].pc = "sleeping"
  /\ session # coords[c].session \/ state # "active"
  /\ coords' = [coords EXCEPT ![c] = FreeCoord]
  /\ UNCHANGED <<fsmVars, pipelineVars, channelVars, handler, status, monitors,
                 autoStops, rows, gap>>

(* Otherwise the coordinator keeps the lock and handles ReconnectStream.   *)
Reconnect(c) ==
  /\ Idle
  /\ coords[c].pc = "sleeping"
  /\ session = coords[c].session /\ state = "active"
  /\ status' = InPhase("reconnecting", session)
  /\ BeginRecovery(c, 0, session)
  /\ UNCHANGED <<fsmVars, pipelineVars, channelVars, coords, autoStops, rows,
                 gap>>

(* Faulty variants of Judge: one attempt too many, and attempts that are   *)
(* not counted.                                                            *)
JudgeOneMore ==
  /\ handler.pc = "judging"
  /\ coords' = [coords EXCEPT ![handler.by] = NextAttempt(@)]
  /\ handler' = IdleHandler
  /\ UNCHANGED <<fsmVars, pipelineVars, channelVars, status, monitors,
                 autoStops, rows, gap>>

JudgeUncounted ==
  /\ handler.pc = "judging"
  /\ coords' = [coords EXCEPT ![handler.by].pc = "notify"]
  /\ handler' = IdleHandler
  /\ UNCHANGED <<fsmVars, pipelineVars, channelVars, status, monitors,
                 autoStops, rows, gap>>

(* Still under the lock it reads the phase, which the new monitor sets only*)
(* after it has reported the connection the recovery waited for.           *)
Judge ==
  /\ handler.pc = "judging"
  /\ LET c == handler.by IN
       coords' =
         IF status.phase = "active" /\ session = coords[c].session
           THEN [coords EXCEPT ![c] = FreeCoord]
         ELSE IF coords[c].attempt < MaxAttempts
           THEN [coords EXCEPT ![c] = NextAttempt(@)]
         ELSE [coords EXCEPT ![c].pc = "exhausted"]
  /\ handler' = IdleHandler
  /\ UNCHANGED <<fsmVars, pipelineVars, channelVars, status, monitors,
                 autoStops, rows, gap>>

GiveUp(c) ==
  /\ Idle
  /\ coords[c].pc = "exhausted"
  /\ status' = IF session = coords[c].session
                 THEN InPhase("failed", session) ELSE status
  /\ coords' = [coords EXCEPT ![c] = FreeCoord]
  /\ UNCHANGED <<fsmVars, pipelineVars, channelVars, handler, monitors,
                 autoStops, rows, gap>>

-----------------------------------------------------------------------------
(* The transcript monitor.  Its steps interleave with any handler.         *)

MonitorStep ==
  UNCHANGED <<fsmVars, pipelineVars, channelVars, handler>>

(* The monitor returns `drained'.                                          *)
Return(m, drained) ==
  /\ monitors' = [monitors EXCEPT ![m].stage = "done", ![m].drained = drained]
  /\ gap' = IF drained THEN gap ELSE Lost(monitors[m].session)

ConnectSucceeds(m) ==
  /\ monitors[m].stage = "connecting"
  /\ monitors' = [monitors EXCEPT ![m].stage = "announcing",
                                  ![m].connected = TRUE]
  /\ MonitorStep /\ UNCHANGED <<status, coords, autoStops, rows, gap>>

(* Faulty variant of MarkActive: publishes whatever the phase was.         *)
MarkActiveAnyway(m) ==
  /\ monitors[m].stage = "announcing"
  /\ monitors' = [monitors EXCEPT ![m].stage = "streaming"]
  /\ status' = [status EXCEPT !.phase = "active"]
  /\ MonitorStep /\ UNCHANGED <<coords, autoStops, rows, gap>>

(* mark_pipeline_active, which is not keyed by session.                    *)
MarkActive(m) ==
  /\ monitors[m].stage = "announcing"
  /\ monitors' = [monitors EXCEPT ![m].stage = "streaming"]
  /\ status' = IF status.phase \in {"starting", "reconnecting"}
                 THEN [status EXCEPT !.phase = "active"] ELSE status
  /\ MonitorStep /\ UNCHANGED <<coords, autoStops, rows, gap>>

(* The websocket never opened, or the provider reported a terminal failure *)
(* on it: no reconnect is scheduled.                                       *)
StreamFails(m) ==
  /\ monitors[m].stage \in {"connecting", "streaming"}
  /\ status' = FailedFor(monitors[m].session)
  /\ Return(m, FALSE)
  /\ MonitorStep /\ UNCHANGED <<coords, autoStops, rows>>

WordsStored(m) ==
  /\ monitors[m].stage = "streaming"
  /\ rows' = [rows EXCEPT ![monitors[m].session].words = TRUE]
  /\ MonitorStep /\ UNCHANGED <<status, monitors, coords, autoStops, gap>>

(* A transport error item, or words the database refused: the loop goes on.*)
WordsLost(m) ==
  /\ monitors[m].stage = "streaming"
  /\ monitors' = [monitors EXCEPT ![m].ok = FALSE]
  /\ MonitorStep /\ UNCHANGED <<status, coords, autoStops, rows, gap>>

WatchdogFires(m) ==
  /\ monitors[m].stage = "streaming"
  /\ watch = "active"
  /\ ~monitors[m].autoStop
  /\ monitors' = [monitors EXCEPT ![m].autoStop = TRUE]
  /\ autoStops' = autoStops \cup {monitors[m].session}
  /\ MonitorStep /\ UNCHANGED <<status, coords, rows, gap>>

(* The stream ended.  An end nobody asked for, while the watch reads       *)
(* RunningActive, leaves a reconnect coordinator behind.                   *)
StreamEnds(m) ==
  /\ monitors[m].stage = "streaming"
  /\ Return(m, monitors[m].ok /\ monitors[m].closed)
  /\ IF ~monitors[m].finishing /\ ~monitors[m].autoStop /\ watch = "active"
       THEN \E c \in Coordinators :
              /\ coords[c].pc = "free"
              /\ coords' = [coords EXCEPT ![c] = NewCoord(monitors[m].session)]
       ELSE UNCHANGED coords
  /\ MonitorStep /\ UNCHANGED <<status, autoStops, rows>>

-----------------------------------------------------------------------------
(* The application exits, at any point: only the rows survive.             *)
Crash ==
  /\ state' = "inactive" /\ session' = NoSession
  /\ recordingStarted' = FALSE /\ failed' = FALSE
  /\ task' = NoMonitor /\ tasksUp' = FALSE /\ streaming' = FALSE
  /\ handler' = IdleHandler
  /\ status' = InactiveStatus
  /\ watch' = "none" /\ muted' = [i \in Inputs |-> FALSE]
  /\ monitors' = [m \in Monitors |-> FreeMonitor]
  /\ coords' = [c \in Coordinators |-> FreeCoord]
  /\ autoStops' = {}
  /\ UNCHANGED <<rows, gap>>

Command ==
  \/ \E s \in Sessions : StartSucceeds(s) \/ StartFails(s) \/ StartOther(s)
  \/ Stop \/ Pause \/ Resume \/ MicChange
  \/ \E i \in Inputs, b \in BOOLEAN : Mute(i, b)

HandlerStep ==
  \/ CloseInput \/ Join \/ DrainTimesOut \/ CompleteStop \/ Detach \/ Rebuild
  \/ Verified \/ NotVerified \/ Discard \/ Restart \/ Judge

CoordStep(c) == Announce(c) \/ Abandon(c) \/ Reconnect(c) \/ GiveUp(c)

StreamStep(m) ==
  \/ ConnectSucceeds(m) \/ MarkActive(m) \/ StreamFails(m)
  \/ WordsStored(m) \/ WordsLost(m) \/ WatchdogFires(m) \/ StreamEnds(m)

Next ==
  \/ Command
  \/ HandlerStep
  \/ \E s \in Sessions : WatchdogStop(s)
  \/ \E c \in Coordinators : CoordStep(c)
  \/ \E m \in Monitors : StreamStep(m)
  \/ Crash

Spec == Init /\ [][Next]_vars

(* Fairness.  A handler always goes on: each of its awaits ends or times   *)
(* out.  SharedState is a FIFO mutex, so a coordinator that wants it gets  *)
(* it in the end even if other handlers keep taking it.  A websocket       *)
(* connects or gives up, and a connected monitor gets to announce itself   *)
(* unless it is aborted first, which cannot happen to every one of them.   *)
(* Nothing is assumed of commands, streams, watchdogs or crashes.          *)
Fairness ==
  /\ WF_vars(HandlerStep)
  /\ \A c \in Coordinators : SF_vars(CoordStep(c))
  /\ \A m \in Monitors :
       /\ WF_vars(monitors[m].stage = "connecting"
                    /\ (ConnectSucceeds(m) \/ StreamFails(m)))
       /\ SF_vars(MarkActive(m))

FairSpec == Spec /\ Fairness

-----------------------------------------------------------------------------
(* Properties.                                                             *)

(* Every variable keeps its shape; a handler that awaits a monitor has one.*)
TypeOK ==
  /\ state \in States
  /\ session \in Sessions \cup {NoSession}
  /\ recordingStarted \in BOOLEAN
  /\ failed \in BOOLEAN
  /\ task \in Monitors \cup {NoMonitor}
  /\ tasksUp \in BOOLEAN
  /\ streaming \in BOOLEAN
  /\ handler \in Handler
  /\ handler.pc \in {"awaiting", "verifying"} => task \in Monitors
  /\ status \in Status
  /\ watch \in {"none", "active", "paused", "inactive"}
  /\ muted \in [Inputs -> BOOLEAN]
  /\ monitors \in [Monitors -> Monitor]
  /\ coords \in [Coordinators -> Coordinator]
  /\ autoStops \in SUBSET (Sessions \cup {NoSession})
  /\ rows \in [Sessions -> Row]
  /\ gap \in [Sessions -> BOOLEAN]

(* A recording is queued for a summary only if every transcript task it    *)
(* ever had, across device changes and reconnects, drained and stored all  *)
(* of its output.                                                          *)
SummaryOnlyAfterFullDrain ==
  \A s \in Sessions : rows[s].needs => rows[s].ended /\ ~gap[s]

(* Completion comes last: once a row carries record_end, no transcript     *)
(* task of that note is left that could still append to it.                *)
ClosedRowIsFinal ==
  \A s \in Sessions : rows[s].ended =>
    \A m \in Monitors : monitors[m].session # s

(* No rebuild detaches a transcript task: one that still runs, or whose    *)
(* outcome nobody read yet, is the one the session holds.                  *)
NoOrphanMonitor ==
  \A m \in Monitors : monitors[m].stage # "free" => m = task

(* Between handlers an inactive session holds nothing and reports nothing, *)
(* whichever failed start, recovery or stop led there.                     *)
InactiveIsQuiet ==
  Idle /\ state = "inactive" =>
    /\ session = NoSession /\ ~recordingStarted
    /\ task = NoMonitor /\ ~tasksUp
    /\ status.phase = "inactive" /\ watch \in {"none", "inactive"}

(* A pipeline published as inactive is revived by a successful Start only: *)
(* no monitor, coordinator or recovery of an earlier run touches it.       *)
NoRevival ==
  [][status.phase = "inactive" /\ status'.phase # "inactive"
       => state = "inactive" /\ state' = "active"]_vars

(* The inductive invariant behind the safety properties.                   *)

(* Where a handler may be, and what it holds there.                        *)
HandlerShape ==
  /\ Idle => handler = IdleHandler
  /\ handler.kind = "none" => Idle
  /\ handler.kind = "stop" =>
       /\ handler.pc \in {"closing", "awaiting", "completing"}
       /\ state = "inactive" /\ handler.target \in {session, NoSession}
  /\ handler.kind = "recover" =>
       /\ handler.pc # "completing"
       /\ state # "inactive" /\ handler.target \in Sessions
  /\ handler.pc \in {"completing", "rebuilding", "resetting"} => task = NoMonitor

(* The published phase and the state agree about inactivity.               *)
PhaseShape ==
  /\ state = "inactive" <=> status.phase = "inactive"
  /\ state = "inactive" => ~recordingStarted /\ watch \in {"none", "inactive"}

(* A name is in use exactly while it serves a session.                     *)
TaskShape ==
  /\ \A m \in Monitors :
       monitors[m].stage = "free" <=> monitors[m].session = NoSession
  /\ task \in Monitors => monitors[task].stage # "free"
  /\ \A c \in Coordinators :
       coords[c].pc # "free" => coords[c].session \in Sessions
  /\ handler.by \in Coordinators => coords[handler.by].pc = "sleeping"

(* The notes the pipeline serves: a recovery that falls back to a setup    *)
(* from nothing clears session_id for a while.                             *)
Bound(s) == s \in {session, handler.target}

(* A monitor has returned false and nobody read its outcome yet.           *)
Undrained ==
  task \in Monitors /\ monitors[task].stage = "done" /\ ~monitors[task].drained

(* Whatever was lost of the recording is on record, or about to be; its    *)
(* row stays open until it is complete.                                    *)
LossIsKnown ==
  \A s \in Sessions : Bound(s) =>
    /\ ~rows[s].ended
    /\ gap[s] => failed \/ Undrained

IInv ==
  /\ TypeOK /\ HandlerShape /\ PhaseShape /\ TaskShape /\ LossIsKnown
  /\ NoOrphanMonitor /\ InactiveIsQuiet
  /\ ClosedRowIsFinal /\ SummaryOnlyAfterFullDrain

(* The next four state what comments or the interface say; they do NOT     *)
(* hold.  While the session is paused the audio loop sees the pause and    *)
(* drops what it captures: refuted by a MicChange of a paused session.     *)
PausedIsSilent == Idle /\ state = "paused" => watch # "active"

(* A reconnect that was scheduled in one recording does not rebuild the    *)
(* pipeline of a later one: refuted by Stop and Start of its note while    *)
(* the coordinator sleeps.                                                 *)
StopEndsReconnects ==
  handler.by \in Coordinators => ~coords[handler.by].stale

(* A pipeline reported as failed has no connected transcript stream:       *)
(* refuted by a last Judge that comes before MarkActive.                   *)
FailedMeansDead ==
  Idle /\ status.phase = "failed" =>
    \A m \in Monitors : monitors[m].stage # "streaming"

(* An input reported as disabled is really muted, whatever was rebuilt     *)
(* since the user muted it: refuted by a Rebuild.                          *)
ReportedMuteIsReal ==
  Idle /\ Running => \A i \in Inputs : status.enabled[i] \/ muted[i]

(* The lock is always released: no recovery, drain or verification waits   *)
(* for ever, whatever the provider does.                                   *)
HandlerReturns == ~Idle ~> Idle

(* Every reconnect coordinator ends: it succeeds, is overtaken or gives up.*)
CoordinatorEnds ==
  \A c \in Coordinators : coords[c].pc # "free" ~> coords[c].pc = "free"

(* "Reconnecting" is not the last word on a session that keeps running: it *)
(* ends in active or failed, unless the user pauses or stops, once the     *)
(* microphones stop changing.                                              *)
ReconnectSettles ==
  <>[][~MicChange]_vars =>
    (status.phase = "reconnecting" ~>
       status.phase # "reconnecting" \/ state = "paused")
=============================================================================
