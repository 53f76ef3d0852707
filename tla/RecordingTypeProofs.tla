------------------------- MODULE RecordingTypeProofs -------------------------
(***************************************************************************)
(* Type correctness of RecordingSession, for any number of notes, tasks,   *)
(* coordinators, attempts and retries.  The first lemmas say what the      *)
(* operators of the model return; the step has one case for each action.   *)
(***************************************************************************)
EXTENDS RecordingSession, TLAPS

(* The phase of a pipeline status can be set, and fail, and be reset.      *)
LEMMA StatusInPhase ==
  ASSUME status \in Status, NEW p \in Phases, NEW s \in Sessions \cup {NoSession}
  PROVE  InPhase(p, s) \in Status
BY DEF InPhase, Status

(* fail_for_session keeps a pipeline status.                               *)
LEMMA StatusFailed ==
  ASSUME status \in Status, NEW s
  PROVE  FailedFor(s) \in Status
BY DEF FailedFor, Status, Phases

(* The inactive status is one.                                             *)
LEMMA StatusInactive == InactiveStatus \in Status
BY DEF InactiveStatus, Status, Phases

(* A handler can go on to any await.                                       *)
LEMMA HandlerAt ==
  ASSUME handler \in Handler, NEW p \in Awaits
  PROVE  At(p) \in Handler
BY DEF At, Handler

(* The idle handler is one.                                                *)
LEMMA HandlerIdle == IdleHandler \in Handler
BY ConstantsAssumption DEF IdleHandler, Handling, Handler, Awaits

(* enter_inactive starts a handler.                                        *)
LEMMA HandlerStopping ==
  ASSUME NEW s \in Sessions \cup {NoSession}
  PROVE  Handling("closing", "stop", s, 0, NoCoordinator) \in Handler
BY ConstantsAssumption DEF Handling, Handler, Awaits

(* A recovery starts a handler.                                            *)
LEMMA HandlerRecovering ==
  ASSUME NEW s \in Sessions \cup {NoSession}, NEW n \in 0..MaxRetries,
         NEW c \in Coordinators \cup {NoCoordinator}
  PROVE  Recovering(c, n, s) \in Handler
BY DEF Recovering, Handling, Handler, Awaits

(* One transcript task replaced by another.                                *)
LEMMA MonitorUpdate ==
  ASSUME monitors \in [Monitors -> Monitor], NEW m, NEW r \in Monitor
  PROVE  [monitors EXCEPT ![m] = r] \in [Monitors -> Monitor]
OBVIOUS

(* A free name is a transcript task.                                       *)
LEMMA MonitorFree == FreeMonitor \in Monitor
BY DEF FreeMonitor, Monitor, Stages

(* A spawned task is one.                                                  *)
LEMMA MonitorNew ==
  ASSUME NEW s \in Sessions \cup {NoSession}
  PROVE  NewMonitor(s) \in Monitor
BY DEF NewMonitor, FreeMonitor, Monitor, Stages

(* The drain of a streaming provider raises the finishing flag.            *)
LEMMA MonitorFinishing ==
  ASSUME monitors \in [Monitors -> Monitor], NEW m
  PROVE  [monitors EXCEPT ![m].finishing = TRUE] \in [Monitors -> Monitor]
BY DEF Monitor

(* The steps of a transcript task, before it returns, and input_closed.    *)
LEMMA MonitorSteps ==
  ASSUME monitors \in [Monitors -> Monitor], NEW m \in Monitors
  PROVE  /\ [monitors EXCEPT ![m].stage = "announcing", ![m].connected = TRUE]
              \in [Monitors -> Monitor]
         /\ [monitors EXCEPT ![m].stage = "streaming"] \in [Monitors -> Monitor]
         /\ [monitors EXCEPT ![m].ok = FALSE] \in [Monitors -> Monitor]
         /\ [monitors EXCEPT ![m].autoStop = TRUE] \in [Monitors -> Monitor]
         /\ [monitors EXCEPT ![m].closed = TRUE] \in [Monitors -> Monitor]
<1>1. monitors[m] \in Monitor
  OBVIOUS
<1>2. /\ [monitors[m] EXCEPT !.stage = "announcing", !.connected = TRUE] \in Monitor
      /\ [monitors[m] EXCEPT !.stage = "streaming"] \in Monitor
      /\ [monitors[m] EXCEPT !.ok = FALSE] \in Monitor
      /\ [monitors[m] EXCEPT !.autoStop = TRUE] \in Monitor
      /\ [monitors[m] EXCEPT !.closed = TRUE] \in Monitor
  BY <1>1 DEF Monitor, Stages
<1>3. QED
  BY <1>2

(* The return of a transcript task.                                        *)
LEMMA ReturnTyped ==
  ASSUME monitors \in [Monitors -> Monitor], gap \in [Sessions -> BOOLEAN],
         NEW m \in Monitors, NEW b \in BOOLEAN, Return(m, b)
  PROVE  /\ monitors' \in [Monitors -> Monitor]
         /\ gap' \in [Sessions -> BOOLEAN]
<1>1. monitors[m] \in Monitor
  OBVIOUS
<1>2. [monitors[m] EXCEPT !.stage = "done", !.drained = b] \in Monitor
  BY <1>1 DEF Monitor, Stages
<1>3. monitors' = [monitors EXCEPT ![m] =
                     [monitors[m] EXCEPT !.stage = "done", !.drained = b]]
  BY <1>1 DEF Return, Monitor
<1>4. monitors' \in [Monitors -> Monitor]
  BY <1>2, <1>3
<1>5. gap' \in [Sessions -> BOOLEAN]
  BY DEF Return, Lost
<1>6. QED
  BY <1>4, <1>5

(* A free name is a coordinator.                                           *)
LEMMA CoordinatorFree == FreeCoord \in Coordinator
BY ConstantsAssumption DEF FreeCoord, Coord, Coordinator

(* A spawned coordinator is one.                                           *)
LEMMA CoordinatorNew ==
  ASSUME NEW s \in Sessions \cup {NoSession}
  PROVE  NewCoord(s) \in Coordinator
BY ConstantsAssumption DEF NewCoord, Coord, Coordinator

(* The count of attempts stays within the table of delays.                 *)
LEMMA CoordinatorNext ==
  ASSUME NEW k \in Coordinator, k.attempt < MaxAttempts
  PROVE  NextAttempt(k) \in Coordinator
<1>1. k.attempt \in 1..MaxAttempts
  BY DEF Coordinator
<1>2. k.attempt + 1 \in 1..MaxAttempts
  BY <1>1, ConstantsAssumption
<1>3. QED
  BY <1>2 DEF NextAttempt, Coordinator

(* The row updates keep a row a row.                                       *)
LEMMA RowUpdates ==
  ASSUME NEW row \in Row, NEW b \in BOOLEAN
  PROVE  /\ Begun(row) \in Row
         /\ Started(row) \in Row
         /\ Completed(row, b) \in Row
BY DEF Begun, Started, Completed, Row

(* The way into Inactive, whichever command takes it.                      *)
LEMMA EnterInactiveTyped ==
  ASSUME TypeOK, EnterInactive, autoStops' \in SUBSET (Sessions \cup {NoSession})
  PROVE  TypeOK'
<1>1. status' \in Status
  BY StatusInactive DEF EnterInactive
<1>2. handler' \in Handler /\ handler'.pc = "closing"
  BY HandlerStopping DEF EnterInactive, TypeOK, Handling
<1>3. monitors' \in [Monitors -> Monitor]
  BY MonitorFinishing DEF EnterInactive, TypeOK
<1>4. QED
  BY <1>1, <1>2, <1>3 DEF EnterInactive, TypeOK, States, pipelineVars

-----------------------------------------------------------------------------
(* The initial states have their types.                                    *)
LEMMA TypeInit == Init => TypeOK
<1> SUFFICES ASSUME Init PROVE TypeOK
  OBVIOUS
<1>1. NewRow \in Row /\ [NewRow EXCEPT !.words = TRUE] \in Row
  BY DEF NewRow, Row
<1>2. rows \in [Sessions -> Row]
  BY <1>1 DEF Init
<1>3. handler \in Handler /\ handler.pc = "idle"
  BY HandlerIdle DEF Init, IdleHandler, Handling
<1>4. QED
  BY <1>2, <1>3, StatusInactive, MonitorFree, CoordinatorFree
     DEF Init, TypeOK, States

(* Every step keeps them.                                                  *)
LEMMA TypeStep == TypeOK /\ [Next]_vars => TypeOK'
<1> SUFFICES ASSUME TypeOK, [Next]_vars PROVE TypeOK'
  OBVIOUS
<1> USE ConstantsAssumption DEF TypeOK, vars, fsmVars, pipelineVars, channelVars
<1>1. ASSUME NEW s \in Sessions, StartSucceeds(s) PROVE TypeOK'
  BY <1>1, StatusInPhase, MonitorNew, MonitorUpdate, RowUpdates
     DEF StartSucceeds, BuildPipeline, FreshChannels, States, Phases, Coordinator
<1>2. ASSUME NEW s \in Sessions, StartFails(s) PROVE TypeOK'
  <2>1. status' \in Status
    BY <1>2, StatusInactive DEF StartFails
  <2>2. rows' \in [Sessions -> Row]
    BY <1>2, RowUpdates DEF StartFails
  <2>3. streaming' \in BOOLEAN /\ muted' \in [Inputs -> BOOLEAN]
    BY <1>2 DEF StartFails
  <2>4. watch' \in {"none", "active", "paused", "inactive"}
    BY <1>2 DEF StartFails
  <2>5. QED
    BY <1>2, <2>1, <2>2, <2>3, <2>4 DEF StartFails
<1>3. ASSUME NEW s \in Sessions, StartOther(s) PROVE TypeOK'
  BY <1>3, EnterInactiveTyped DEF StartOther
<1>4. ASSUME Stop PROVE TypeOK'
  BY <1>4, EnterInactiveTyped DEF Stop
<1>5. ASSUME Pause PROVE TypeOK'
  BY <1>5, StatusInPhase DEF Pause, States, Phases, Idle
<1>6. ASSUME Resume PROVE TypeOK'
  BY <1>6, StatusInPhase, RowUpdates DEF Resume, States, Phases
<1>7. ASSUME MicChange PROVE TypeOK'
  BY <1>7, StatusInPhase, MonitorFinishing, HandlerRecovering
     DEF MicChange, BeginRecovery, Phases, Recovering, Handling
<1>8. ASSUME NEW i \in Inputs, NEW b \in BOOLEAN, Mute(i, b) PROVE TypeOK'
  BY <1>8 DEF Mute, Status
<1>9. ASSUME NEW s \in Sessions, WatchdogStop(s) PROVE TypeOK'
  BY <1>9, EnterInactiveTyped DEF WatchdogStop
<1>10. ASSUME CloseInput PROVE TypeOK'
  <2>1. CASE task = NoMonitor
    BY <1>10, <2>1, HandlerAt DEF CloseInput, AfterDrain, At, Awaits, Handler
  <2>2. CASE task # NoMonitor
    <3>1. task \in Monitors
      BY <2>2
    <3>2. monitors' = [monitors EXCEPT ![task].closed = TRUE]
      BY <1>10, <2>2 DEF CloseInput
    <3>3. monitors' \in [Monitors -> Monitor]
      BY <3>1, <3>2, MonitorSteps
    <3>4. handler' \in Handler
      BY <1>10, <2>2, HandlerAt DEF CloseInput, Awaits
    <3>5. QED
      BY <1>10, <2>2, <3>3, <3>4 DEF CloseInput
  <2>3. QED
    BY <2>1, <2>2
<1>11. ASSUME Join PROVE TypeOK'
  BY <1>11, HandlerAt, MonitorFree, MonitorUpdate
     DEF Join, Aborted, AfterDrain, At, Awaits, Monitor
<1>12. ASSUME DrainTimesOut PROVE TypeOK'
  BY <1>12, HandlerAt, MonitorFree, MonitorUpdate
     DEF DrainTimesOut, Aborted, Lost, AfterDrain, At, Awaits
<1>13. ASSUME CompleteStop PROVE TypeOK'
  <2>1. (~failed) \in BOOLEAN
    OBVIOUS
  <2>2. \A s \in Sessions : Completed(rows[s], ~failed) \in Row
    BY <2>1, RowUpdates
  <2>3. rows' \in [Sessions -> Row]
    BY <1>13, <2>2 DEF CompleteStop
  <2>4. handler' \in Handler /\ handler'.pc = "idle"
    BY <1>13, HandlerIdle DEF CompleteStop, IdleHandler, Handling
  <2>5. QED
    BY <1>13, <2>3, <2>4 DEF CompleteStop
<1>14. ASSUME Detach PROVE TypeOK'
  BY <1>14, HandlerAt, MonitorFree, MonitorUpdate
     DEF Detach, Aborted, Lost, At, Awaits
<1>15. ASSUME Rebuild PROVE TypeOK'
  <2>1. handler.target \in Sessions \cup {NoSession}
    BY DEF Handler
  <2>2. CASE BuildPipeline(handler.target) /\ session' = handler.target
             /\ handler' = At("verifying")
    <3>1. handler' \in Handler
      BY <2>2, HandlerAt DEF Awaits
    <3>2. NewMonitor(handler.target) \in Monitor
      BY <2>1, MonitorNew
    <3>3. monitors' \in [Monitors -> Monitor] /\ task' \in Monitors
      BY <2>2, <3>2, MonitorUpdate DEF BuildPipeline
    <3>4. QED
      BY <1>15, <2>1, <2>2, <3>1, <3>3 DEF Rebuild, BuildPipeline, FreshChannels
  <2>3. CASE /\ \E point \in SetupFaults :
                  SetupFails(point, handler.target, session)
             /\ handler' = At("restarting")
    <3>1. handler' \in Handler /\ handler'.pc = "restarting"
      BY <2>3, HandlerAt DEF Awaits, At, Handler
    <3>2. QED
      BY <1>15, <2>1, <2>3, <3>1 DEF Rebuild, SetupFails, FreshChannels
  <2>4. QED
    BY <1>15, <2>2, <2>3 DEF Rebuild
<1>16. ASSUME Verified PROVE TypeOK'
  BY <1>16, HandlerAt, HandlerIdle
     DEF Verified, Returned, At, Awaits, IdleHandler, Handling
<1>17. ASSUME NotVerified PROVE TypeOK'
  <2>1. handler.target \in Sessions \cup {NoSession}
        /\ handler.by \in Coordinators \cup {NoCoordinator}
        /\ handler.retry \in 0..MaxRetries
    BY DEF Handler
  <2>2. CASE /\ handler.retry < MaxRetries
             /\ BeginRecovery(handler.by, handler.retry + 1, handler.target)
    <3>1. handler.retry + 1 \in 0..MaxRetries
      BY <2>1, <2>2
    <3>2. handler' \in Handler
      BY <2>1, <2>2, <3>1, HandlerRecovering DEF BeginRecovery
    <3>3. handler'.pc \in {"closing", "detaching"}
      BY <2>2 DEF BeginRecovery, Recovering, Handling
    <3>4. monitors' \in [Monitors -> Monitor]
      BY <2>2, MonitorFinishing DEF BeginRecovery
    <3>5. QED
      BY <1>17, <3>2, <3>3, <3>4 DEF NotVerified
  <2>3. CASE handler' = At("restarting") /\ UNCHANGED monitors
    <3>1. handler' \in Handler /\ handler'.pc = "restarting"
      BY <2>3, HandlerAt DEF At, Handler, Awaits
    <3>2. QED
      BY <1>17, <2>3, <3>1 DEF NotVerified
  <2>4. QED
    BY <1>17, <2>2, <2>3 DEF NotVerified
<1>18. ASSUME Discard PROVE TypeOK'
  BY <1>18, HandlerAt, MonitorFree, MonitorUpdate
     DEF Discard, Aborted, Lost, At, Awaits
<1>19. ASSUME Restart PROVE TypeOK'
  <2>1. handler.target \in Sessions \cup {NoSession}
    BY DEF Handler
  <2>2. handler' \in Handler /\ handler'.pc \in {"idle", "judging"}
    BY <1>19, HandlerAt, HandlerIdle
       DEF Restart, Returned, At, Handler, Awaits, IdleHandler, Handling
  <2>3. CASE BuildPipeline(handler.target) /\ session' = handler.target
             /\ UNCHANGED status
    <3>1. NewMonitor(handler.target) \in Monitor
      BY <2>1, MonitorNew
    <3>2. monitors' \in [Monitors -> Monitor] /\ task' \in Monitors
      BY <2>3, <3>1, MonitorUpdate DEF BuildPipeline
    <3>3. QED
      BY <1>19, <2>1, <2>2, <2>3, <3>2 DEF Restart, BuildPipeline, FreshChannels
  <2>4. CASE /\ \E point \in SetupFaults :
                  SetupFails(point, handler.target, session)
             /\ status' = InPhase("failed", session')
    <3>1. session' \in Sessions \cup {NoSession}
      BY <2>1, <2>4 DEF SetupFails
    <3>2. status' \in Status
      BY <2>4, <3>1, StatusInPhase DEF Phases
    <3>3. QED
      BY <1>19, <2>2, <2>4, <3>1, <3>2 DEF Restart, SetupFails, FreshChannels
  <2>5. QED
    BY <1>19, <2>3, <2>4 DEF Restart
<1>20. ASSUME Judge PROVE TypeOK'
  <2> DEFINE c == handler.by
  <2>1. coords' \in [Coordinators -> Coordinator]
    <3>1. CASE coords' = [coords EXCEPT ![c] = FreeCoord]
      BY <3>1, CoordinatorFree
    <3>2. CASE /\ coords[c].attempt < MaxAttempts
               /\ coords' = [coords EXCEPT ![c] = NextAttempt(@)]
      <4>1. c \in Coordinators => coords[c] \in Coordinator
        OBVIOUS
      <4>2. c \in Coordinators => NextAttempt(coords[c]) \in Coordinator
        BY <3>2, <4>1, CoordinatorNext
      <4>3. QED
        BY <3>2, <4>1, <4>2
    <3>3. CASE coords' = [coords EXCEPT ![c].pc = "exhausted"]
      BY <3>3 DEF Coordinator
    <3>4. QED
      BY <1>20, <3>1, <3>2, <3>3 DEF Judge
  <2>2. handler' \in Handler /\ handler'.pc = "idle"
    BY <1>20, HandlerIdle DEF Judge, IdleHandler, Handling
  <2>3. QED
    BY <1>20, <2>1, <2>2 DEF Judge
<1>21. ASSUME NEW c \in Coordinators, Announce(c) PROVE TypeOK'
  BY <1>21, StatusInPhase DEF Announce, Phases, Coordinator
<1>22. ASSUME NEW c \in Coordinators, Abandon(c) PROVE TypeOK'
  BY <1>22, CoordinatorFree DEF Abandon
<1>23. ASSUME NEW c \in Coordinators, Reconnect(c) PROVE TypeOK'
  BY <1>23, StatusInPhase, MonitorFinishing, HandlerRecovering
     DEF Reconnect, BeginRecovery, Phases, Recovering, Handling
<1>24. ASSUME NEW c \in Coordinators, GiveUp(c) PROVE TypeOK'
  BY <1>24, CoordinatorFree, StatusInPhase DEF GiveUp, Phases
<1>25. ASSUME NEW m \in Monitors, ConnectSucceeds(m) PROVE TypeOK'
  BY <1>25, MonitorSteps DEF ConnectSucceeds, MonitorStep
<1>26. ASSUME NEW m \in Monitors, MarkActive(m) PROVE TypeOK'
  BY <1>26, MonitorSteps DEF MarkActive, MonitorStep, Status, Phases
<1>27. ASSUME NEW m \in Monitors, StreamFails(m) PROVE TypeOK'
  BY <1>27, StatusFailed, ReturnTyped DEF StreamFails, MonitorStep
<1>28. ASSUME NEW m \in Monitors, WordsStored(m) PROVE TypeOK'
  BY <1>28 DEF WordsStored, MonitorStep, Row
<1>29. ASSUME NEW m \in Monitors, WordsLost(m) PROVE TypeOK'
  BY <1>29, MonitorSteps DEF WordsLost, MonitorStep
<1>30. ASSUME NEW m \in Monitors, WatchdogFires(m) PROVE TypeOK'
  <2>1. monitors' \in [Monitors -> Monitor]
    BY <1>30, MonitorSteps DEF WatchdogFires
  <2>2. autoStops' \in SUBSET (Sessions \cup {NoSession})
    BY <1>30 DEF WatchdogFires, Monitor
  <2>3. QED
    BY <1>30, <2>1, <2>2 DEF WatchdogFires, MonitorStep
<1>31. ASSUME NEW m \in Monitors, StreamEnds(m) PROVE TypeOK'
  <2>1. (monitors[m].ok /\ monitors[m].closed) \in BOOLEAN
    BY DEF Monitor
  <2>2. monitors' \in [Monitors -> Monitor] /\ gap' \in [Sessions -> BOOLEAN]
    BY <1>31, <2>1, ReturnTyped DEF StreamEnds
  <2>3. monitors[m].session \in Sessions \cup {NoSession}
    BY DEF Monitor
  <2>4. coords' \in [Coordinators -> Coordinator]
    BY <1>31, <2>3, CoordinatorNew DEF StreamEnds
  <2>5. QED
    BY <1>31, <2>2, <2>4 DEF StreamEnds, MonitorStep
<1>32. ASSUME Crash PROVE TypeOK'
  BY <1>32, StatusInactive, HandlerIdle, MonitorFree, CoordinatorFree
     DEF Crash, States, IdleHandler, Handling
<1>33. CASE UNCHANGED vars
  BY <1>33
<1>34. QED
  BY <1>1, <1>2, <1>3, <1>4, <1>5, <1>6, <1>7, <1>8, <1>9, <1>10, <1>11,
     <1>12, <1>13, <1>14, <1>15, <1>16, <1>17, <1>18, <1>19, <1>20, <1>21,
     <1>22, <1>23, <1>24, <1>25, <1>26, <1>27, <1>28, <1>29, <1>30, <1>31,
     <1>32, <1>33
     DEF Next, Command, HandlerStep, CoordStep, StreamStep

(* Every variable keeps its shape, and a handler that awaits a transcript  *)
(* task has one.                                                           *)
THEOREM Typing == Spec => []TypeOK
BY TypeInit, TypeStep, PTL DEF Spec
=============================================================================
