------------------------ MODULE RecordingSafetyProofs ------------------------
(***************************************************************************)
(* The inductive invariant IInv of RecordingSession, one lemma for each of *)
(* its conjuncts with one step for each action, and the safety theorems.   *)
(***************************************************************************)
EXTENDS RecordingTypeProofs

(* The row updates keep a row a row; a begun or marked row is open.        *)
LEMMA RowFacts ==
  ASSUME NEW row \in Row, NEW b \in BOOLEAN
  PROVE  /\ Begun(row) \in Row /\ ~Begun(row).ended /\ ~Begun(row).needs
         /\ Started(row) \in Row /\ ~Started(row).ended /\ ~Started(row).needs
         /\ Completed(row, b) \in Row
BY DEF Begun, Started, Completed, Row

(* The handler stays where its flow may be, with what it holds there.      *)
LEMMA HandlerKept ==
  ASSUME IInv, [Next]_vars
  PROVE  HandlerShape'
<1> USE ConstantsAssumption
      DEF IInv, HandlerShape, PhaseShape, InactiveIsQuiet, TaskShape, Idle,
          TypeOK, Handler, Awaits, Coordinator, fsmVars, pipelineVars,
          channelVars
<1>1. ASSUME NEW s \in Sessions, StartSucceeds(s) PROVE HandlerShape'
  BY <1>1
     DEF StartSucceeds, BuildPipeline, FreshChannels, NewMonitor, InPhase, Idle
<1>2. ASSUME NEW s \in Sessions, StartFails(s) PROVE HandlerShape'
  BY <1>2 DEF StartFails, InactiveStatus, Idle
<1>3. ASSUME NEW s \in Sessions, StartOther(s) PROVE HandlerShape'
  BY <1>3
     DEF StartOther, EnterInactive, InactiveStatus, Handling, Idle, Running
<1>4. ASSUME Stop PROVE HandlerShape'
  BY <1>4 DEF Stop, EnterInactive, InactiveStatus, Handling, Idle, Running
<1>5. ASSUME Pause PROVE HandlerShape'
  BY <1>5 DEF Pause, InPhase, Idle
<1>6. ASSUME Resume PROVE HandlerShape'
  BY <1>6 DEF Resume, InPhase, Idle
<1>7. ASSUME MicChange PROVE HandlerShape'
  BY <1>7 DEF MicChange, BeginRecovery, Recovering, Handling, InPhase, Idle
<1>8. ASSUME NEW i \in Inputs, NEW b \in BOOLEAN, Mute(i, b)
      PROVE HandlerShape'
  BY <1>8 DEF Mute, Idle
<1>9. ASSUME NEW s \in Sessions, WatchdogStop(s) PROVE HandlerShape'
  BY <1>9 DEF WatchdogStop, EnterInactive, InactiveStatus, Handling, Idle
<1>10. ASSUME CloseInput PROVE HandlerShape'
  BY <1>10 DEF CloseInput, At, AfterDrain
<1>11. ASSUME Join PROVE HandlerShape'
  BY <1>11 DEF Join, Aborted, At, AfterDrain
<1>12. ASSUME DrainTimesOut PROVE HandlerShape'
  BY <1>12 DEF DrainTimesOut, Aborted, Lost, At, AfterDrain, Live, LiveStages
<1>13. ASSUME CompleteStop PROVE HandlerShape'
  BY <1>13 DEF CompleteStop, IdleHandler, Handling
<1>14. ASSUME Detach PROVE HandlerShape'
  BY <1>14 DEF Detach, Aborted, Lost, At
<1>15. ASSUME Rebuild PROVE HandlerShape'
  BY <1>15
     DEF Rebuild, SetupFails, BuildPipeline, FreshChannels, NewMonitor, At
<1>16. ASSUME Verified PROVE HandlerShape'
  BY <1>16 DEF Verified, Returned, At, IdleHandler, Handling
<1>17. ASSUME NotVerified PROVE HandlerShape'
  BY <1>17 DEF NotVerified, BeginRecovery, Recovering, Handling, At
<1>18. ASSUME Discard PROVE HandlerShape'
  BY <1>18 DEF Discard, Aborted, Lost, At
<1>19. ASSUME Restart PROVE HandlerShape'
  BY <1>19
     DEF Restart, SetupFails, BuildPipeline, FreshChannels, NewMonitor,
         InPhase, Returned, At, IdleHandler, Handling
<1>20. ASSUME Judge PROVE HandlerShape'
  BY <1>20 DEF Judge, IdleHandler, Handling
<1>21. ASSUME NEW c \in Coordinators, Announce(c) PROVE HandlerShape'
  BY <1>21 DEF Announce, InPhase, Idle
<1>22. ASSUME NEW c \in Coordinators, Abandon(c) PROVE HandlerShape'
  BY <1>22 DEF Abandon, Idle
<1>23. ASSUME NEW c \in Coordinators, Reconnect(c) PROVE HandlerShape'
  BY <1>23 DEF Reconnect, BeginRecovery, Recovering, Handling, InPhase, Idle
<1>24. ASSUME NEW c \in Coordinators, GiveUp(c) PROVE HandlerShape'
  BY <1>24 DEF GiveUp, InPhase, Idle
<1>25. ASSUME NEW m \in Monitors, ConnectSucceeds(m) PROVE HandlerShape'
  BY <1>25 DEF ConnectSucceeds, MonitorStep
<1>26. ASSUME NEW m \in Monitors, MarkActive(m) PROVE HandlerShape'
  BY <1>26 DEF MarkActive, MonitorStep
<1>27. ASSUME NEW m \in Monitors, StreamFails(m) PROVE HandlerShape'
  BY <1>27 DEF StreamFails, MonitorStep, FailedFor, Return, Lost
<1>28. ASSUME NEW m \in Monitors, WordsStored(m) PROVE HandlerShape'
  BY <1>28 DEF WordsStored, MonitorStep
<1>29. ASSUME NEW m \in Monitors, WordsLost(m) PROVE HandlerShape'
  BY <1>29 DEF WordsLost, MonitorStep
<1>30. ASSUME NEW m \in Monitors, WatchdogFires(m) PROVE HandlerShape'
  BY <1>30 DEF WatchdogFires, MonitorStep
<1>31. ASSUME NEW m \in Monitors, StreamEnds(m) PROVE HandlerShape'
  BY <1>31 DEF StreamEnds, MonitorStep, Return, Lost
<1>32. ASSUME Crash PROVE HandlerShape'
  BY <1>32 DEF Crash, InactiveStatus, IdleHandler, Handling
<1>33. CASE UNCHANGED vars
  BY <1>33 DEF vars
<1>34. QED
  BY <1>1, <1>2, <1>3, <1>4, <1>5, <1>6, <1>7, <1>8, <1>9, <1>10, <1>11, <1>12,
     <1>13, <1>14, <1>15, <1>16, <1>17, <1>18, <1>19, <1>20, <1>21, <1>22,
     <1>23, <1>24, <1>25, <1>26, <1>27, <1>28, <1>29, <1>30, <1>31, <1>32,
     <1>33
     DEF Next, Command, HandlerStep, CoordStep, StreamStep

(* The published phase and the state machine agree about inactivity.       *)
LEMMA PhaseKept ==
  ASSUME IInv, [Next]_vars
  PROVE  PhaseShape'
<1> USE ConstantsAssumption
      DEF IInv, HandlerShape, PhaseShape, TaskShape, InactiveIsQuiet, TypeOK,
          Handler, Status, Awaits, Idle, States, fsmVars, pipelineVars,
          channelVars
<1>1. ASSUME NEW s \in Sessions, StartSucceeds(s) PROVE PhaseShape'
  BY <1>1
     DEF StartSucceeds, BuildPipeline, FreshChannels, NewMonitor, InPhase, Idle
<1>2. ASSUME NEW s \in Sessions, StartFails(s) PROVE PhaseShape'
  BY <1>2 DEF StartFails, InactiveStatus, Idle
<1>3. ASSUME NEW s \in Sessions, StartOther(s) PROVE PhaseShape'
  BY <1>3
     DEF StartOther, EnterInactive, InactiveStatus, Handling, Idle, Running
<1>4. ASSUME Stop PROVE PhaseShape'
  BY <1>4 DEF Stop, EnterInactive, InactiveStatus, Handling, Idle, Running
<1>5. ASSUME Pause PROVE PhaseShape'
  BY <1>5 DEF Pause, InPhase, Idle
<1>6. ASSUME Resume PROVE PhaseShape'
  BY <1>6 DEF Resume, InPhase, Idle
<1>7. ASSUME MicChange PROVE PhaseShape'
  BY <1>7 DEF MicChange, BeginRecovery, Recovering, Handling, InPhase, Idle
<1>8. ASSUME NEW i \in Inputs, NEW b \in BOOLEAN, Mute(i, b) PROVE PhaseShape'
  BY <1>8 DEF Mute, Idle
<1>9. ASSUME NEW s \in Sessions, WatchdogStop(s) PROVE PhaseShape'
  BY <1>9 DEF WatchdogStop, EnterInactive, InactiveStatus, Handling, Idle
<1>10. ASSUME CloseInput PROVE PhaseShape'
  BY <1>10 DEF CloseInput, At, AfterDrain
<1>11. ASSUME Join PROVE PhaseShape'
  BY <1>11 DEF Join, Aborted, At, AfterDrain
<1>12. ASSUME DrainTimesOut PROVE PhaseShape'
  BY <1>12 DEF DrainTimesOut, Aborted, Lost, At, AfterDrain, Live, LiveStages
<1>13. ASSUME CompleteStop PROVE PhaseShape'
  BY <1>13 DEF CompleteStop, IdleHandler, Handling
<1>14. ASSUME Detach PROVE PhaseShape'
  BY <1>14 DEF Detach, Aborted, Lost, At
<1>15. ASSUME Rebuild PROVE PhaseShape'
  BY <1>15
     DEF Rebuild, SetupFails, BuildPipeline, FreshChannels, NewMonitor, At
<1>16. ASSUME Verified PROVE PhaseShape'
  BY <1>16 DEF Verified, Returned, At, IdleHandler, Handling
<1>17. ASSUME NotVerified PROVE PhaseShape'
  BY <1>17 DEF NotVerified, BeginRecovery, Recovering, Handling, At
<1>18. ASSUME Discard PROVE PhaseShape'
  BY <1>18 DEF Discard, Aborted, Lost, At
<1>19. ASSUME Restart PROVE PhaseShape'
  BY <1>19
     DEF Restart, SetupFails, BuildPipeline, FreshChannels, NewMonitor,
         InPhase, Returned, At, IdleHandler, Handling
<1>20. ASSUME Judge PROVE PhaseShape'
  BY <1>20 DEF Judge, IdleHandler, Handling
<1>21. ASSUME NEW c \in Coordinators, Announce(c) PROVE PhaseShape'
  BY <1>21 DEF Announce, InPhase, Idle
<1>22. ASSUME NEW c \in Coordinators, Abandon(c) PROVE PhaseShape'
  BY <1>22 DEF Abandon, Idle
<1>23. ASSUME NEW c \in Coordinators, Reconnect(c) PROVE PhaseShape'
  BY <1>23 DEF Reconnect, BeginRecovery, Recovering, Handling, InPhase, Idle
<1>24. ASSUME NEW c \in Coordinators, GiveUp(c) PROVE PhaseShape'
  BY <1>24 DEF GiveUp, InPhase, Idle
<1>25. ASSUME NEW m \in Monitors, ConnectSucceeds(m) PROVE PhaseShape'
  BY <1>25 DEF ConnectSucceeds, MonitorStep
<1>26. ASSUME NEW m \in Monitors, MarkActive(m) PROVE PhaseShape'
  BY <1>26 DEF MarkActive, MonitorStep
<1>27. ASSUME NEW m \in Monitors, StreamFails(m) PROVE PhaseShape'
  BY <1>27 DEF StreamFails, MonitorStep, FailedFor, Return, Lost
<1>28. ASSUME NEW m \in Monitors, WordsStored(m) PROVE PhaseShape'
  BY <1>28 DEF WordsStored, MonitorStep
<1>29. ASSUME NEW m \in Monitors, WordsLost(m) PROVE PhaseShape'
  BY <1>29 DEF WordsLost, MonitorStep
<1>30. ASSUME NEW m \in Monitors, WatchdogFires(m) PROVE PhaseShape'
  BY <1>30 DEF WatchdogFires, MonitorStep
<1>31. ASSUME NEW m \in Monitors, StreamEnds(m) PROVE PhaseShape'
  BY <1>31 DEF StreamEnds, MonitorStep, Return, Lost
<1>32. ASSUME Crash PROVE PhaseShape'
  BY <1>32 DEF Crash, InactiveStatus, IdleHandler, Handling
<1>33. CASE UNCHANGED vars
  BY <1>33 DEF vars
<1>34. QED
  BY <1>1, <1>2, <1>3, <1>4, <1>5, <1>6, <1>7, <1>8, <1>9, <1>10, <1>11, <1>12,
     <1>13, <1>14, <1>15, <1>16, <1>17, <1>18, <1>19, <1>20, <1>21, <1>22,
     <1>23, <1>24, <1>25, <1>26, <1>27, <1>28, <1>29, <1>30, <1>31, <1>32,
     <1>33
     DEF Next, Command, HandlerStep, CoordStep, StreamStep

(* A monitor or a coordinator in use serves a session.                     *)
LEMMA TaskKept ==
  ASSUME IInv, [Next]_vars
  PROVE  TaskShape'
<1> USE ConstantsAssumption
      DEF IInv, TaskShape, TypeOK, HandlerShape, InactiveIsQuiet, Idle,
          NoOrphanMonitor, Monitor, Coordinator, FreeMonitor, FreeCoord,
          Coord, NewCoord, NextAttempt, IdleHandler, Handling, Handler,
          fsmVars, pipelineVars, channelVars
<1>1. ASSUME NEW s \in Sessions, StartSucceeds(s) PROVE TaskShape'
  <2>1. handler' = handler /\ handler.by = NoCoordinator
    BY <1>1 DEF StartSucceeds
  <2>2. \A c \in Coordinators : coords'[c].pc = coords[c].pc /\ coords'[c].session = coords[c].session
    BY <1>1 DEF StartSucceeds
  <2>3. BuildPipeline(s)
    BY <1>1 DEF StartSucceeds
  <2>4. QED
    BY <2>1, <2>2, <2>3 DEF BuildPipeline, NewMonitor
<1>2. ASSUME NEW s \in Sessions, StartFails(s) PROVE TaskShape'
  BY <1>2 DEF StartFails, InactiveStatus, Idle
<1>3. ASSUME NEW s \in Sessions, StartOther(s) PROVE TaskShape'
  BY <1>3
     DEF StartOther, EnterInactive, InactiveStatus, Handling, Idle, Running
<1>4. ASSUME Stop PROVE TaskShape'
  BY <1>4 DEF Stop, EnterInactive, InactiveStatus, Handling, Idle, Running
<1>5. ASSUME Pause PROVE TaskShape'
  BY <1>5 DEF Pause, InPhase, Idle
<1>6. ASSUME Resume PROVE TaskShape'
  BY <1>6 DEF Resume, InPhase, Idle
<1>7. ASSUME MicChange PROVE TaskShape'
  BY <1>7 DEF MicChange, BeginRecovery, Recovering, Handling, InPhase, Idle
<1>8. ASSUME NEW i \in Inputs, NEW b \in BOOLEAN, Mute(i, b) PROVE TaskShape'
  BY <1>8 DEF Mute, Idle
<1>9. ASSUME NEW s \in Sessions, WatchdogStop(s) PROVE TaskShape'
  BY <1>9 DEF WatchdogStop, EnterInactive, InactiveStatus, Handling, Idle
<1>10. ASSUME CloseInput PROVE TaskShape'
  BY <1>10 DEF CloseInput, At, AfterDrain
<1>11. ASSUME Join PROVE TaskShape'
  BY <1>11 DEF Join, Aborted, At, AfterDrain
<1>12. ASSUME DrainTimesOut PROVE TaskShape'
  BY <1>12 DEF DrainTimesOut, Aborted, Lost, At, AfterDrain, Live, LiveStages
<1>13. ASSUME CompleteStop PROVE TaskShape'
  BY <1>13 DEF CompleteStop, IdleHandler, Handling
<1>14. ASSUME Detach PROVE TaskShape'
  BY <1>14 DEF Detach, Aborted, Lost, At
<1>15. ASSUME Rebuild PROVE TaskShape'
  <2>1. CASE BuildPipeline(handler.target)
    BY <1>15, <2>1 DEF Rebuild, BuildPipeline, NewMonitor, At, Handler
  <2>2. CASE UNCHANGED <<monitors, task>>
    BY <1>15, <2>2 DEF Rebuild, At, Handler
  <2>3. QED
    BY <1>15, <2>1, <2>2 DEF Rebuild, SetupFails
<1>16. ASSUME Verified PROVE TaskShape'
  BY <1>16 DEF Verified, Returned, At, IdleHandler, Handling
<1>17. ASSUME NotVerified PROVE TaskShape'
  BY <1>17 DEF NotVerified, BeginRecovery, Recovering, Handling, At
<1>18. ASSUME Discard PROVE TaskShape'
  BY <1>18 DEF Discard, Aborted, Lost, At
<1>19. ASSUME Restart PROVE TaskShape'
  <2>1. handler'.by \in Coordinators => handler'.by = handler.by
    BY <1>19 DEF Restart, Returned, At, IdleHandler, Handling, Handler
  <2>2. CASE BuildPipeline(handler.target)
    BY <1>19, <2>1, <2>2 DEF Restart, BuildPipeline, NewMonitor
  <2>3. CASE UNCHANGED <<monitors, task>>
    BY <1>19, <2>1, <2>3 DEF Restart
  <2>4. QED
    BY <1>19, <2>2, <2>3 DEF Restart, SetupFails
<1>20. ASSUME Judge PROVE TaskShape'
  <2>1. \A c \in Coordinators : coords'[c].pc # "free" => coords'[c].session \in Sessions
    BY <1>20 DEF Judge
  <2>2. QED
    BY <1>20, <2>1 DEF Judge, IdleHandler, Handling
<1>21. ASSUME NEW c \in Coordinators, Announce(c) PROVE TaskShape'
  BY <1>21 DEF Announce, InPhase, Idle
<1>22. ASSUME NEW c \in Coordinators, Abandon(c) PROVE TaskShape'
  BY <1>22 DEF Abandon, Idle
<1>23. ASSUME NEW c \in Coordinators, Reconnect(c) PROVE TaskShape'
  BY <1>23 DEF Reconnect, BeginRecovery, Recovering, Handling, InPhase, Idle
<1>24. ASSUME NEW c \in Coordinators, GiveUp(c) PROVE TaskShape'
  BY <1>24 DEF GiveUp, InPhase, Idle
<1>25. ASSUME NEW m \in Monitors, ConnectSucceeds(m) PROVE TaskShape'
  BY <1>25 DEF ConnectSucceeds, MonitorStep
<1>26. ASSUME NEW m \in Monitors, MarkActive(m) PROVE TaskShape'
  BY <1>26 DEF MarkActive, MonitorStep
<1>27. ASSUME NEW m \in Monitors, StreamFails(m) PROVE TaskShape'
  BY <1>27 DEF StreamFails, MonitorStep, FailedFor, Return, Lost
<1>28. ASSUME NEW m \in Monitors, WordsStored(m) PROVE TaskShape'
  BY <1>28 DEF WordsStored, MonitorStep
<1>29. ASSUME NEW m \in Monitors, WordsLost(m) PROVE TaskShape'
  BY <1>29 DEF WordsLost, MonitorStep
<1>30. ASSUME NEW m \in Monitors, WatchdogFires(m) PROVE TaskShape'
  BY <1>30 DEF WatchdogFires, MonitorStep
<1>31. ASSUME NEW m \in Monitors, StreamEnds(m) PROVE TaskShape'
  <2>1. monitors' = [monitors EXCEPT ![m].stage = "done", ![m].drained = monitors'[m].drained]
    BY <1>31 DEF StreamEnds, Return
  <2>2. monitors[m].session \in Sessions
    BY <1>31 DEF StreamEnds
  <2>3. \A c \in Coordinators : coords'[c].pc # "free" => coords'[c].session \in Sessions
    BY <1>31, <2>2 DEF StreamEnds
  <2>4. handler' = handler /\ (handler.by \in Coordinators => coords'[handler.by] = coords[handler.by])
    BY <1>31 DEF StreamEnds, MonitorStep
  <2>5. \A k \in Monitors : monitors'[k].session = monitors[k].session
                          /\ (monitors'[k].stage = "free" <=> monitors[k].stage = "free")
    BY <1>31 DEF StreamEnds, Return
  <2>6. QED
    BY <1>31, <2>3, <2>4, <2>5 DEF StreamEnds, MonitorStep
<1>32. ASSUME Crash PROVE TaskShape'
  BY <1>32 DEF Crash, InactiveStatus, IdleHandler, Handling
<1>33. CASE UNCHANGED vars
  BY <1>33 DEF vars
<1>34. QED
  BY <1>1, <1>2, <1>3, <1>4, <1>5, <1>6, <1>7, <1>8, <1>9, <1>10, <1>11, <1>12,
     <1>13, <1>14, <1>15, <1>16, <1>17, <1>18, <1>19, <1>20, <1>21, <1>22,
     <1>23, <1>24, <1>25, <1>26, <1>27, <1>28, <1>29, <1>30, <1>31, <1>32,
     <1>33
     DEF Next, Command, HandlerStep, CoordStep, StreamStep

(* What was lost of the recording is on record, and its row stays open.    *)
LEMMA LossKept ==
  ASSUME IInv, [Next]_vars
  PROVE  LossIsKnown'
<1> USE RowFacts, ConstantsAssumption
      DEF IInv, LossIsKnown, Bound, Undrained, TypeOK, HandlerShape,
          TaskShape, NoOrphanMonitor, InactiveIsQuiet, Idle, Monitor, fsmVars,
          pipelineVars, channelVars
<1>1. ASSUME NEW s \in Sessions, StartSucceeds(s) PROVE LossIsKnown'
  <2>1. handler.target = NoSession /\ handler' = handler /\ session' = s
    BY <1>1 DEF StartSucceeds, IdleHandler, Handling
  <2>2. ~gap'[s] /\ ~rows'[s].ended
    BY <1>1 DEF StartSucceeds
  <2>3. QED
    BY <2>1, <2>2
<1>2. ASSUME NEW s \in Sessions, StartFails(s) PROVE LossIsKnown'
  BY <1>2 DEF StartFails, InactiveStatus, Idle
<1>3. ASSUME NEW s \in Sessions, StartOther(s) PROVE LossIsKnown'
  BY <1>3
     DEF StartOther, EnterInactive, InactiveStatus, Handling, Idle, Running
<1>4. ASSUME Stop PROVE LossIsKnown'
  BY <1>4 DEF Stop, EnterInactive, InactiveStatus, Handling, Idle, Running
<1>5. ASSUME Pause PROVE LossIsKnown'
  BY <1>5 DEF Pause, InPhase, Idle
<1>6. ASSUME Resume PROVE LossIsKnown'
  BY <1>6 DEF Resume, InPhase, Idle
<1>7. ASSUME MicChange PROVE LossIsKnown'
  BY <1>7 DEF MicChange, BeginRecovery, Recovering, Handling, InPhase, Idle
<1>8. ASSUME NEW i \in Inputs, NEW b \in BOOLEAN, Mute(i, b) PROVE LossIsKnown'
  BY <1>8 DEF Mute, Idle
<1>9. ASSUME NEW s \in Sessions, WatchdogStop(s) PROVE LossIsKnown'
  <2>1. CASE session = s
    <3>0. EnterInactive
      BY <1>9, <2>1 DEF WatchdogStop
    <3>1. Undrained' = Undrained
      BY <3>0 DEF EnterInactive
    <3>2. handler'.target \in {session, NoSession}
      BY <1>9, <2>1 DEF WatchdogStop, EnterInactive, Handling
    <3>3. QED
      BY <1>9, <2>1, <3>1, <3>2 DEF WatchdogStop, EnterInactive
  <2>2. CASE session # s
    BY <1>9, <2>2 DEF WatchdogStop
  <2>3. QED
    BY <2>1, <2>2
<1>10. ASSUME CloseInput PROVE LossIsKnown'
  <2>1. Undrained' = Undrained
    BY <1>10 DEF CloseInput
  <2>2. handler'.target = handler.target
    BY <1>10 DEF CloseInput, At, Handler
  <2>3. failed => failed'
    BY <1>10 DEF CloseInput
  <2>4. QED
    BY <1>10, <2>1, <2>2, <2>3 DEF CloseInput
<1>11. ASSUME Join PROVE LossIsKnown'
  BY <1>11 DEF Join, Aborted, At, AfterDrain
<1>12. ASSUME DrainTimesOut PROVE LossIsKnown'
  BY <1>12 DEF DrainTimesOut, Aborted, Lost, At, AfterDrain, Live, LiveStages
<1>13. ASSUME CompleteStop PROVE LossIsKnown'
  BY <1>13 DEF CompleteStop, IdleHandler, Handling
<1>14. ASSUME Detach PROVE LossIsKnown'
  BY <1>14 DEF Detach, Aborted, Lost, At
<1>15. ASSUME Rebuild PROVE LossIsKnown'
  <2>1. task = NoMonitor /\ ~Undrained
    BY <1>15 DEF Rebuild
  <2>2. handler'.target = handler.target
    BY <1>15 DEF Rebuild, At, Handler
  <2>3. session' \in {session, handler.target}
    BY <1>15 DEF Rebuild, SetupFails
  <2>4. QED
    BY <1>15, <2>1, <2>2, <2>3 DEF Rebuild
<1>16. ASSUME Verified PROVE LossIsKnown'
  BY <1>16 DEF Verified, Returned, At, IdleHandler, Handling
<1>17. ASSUME NotVerified PROVE LossIsKnown'
  <2>1. Undrained' = Undrained
    <3>1. monitors' = monitors \/ monitors' = [monitors EXCEPT ![task].finishing = TRUE]
      BY <1>17 DEF NotVerified, BeginRecovery
    <3>2. task' = task
      BY <1>17 DEF NotVerified
    <3>3. \A k \in Monitors : monitors'[k].stage = monitors[k].stage
                            /\ monitors'[k].drained = monitors[k].drained
      BY <3>1
    <3>4. QED
      BY <3>2, <3>3
  <2>2. handler'.target = handler.target
    BY <1>17 DEF NotVerified, BeginRecovery, Recovering, Handling, At, Handler
  <2>3. QED
    BY <1>17, <2>1, <2>2 DEF NotVerified
<1>18. ASSUME Discard PROVE LossIsKnown'
  BY <1>18 DEF Discard, Aborted, Lost, At
<1>19. ASSUME Restart PROVE LossIsKnown'
  BY <1>19
     DEF Restart, SetupFails, BuildPipeline, FreshChannels, NewMonitor,
         InPhase, Returned, At, IdleHandler, Handling
<1>20. ASSUME Judge PROVE LossIsKnown'
  BY <1>20 DEF Judge, IdleHandler, Handling
<1>21. ASSUME NEW c \in Coordinators, Announce(c) PROVE LossIsKnown'
  BY <1>21 DEF Announce, InPhase, Idle
<1>22. ASSUME NEW c \in Coordinators, Abandon(c) PROVE LossIsKnown'
  BY <1>22 DEF Abandon, Idle
<1>23. ASSUME NEW c \in Coordinators, Reconnect(c) PROVE LossIsKnown'
  BY <1>23 DEF Reconnect, BeginRecovery, Recovering, Handling, InPhase, Idle
<1>24. ASSUME NEW c \in Coordinators, GiveUp(c) PROVE LossIsKnown'
  BY <1>24 DEF GiveUp, InPhase, Idle
<1>25. ASSUME NEW m \in Monitors, ConnectSucceeds(m) PROVE LossIsKnown'
  BY <1>25 DEF ConnectSucceeds, MonitorStep
<1>26. ASSUME NEW m \in Monitors, MarkActive(m) PROVE LossIsKnown'
  BY <1>26 DEF MarkActive, MonitorStep
<1>27. ASSUME NEW m \in Monitors, StreamFails(m) PROVE LossIsKnown'
  BY <1>27 DEF StreamFails, MonitorStep, FailedFor, Return, Lost
<1>28. ASSUME NEW m \in Monitors, WordsStored(m) PROVE LossIsKnown'
  BY <1>28 DEF WordsStored, MonitorStep
<1>29. ASSUME NEW m \in Monitors, WordsLost(m) PROVE LossIsKnown'
  BY <1>29 DEF WordsLost, MonitorStep
<1>30. ASSUME NEW m \in Monitors, WatchdogFires(m) PROVE LossIsKnown'
  BY <1>30 DEF WatchdogFires, MonitorStep
<1>31. ASSUME NEW m \in Monitors, StreamEnds(m) PROVE LossIsKnown'
  BY <1>31 DEF StreamEnds, MonitorStep, Return, Lost
<1>32. ASSUME Crash PROVE LossIsKnown'
  BY <1>32 DEF Crash, InactiveStatus, IdleHandler, Handling
<1>33. CASE UNCHANGED vars
  BY <1>33 DEF vars
<1>34. QED
  BY <1>1, <1>2, <1>3, <1>4, <1>5, <1>6, <1>7, <1>8, <1>9, <1>10, <1>11, <1>12,
     <1>13, <1>14, <1>15, <1>16, <1>17, <1>18, <1>19, <1>20, <1>21, <1>22,
     <1>23, <1>24, <1>25, <1>26, <1>27, <1>28, <1>29, <1>30, <1>31, <1>32,
     <1>33
     DEF Next, Command, HandlerStep, CoordStep, StreamStep

(* No transcript task is left behind.                                      *)
LEMMA OrphansKept ==
  ASSUME IInv, [Next]_vars
  PROVE  NoOrphanMonitor'
<1> USE ConstantsAssumption
      DEF IInv, NoOrphanMonitor, TypeOK, HandlerShape, InactiveIsQuiet, Idle,
          Monitor, FreeMonitor, fsmVars, pipelineVars, channelVars
<1>1. ASSUME NEW s \in Sessions, StartSucceeds(s) PROVE NoOrphanMonitor'
  BY <1>1
     DEF StartSucceeds, BuildPipeline, FreshChannels, NewMonitor, InPhase, Idle
<1>2. ASSUME NEW s \in Sessions, StartFails(s) PROVE NoOrphanMonitor'
  BY <1>2 DEF StartFails, InactiveStatus, Idle
<1>3. ASSUME NEW s \in Sessions, StartOther(s) PROVE NoOrphanMonitor'
  BY <1>3
     DEF StartOther, EnterInactive, InactiveStatus, Handling, Idle, Running
<1>4. ASSUME Stop PROVE NoOrphanMonitor'
  BY <1>4 DEF Stop, EnterInactive, InactiveStatus, Handling, Idle, Running
<1>5. ASSUME Pause PROVE NoOrphanMonitor'
  BY <1>5 DEF Pause, InPhase, Idle
<1>6. ASSUME Resume PROVE NoOrphanMonitor'
  BY <1>6 DEF Resume, InPhase, Idle
<1>7. ASSUME MicChange PROVE NoOrphanMonitor'
  BY <1>7 DEF MicChange, BeginRecovery, Recovering, Handling, InPhase, Idle
<1>8. ASSUME NEW i \in Inputs, NEW b \in BOOLEAN, Mute(i, b)
      PROVE NoOrphanMonitor'
  BY <1>8 DEF Mute, Idle
<1>9. ASSUME NEW s \in Sessions, WatchdogStop(s) PROVE NoOrphanMonitor'
  BY <1>9 DEF WatchdogStop, EnterInactive, InactiveStatus, Handling, Idle
<1>10. ASSUME CloseInput PROVE NoOrphanMonitor'
  BY <1>10 DEF CloseInput, At, AfterDrain
<1>11. ASSUME Join PROVE NoOrphanMonitor'
  BY <1>11 DEF Join, Aborted, At, AfterDrain
<1>12. ASSUME DrainTimesOut PROVE NoOrphanMonitor'
  BY <1>12 DEF DrainTimesOut, Aborted, Lost, At, AfterDrain, Live, LiveStages
<1>13. ASSUME CompleteStop PROVE NoOrphanMonitor'
  BY <1>13 DEF CompleteStop, IdleHandler, Handling
<1>14. ASSUME Detach PROVE NoOrphanMonitor'
  BY <1>14 DEF Detach, Aborted, Lost, At
<1>15. ASSUME Rebuild PROVE NoOrphanMonitor'
  BY <1>15
     DEF Rebuild, SetupFails, BuildPipeline, FreshChannels, NewMonitor, At
<1>16. ASSUME Verified PROVE NoOrphanMonitor'
  BY <1>16 DEF Verified, Returned, At, IdleHandler, Handling
<1>17. ASSUME NotVerified PROVE NoOrphanMonitor'
  BY <1>17 DEF NotVerified, BeginRecovery, Recovering, Handling, At
<1>18. ASSUME Discard PROVE NoOrphanMonitor'
  BY <1>18 DEF Discard, Aborted, Lost, At
<1>19. ASSUME Restart PROVE NoOrphanMonitor'
  BY <1>19
     DEF Restart, SetupFails, BuildPipeline, FreshChannels, NewMonitor,
         InPhase, Returned, At, IdleHandler, Handling
<1>20. ASSUME Judge PROVE NoOrphanMonitor'
  BY <1>20 DEF Judge, IdleHandler, Handling
<1>21. ASSUME NEW c \in Coordinators, Announce(c) PROVE NoOrphanMonitor'
  BY <1>21 DEF Announce, InPhase, Idle
<1>22. ASSUME NEW c \in Coordinators, Abandon(c) PROVE NoOrphanMonitor'
  BY <1>22 DEF Abandon, Idle
<1>23. ASSUME NEW c \in Coordinators, Reconnect(c) PROVE NoOrphanMonitor'
  BY <1>23 DEF Reconnect, BeginRecovery, Recovering, Handling, InPhase, Idle
<1>24. ASSUME NEW c \in Coordinators, GiveUp(c) PROVE NoOrphanMonitor'
  BY <1>24 DEF GiveUp, InPhase, Idle
<1>25. ASSUME NEW m \in Monitors, ConnectSucceeds(m) PROVE NoOrphanMonitor'
  BY <1>25 DEF ConnectSucceeds, MonitorStep
<1>26. ASSUME NEW m \in Monitors, MarkActive(m) PROVE NoOrphanMonitor'
  BY <1>26 DEF MarkActive, MonitorStep
<1>27. ASSUME NEW m \in Monitors, StreamFails(m) PROVE NoOrphanMonitor'
  BY <1>27 DEF StreamFails, MonitorStep, FailedFor, Return, Lost
<1>28. ASSUME NEW m \in Monitors, WordsStored(m) PROVE NoOrphanMonitor'
  BY <1>28 DEF WordsStored, MonitorStep
<1>29. ASSUME NEW m \in Monitors, WordsLost(m) PROVE NoOrphanMonitor'
  BY <1>29 DEF WordsLost, MonitorStep
<1>30. ASSUME NEW m \in Monitors, WatchdogFires(m) PROVE NoOrphanMonitor'
  BY <1>30 DEF WatchdogFires, MonitorStep
<1>31. ASSUME NEW m \in Monitors, StreamEnds(m) PROVE NoOrphanMonitor'
  BY <1>31 DEF StreamEnds, MonitorStep, Return, Lost
<1>32. ASSUME Crash PROVE NoOrphanMonitor'
  BY <1>32 DEF Crash, InactiveStatus, IdleHandler, Handling
<1>33. CASE UNCHANGED vars
  BY <1>33 DEF vars
<1>34. QED
  BY <1>1, <1>2, <1>3, <1>4, <1>5, <1>6, <1>7, <1>8, <1>9, <1>10, <1>11, <1>12,
     <1>13, <1>14, <1>15, <1>16, <1>17, <1>18, <1>19, <1>20, <1>21, <1>22,
     <1>23, <1>24, <1>25, <1>26, <1>27, <1>28, <1>29, <1>30, <1>31, <1>32,
     <1>33
     DEF Next, Command, HandlerStep, CoordStep, StreamStep

(* An inactive session holds nothing.                                      *)
LEMMA QuietKept ==
  ASSUME IInv, [Next]_vars
  PROVE  InactiveIsQuiet'
<1> USE ConstantsAssumption
      DEF IInv, InactiveIsQuiet, PhaseShape, TypeOK, HandlerShape, TaskShape,
          Idle, Handler, Awaits, fsmVars, pipelineVars, channelVars
<1>1. ASSUME NEW s \in Sessions, StartSucceeds(s) PROVE InactiveIsQuiet'
  BY <1>1
     DEF StartSucceeds, BuildPipeline, FreshChannels, NewMonitor, InPhase, Idle
<1>2. ASSUME NEW s \in Sessions, StartFails(s) PROVE InactiveIsQuiet'
  BY <1>2 DEF StartFails, InactiveStatus, Idle
<1>3. ASSUME NEW s \in Sessions, StartOther(s) PROVE InactiveIsQuiet'
  BY <1>3
     DEF StartOther, EnterInactive, InactiveStatus, Handling, Idle, Running
<1>4. ASSUME Stop PROVE InactiveIsQuiet'
  BY <1>4 DEF Stop, EnterInactive, InactiveStatus, Handling, Idle, Running
<1>5. ASSUME Pause PROVE InactiveIsQuiet'
  BY <1>5 DEF Pause, InPhase, Idle
<1>6. ASSUME Resume PROVE InactiveIsQuiet'
  BY <1>6 DEF Resume, InPhase, Idle
<1>7. ASSUME MicChange PROVE InactiveIsQuiet'
  BY <1>7 DEF MicChange, BeginRecovery, Recovering, Handling, InPhase, Idle
<1>8. ASSUME NEW i \in Inputs, NEW b \in BOOLEAN, Mute(i, b)
      PROVE InactiveIsQuiet'
  BY <1>8 DEF Mute, Idle
<1>9. ASSUME NEW s \in Sessions, WatchdogStop(s) PROVE InactiveIsQuiet'
  BY <1>9 DEF WatchdogStop, EnterInactive, InactiveStatus, Handling, Idle
<1>10. ASSUME CloseInput PROVE InactiveIsQuiet'
  BY <1>10 DEF CloseInput, At, AfterDrain
<1>11. ASSUME Join PROVE InactiveIsQuiet'
  BY <1>11 DEF Join, Aborted, At, AfterDrain
<1>12. ASSUME DrainTimesOut PROVE InactiveIsQuiet'
  BY <1>12 DEF DrainTimesOut, Aborted, Lost, At, AfterDrain, Live, LiveStages
<1>13. ASSUME CompleteStop PROVE InactiveIsQuiet'
  BY <1>13 DEF CompleteStop, IdleHandler, Handling
<1>14. ASSUME Detach PROVE InactiveIsQuiet'
  BY <1>14 DEF Detach, Aborted, Lost, At
<1>15. ASSUME Rebuild PROVE InactiveIsQuiet'
  BY <1>15
     DEF Rebuild, SetupFails, BuildPipeline, FreshChannels, NewMonitor, At
<1>16. ASSUME Verified PROVE InactiveIsQuiet'
  BY <1>16 DEF Verified, Returned, At, IdleHandler, Handling
<1>17. ASSUME NotVerified PROVE InactiveIsQuiet'
  BY <1>17 DEF NotVerified, BeginRecovery, Recovering, Handling, At
<1>18. ASSUME Discard PROVE InactiveIsQuiet'
  BY <1>18 DEF Discard, Aborted, Lost, At
<1>19. ASSUME Restart PROVE InactiveIsQuiet'
  BY <1>19
     DEF Restart, SetupFails, BuildPipeline, FreshChannels, NewMonitor,
         InPhase, Returned, At, IdleHandler, Handling
<1>20. ASSUME Judge PROVE InactiveIsQuiet'
  BY <1>20 DEF Judge, IdleHandler, Handling
<1>21. ASSUME NEW c \in Coordinators, Announce(c) PROVE InactiveIsQuiet'
  BY <1>21 DEF Announce, InPhase, Idle
<1>22. ASSUME NEW c \in Coordinators, Abandon(c) PROVE InactiveIsQuiet'
  BY <1>22 DEF Abandon, Idle
<1>23. ASSUME NEW c \in Coordinators, Reconnect(c) PROVE InactiveIsQuiet'
  BY <1>23 DEF Reconnect, BeginRecovery, Recovering, Handling, InPhase, Idle
<1>24. ASSUME NEW c \in Coordinators, GiveUp(c) PROVE InactiveIsQuiet'
  BY <1>24 DEF GiveUp, InPhase, Idle
<1>25. ASSUME NEW m \in Monitors, ConnectSucceeds(m) PROVE InactiveIsQuiet'
  BY <1>25 DEF ConnectSucceeds, MonitorStep
<1>26. ASSUME NEW m \in Monitors, MarkActive(m) PROVE InactiveIsQuiet'
  BY <1>26 DEF MarkActive, MonitorStep
<1>27. ASSUME NEW m \in Monitors, StreamFails(m) PROVE InactiveIsQuiet'
  BY <1>27 DEF StreamFails, MonitorStep, FailedFor, Return, Lost
<1>28. ASSUME NEW m \in Monitors, WordsStored(m) PROVE InactiveIsQuiet'
  BY <1>28 DEF WordsStored, MonitorStep
<1>29. ASSUME NEW m \in Monitors, WordsLost(m) PROVE InactiveIsQuiet'
  BY <1>29 DEF WordsLost, MonitorStep
<1>30. ASSUME NEW m \in Monitors, WatchdogFires(m) PROVE InactiveIsQuiet'
  BY <1>30 DEF WatchdogFires, MonitorStep
<1>31. ASSUME NEW m \in Monitors, StreamEnds(m) PROVE InactiveIsQuiet'
  BY <1>31 DEF StreamEnds, MonitorStep, Return, Lost
<1>32. ASSUME Crash PROVE InactiveIsQuiet'
  BY <1>32 DEF Crash, InactiveStatus, IdleHandler, Handling
<1>33. CASE UNCHANGED vars
  BY <1>33 DEF vars
<1>34. QED
  BY <1>1, <1>2, <1>3, <1>4, <1>5, <1>6, <1>7, <1>8, <1>9, <1>10, <1>11, <1>12,
     <1>13, <1>14, <1>15, <1>16, <1>17, <1>18, <1>19, <1>20, <1>21, <1>22,
     <1>23, <1>24, <1>25, <1>26, <1>27, <1>28, <1>29, <1>30, <1>31, <1>32,
     <1>33
     DEF Next, Command, HandlerStep, CoordStep, StreamStep

(* A closed row has no transcript task.                                    *)
LEMMA ClosedKept ==
  ASSUME IInv, [Next]_vars
  PROVE  ClosedRowIsFinal'
<1> USE RowFacts, ConstantsAssumption
      DEF IInv, ClosedRowIsFinal, LossIsKnown, Bound, TypeOK, HandlerShape,
          TaskShape, NoOrphanMonitor, InactiveIsQuiet, Idle, Monitor,
          FreeMonitor, fsmVars, pipelineVars, channelVars
<1>1. ASSUME NEW s \in Sessions, StartSucceeds(s) PROVE ClosedRowIsFinal'
  BY <1>1
     DEF StartSucceeds, BuildPipeline, FreshChannels, NewMonitor, InPhase, Idle
<1>2. ASSUME NEW s \in Sessions, StartFails(s) PROVE ClosedRowIsFinal'
  BY <1>2 DEF StartFails, InactiveStatus, Idle
<1>3. ASSUME NEW s \in Sessions, StartOther(s) PROVE ClosedRowIsFinal'
  BY <1>3
     DEF StartOther, EnterInactive, InactiveStatus, Handling, Idle, Running
<1>4. ASSUME Stop PROVE ClosedRowIsFinal'
  BY <1>4 DEF Stop, EnterInactive, InactiveStatus, Handling, Idle, Running
<1>5. ASSUME Pause PROVE ClosedRowIsFinal'
  BY <1>5 DEF Pause, InPhase, Idle
<1>6. ASSUME Resume PROVE ClosedRowIsFinal'
  BY <1>6 DEF Resume, InPhase, Idle
<1>7. ASSUME MicChange PROVE ClosedRowIsFinal'
  BY <1>7 DEF MicChange, BeginRecovery, Recovering, Handling, InPhase, Idle
<1>8. ASSUME NEW i \in Inputs, NEW b \in BOOLEAN, Mute(i, b)
      PROVE ClosedRowIsFinal'
  BY <1>8 DEF Mute, Idle
<1>9. ASSUME NEW s \in Sessions, WatchdogStop(s) PROVE ClosedRowIsFinal'
  BY <1>9 DEF WatchdogStop, EnterInactive, InactiveStatus, Handling, Idle
<1>10. ASSUME CloseInput PROVE ClosedRowIsFinal'
  BY <1>10 DEF CloseInput, At, AfterDrain
<1>11. ASSUME Join PROVE ClosedRowIsFinal'
  BY <1>11 DEF Join, Aborted, At, AfterDrain
<1>12. ASSUME DrainTimesOut PROVE ClosedRowIsFinal'
  BY <1>12 DEF DrainTimesOut, Aborted, Lost, At, AfterDrain, Live, LiveStages
<1>13. ASSUME CompleteStop PROVE ClosedRowIsFinal'
  BY <1>13 DEF CompleteStop, IdleHandler, Handling
<1>14. ASSUME Detach PROVE ClosedRowIsFinal'
  BY <1>14 DEF Detach, Aborted, Lost, At
<1>15. ASSUME Rebuild PROVE ClosedRowIsFinal'
  <2>1. CASE /\ BuildPipeline(handler.target)
    <3>1. ~rows[handler.target].ended
      BY <1>15 DEF Rebuild, Handler
    <3>2. QED
      BY <1>15, <2>1, <3>1 DEF Rebuild, BuildPipeline, NewMonitor
  <2>2. CASE UNCHANGED monitors
    BY <1>15, <2>2 DEF Rebuild
  <2>3. QED
    BY <1>15, <2>1, <2>2 DEF Rebuild, SetupFails
<1>16. ASSUME Verified PROVE ClosedRowIsFinal'
  BY <1>16 DEF Verified, Returned, At, IdleHandler, Handling
<1>17. ASSUME NotVerified PROVE ClosedRowIsFinal'
  BY <1>17 DEF NotVerified, BeginRecovery, Recovering, Handling, At
<1>18. ASSUME Discard PROVE ClosedRowIsFinal'
  BY <1>18 DEF Discard, Aborted, Lost, At
<1>19. ASSUME Restart PROVE ClosedRowIsFinal'
  <2>1. CASE /\ BuildPipeline(handler.target)
    <3>1. ~rows[handler.target].ended
      BY <1>19 DEF Restart, Handler
    <3>2. QED
      BY <1>19, <2>1, <3>1 DEF Restart, BuildPipeline, NewMonitor
  <2>2. CASE UNCHANGED monitors
    BY <1>19, <2>2 DEF Restart
  <2>3. QED
    BY <1>19, <2>1, <2>2 DEF Restart, SetupFails
<1>20. ASSUME Judge PROVE ClosedRowIsFinal'
  BY <1>20 DEF Judge, IdleHandler, Handling
<1>21. ASSUME NEW c \in Coordinators, Announce(c) PROVE ClosedRowIsFinal'
  BY <1>21 DEF Announce, InPhase, Idle
<1>22. ASSUME NEW c \in Coordinators, Abandon(c) PROVE ClosedRowIsFinal'
  BY <1>22 DEF Abandon, Idle
<1>23. ASSUME NEW c \in Coordinators, Reconnect(c) PROVE ClosedRowIsFinal'
  BY <1>23 DEF Reconnect, BeginRecovery, Recovering, Handling, InPhase, Idle
<1>24. ASSUME NEW c \in Coordinators, GiveUp(c) PROVE ClosedRowIsFinal'
  BY <1>24 DEF GiveUp, InPhase, Idle
<1>25. ASSUME NEW m \in Monitors, ConnectSucceeds(m) PROVE ClosedRowIsFinal'
  BY <1>25 DEF ConnectSucceeds, MonitorStep
<1>26. ASSUME NEW m \in Monitors, MarkActive(m) PROVE ClosedRowIsFinal'
  BY <1>26 DEF MarkActive, MonitorStep
<1>27. ASSUME NEW m \in Monitors, StreamFails(m) PROVE ClosedRowIsFinal'
  BY <1>27 DEF StreamFails, MonitorStep, FailedFor, Return, Lost
<1>28. ASSUME NEW m \in Monitors, WordsStored(m) PROVE ClosedRowIsFinal'
  BY <1>28 DEF WordsStored, MonitorStep
<1>29. ASSUME NEW m \in Monitors, WordsLost(m) PROVE ClosedRowIsFinal'
  BY <1>29 DEF WordsLost, MonitorStep
<1>30. ASSUME NEW m \in Monitors, WatchdogFires(m) PROVE ClosedRowIsFinal'
  BY <1>30 DEF WatchdogFires, MonitorStep
<1>31. ASSUME NEW m \in Monitors, StreamEnds(m) PROVE ClosedRowIsFinal'
  BY <1>31 DEF StreamEnds, MonitorStep, Return, Lost
<1>32. ASSUME Crash PROVE ClosedRowIsFinal'
  BY <1>32 DEF Crash, InactiveStatus, IdleHandler, Handling
<1>33. CASE UNCHANGED vars
  BY <1>33 DEF vars
<1>34. QED
  BY <1>1, <1>2, <1>3, <1>4, <1>5, <1>6, <1>7, <1>8, <1>9, <1>10, <1>11, <1>12,
     <1>13, <1>14, <1>15, <1>16, <1>17, <1>18, <1>19, <1>20, <1>21, <1>22,
     <1>23, <1>24, <1>25, <1>26, <1>27, <1>28, <1>29, <1>30, <1>31, <1>32,
     <1>33
     DEF Next, Command, HandlerStep, CoordStep, StreamStep

(* A queued row was closed without loss.                                   *)
LEMMA SummaryKept ==
  ASSUME IInv, [Next]_vars
  PROVE  SummaryOnlyAfterFullDrain'
<1> USE RowFacts, ConstantsAssumption
      DEF IInv, SummaryOnlyAfterFullDrain, ClosedRowIsFinal, LossIsKnown,
          Bound, Undrained, TypeOK, HandlerShape, TaskShape, Idle, Monitor,
          fsmVars, pipelineVars, channelVars
<1>1. ASSUME NEW s \in Sessions, StartSucceeds(s)
      PROVE SummaryOnlyAfterFullDrain'
  BY <1>1
     DEF StartSucceeds, BuildPipeline, FreshChannels, NewMonitor, InPhase, Idle
<1>2. ASSUME NEW s \in Sessions, StartFails(s) PROVE SummaryOnlyAfterFullDrain'
  BY <1>2 DEF StartFails, InactiveStatus, Idle
<1>3. ASSUME NEW s \in Sessions, StartOther(s) PROVE SummaryOnlyAfterFullDrain'
  BY <1>3
     DEF StartOther, EnterInactive, InactiveStatus, Handling, Idle, Running
<1>4. ASSUME Stop PROVE SummaryOnlyAfterFullDrain'
  BY <1>4 DEF Stop, EnterInactive, InactiveStatus, Handling, Idle, Running
<1>5. ASSUME Pause PROVE SummaryOnlyAfterFullDrain'
  BY <1>5 DEF Pause, InPhase, Idle
<1>6. ASSUME Resume PROVE SummaryOnlyAfterFullDrain'
  BY <1>6 DEF Resume, InPhase, Idle
<1>7. ASSUME MicChange PROVE SummaryOnlyAfterFullDrain'
  BY <1>7 DEF MicChange, BeginRecovery, Recovering, Handling, InPhase, Idle
<1>8. ASSUME NEW i \in Inputs, NEW b \in BOOLEAN, Mute(i, b)
      PROVE SummaryOnlyAfterFullDrain'
  BY <1>8 DEF Mute, Idle
<1>9. ASSUME NEW s \in Sessions, WatchdogStop(s)
      PROVE SummaryOnlyAfterFullDrain'
  BY <1>9 DEF WatchdogStop, EnterInactive, InactiveStatus, Handling, Idle
<1>10. ASSUME CloseInput PROVE SummaryOnlyAfterFullDrain'
  BY <1>10 DEF CloseInput, At, AfterDrain
<1>11. ASSUME Join PROVE SummaryOnlyAfterFullDrain'
  BY <1>11 DEF Join, Aborted, At, AfterDrain
<1>12. ASSUME DrainTimesOut PROVE SummaryOnlyAfterFullDrain'
  BY <1>12 DEF DrainTimesOut, Aborted, Lost, At, AfterDrain, Live, LiveStages
<1>13. ASSUME CompleteStop PROVE SummaryOnlyAfterFullDrain'
  <2>1. ~Undrained
    BY <1>13 DEF CompleteStop
  <2>2. \A s \in Sessions : s = handler.target /\ ~failed => ~gap[s]
    BY <2>1
  <2>3. (~failed) \in BOOLEAN
    OBVIOUS
  <2>4. SUFFICES ASSUME NEW s \in Sessions, rows'[s].needs
                 PROVE  rows'[s].ended /\ ~gap'[s]
    OBVIOUS
  <2>5. CASE rows'[s] = rows[s]
    BY <1>13, <2>4, <2>5 DEF CompleteStop
  <2>6. CASE rows'[s] = Completed(rows[s], ~failed) /\ s = handler.target
    <3>1. rows[s] \in Row /\ Completed(rows[s], ~failed).needs
      BY <2>4, <2>6
    <3>2. CASE rows[s].started /\ ~rows[s].ended
      <4>1. rows'[s] = [rows[s] EXCEPT !.ended = TRUE, !.needs = ~failed /\ rows[s].words]
        BY <2>6, <3>2 DEF Completed
      <4>2. rows'[s].ended /\ ~failed
        BY <2>4, <3>1, <4>1 DEF Row
      <4>3. QED
        BY <1>13, <2>2, <2>6, <4>2 DEF CompleteStop
    <3>3. CASE ~(rows[s].started /\ ~rows[s].ended)
      BY <1>13, <2>4, <2>6, <3>3 DEF CompleteStop, Completed
    <3>4. QED
      BY <3>2, <3>3
  <2>7. QED
    BY <1>13, <2>5, <2>6 DEF CompleteStop
<1>14. ASSUME Detach PROVE SummaryOnlyAfterFullDrain'
  BY <1>14 DEF Detach, Aborted, Lost, At
<1>15. ASSUME Rebuild PROVE SummaryOnlyAfterFullDrain'
  BY <1>15
     DEF Rebuild, SetupFails, BuildPipeline, FreshChannels, NewMonitor, At
<1>16. ASSUME Verified PROVE SummaryOnlyAfterFullDrain'
  BY <1>16 DEF Verified, Returned, At, IdleHandler, Handling
<1>17. ASSUME NotVerified PROVE SummaryOnlyAfterFullDrain'
  BY <1>17 DEF NotVerified, BeginRecovery, Recovering, Handling, At
<1>18. ASSUME Discard PROVE SummaryOnlyAfterFullDrain'
  BY <1>18 DEF Discard, Aborted, Lost, At
<1>19. ASSUME Restart PROVE SummaryOnlyAfterFullDrain'
  BY <1>19
     DEF Restart, SetupFails, BuildPipeline, FreshChannels, NewMonitor,
         InPhase, Returned, At, IdleHandler, Handling
<1>20. ASSUME Judge PROVE SummaryOnlyAfterFullDrain'
  BY <1>20 DEF Judge, IdleHandler, Handling
<1>21. ASSUME NEW c \in Coordinators, Announce(c)
      PROVE SummaryOnlyAfterFullDrain'
  BY <1>21 DEF Announce, InPhase, Idle
<1>22. ASSUME NEW c \in Coordinators, Abandon(c)
      PROVE SummaryOnlyAfterFullDrain'
  BY <1>22 DEF Abandon, Idle
<1>23. ASSUME NEW c \in Coordinators, Reconnect(c)
      PROVE SummaryOnlyAfterFullDrain'
  BY <1>23 DEF Reconnect, BeginRecovery, Recovering, Handling, InPhase, Idle
<1>24. ASSUME NEW c \in Coordinators, GiveUp(c)
      PROVE SummaryOnlyAfterFullDrain'
  BY <1>24 DEF GiveUp, InPhase, Idle
<1>25. ASSUME NEW m \in Monitors, ConnectSucceeds(m)
      PROVE SummaryOnlyAfterFullDrain'
  BY <1>25 DEF ConnectSucceeds, MonitorStep
<1>26. ASSUME NEW m \in Monitors, MarkActive(m)
      PROVE SummaryOnlyAfterFullDrain'
  BY <1>26 DEF MarkActive, MonitorStep
<1>27. ASSUME NEW m \in Monitors, StreamFails(m)
      PROVE SummaryOnlyAfterFullDrain'
  BY <1>27 DEF StreamFails, MonitorStep, FailedFor, Return, Lost
<1>28. ASSUME NEW m \in Monitors, WordsStored(m)
      PROVE SummaryOnlyAfterFullDrain'
  BY <1>28 DEF WordsStored, MonitorStep
<1>29. ASSUME NEW m \in Monitors, WordsLost(m) PROVE SummaryOnlyAfterFullDrain'
  BY <1>29 DEF WordsLost, MonitorStep
<1>30. ASSUME NEW m \in Monitors, WatchdogFires(m)
      PROVE SummaryOnlyAfterFullDrain'
  BY <1>30 DEF WatchdogFires, MonitorStep
<1>31. ASSUME NEW m \in Monitors, StreamEnds(m)
      PROVE SummaryOnlyAfterFullDrain'
  BY <1>31 DEF StreamEnds, MonitorStep, Return, Lost
<1>32. ASSUME Crash PROVE SummaryOnlyAfterFullDrain'
  BY <1>32 DEF Crash, InactiveStatus, IdleHandler, Handling
<1>33. CASE UNCHANGED vars
  BY <1>33 DEF vars
<1>34. QED
  BY <1>1, <1>2, <1>3, <1>4, <1>5, <1>6, <1>7, <1>8, <1>9, <1>10, <1>11, <1>12,
     <1>13, <1>14, <1>15, <1>16, <1>17, <1>18, <1>19, <1>20, <1>21, <1>22,
     <1>23, <1>24, <1>25, <1>26, <1>27, <1>28, <1>29, <1>30, <1>31, <1>32,
     <1>33
     DEF Next, Command, HandlerStep, CoordStep, StreamStep

(* No step revives an inactive pipeline, except a start that succeeds.     *)
LEMMA NoRevivalStep ==
  ASSUME IInv, [Next]_vars
  PROVE  status.phase = "inactive" /\ status'.phase # "inactive"
           => state = "inactive" /\ state' = "active"
<1> SUFFICES ASSUME status.phase = "inactive", status'.phase # "inactive"
             PROVE  state = "inactive" /\ state' = "active"
  OBVIOUS
<1> USE ConstantsAssumption
      DEF IInv, PhaseShape, InactiveIsQuiet, TypeOK, HandlerShape, TaskShape,
          Handler, Awaits, Idle, Status, Coordinator, Running, fsmVars,
          pipelineVars, channelVars
<1>1. ASSUME NEW s \in Sessions, StartSucceeds(s)
      PROVE state = "inactive" /\ state' = "active"
  BY <1>1
     DEF StartSucceeds, BuildPipeline, FreshChannels, NewMonitor, InPhase, Idle
<1>2. ASSUME NEW s \in Sessions, StartFails(s)
      PROVE state = "inactive" /\ state' = "active"
  BY <1>2 DEF StartFails, InactiveStatus, Idle
<1>3. ASSUME NEW s \in Sessions, StartOther(s)
      PROVE state = "inactive" /\ state' = "active"
  BY <1>3
     DEF StartOther, EnterInactive, InactiveStatus, Handling, Idle, Running
<1>4. ASSUME Stop PROVE state = "inactive" /\ state' = "active"
  BY <1>4 DEF Stop, EnterInactive, InactiveStatus, Handling, Idle, Running
<1>5. ASSUME Pause PROVE state = "inactive" /\ state' = "active"
  BY <1>5 DEF Pause, InPhase, Idle
<1>6. ASSUME Resume PROVE state = "inactive" /\ state' = "active"
  BY <1>6 DEF Resume, InPhase, Idle
<1>7. ASSUME MicChange PROVE state = "inactive" /\ state' = "active"
  BY <1>7 DEF MicChange, BeginRecovery, Recovering, Handling, InPhase, Idle
<1>8. ASSUME NEW i \in Inputs, NEW b \in BOOLEAN, Mute(i, b)
      PROVE state = "inactive" /\ state' = "active"
  BY <1>8 DEF Mute, Idle
<1>9. ASSUME NEW s \in Sessions, WatchdogStop(s)
      PROVE state = "inactive" /\ state' = "active"
  BY <1>9 DEF WatchdogStop, EnterInactive, InactiveStatus, Handling, Idle
<1>10. ASSUME CloseInput PROVE state = "inactive" /\ state' = "active"
  BY <1>10 DEF CloseInput, At, AfterDrain
<1>11. ASSUME Join PROVE state = "inactive" /\ state' = "active"
  BY <1>11 DEF Join, Aborted, At, AfterDrain
<1>12. ASSUME DrainTimesOut PROVE state = "inactive" /\ state' = "active"
  BY <1>12 DEF DrainTimesOut, Aborted, Lost, At, AfterDrain, Live, LiveStages
<1>13. ASSUME CompleteStop PROVE state = "inactive" /\ state' = "active"
  BY <1>13 DEF CompleteStop, IdleHandler, Handling
<1>14. ASSUME Detach PROVE state = "inactive" /\ state' = "active"
  BY <1>14 DEF Detach, Aborted, Lost, At
<1>15. ASSUME Rebuild PROVE state = "inactive" /\ state' = "active"
  BY <1>15
     DEF Rebuild, SetupFails, BuildPipeline, FreshChannels, NewMonitor, At
<1>16. ASSUME Verified PROVE state = "inactive" /\ state' = "active"
  BY <1>16 DEF Verified, Returned, At, IdleHandler, Handling
<1>17. ASSUME NotVerified PROVE state = "inactive" /\ state' = "active"
  BY <1>17 DEF NotVerified, BeginRecovery, Recovering, Handling, At
<1>18. ASSUME Discard PROVE state = "inactive" /\ state' = "active"
  BY <1>18 DEF Discard, Aborted, Lost, At
<1>19. ASSUME Restart PROVE state = "inactive" /\ state' = "active"
  BY <1>19
     DEF Restart, SetupFails, BuildPipeline, FreshChannels, NewMonitor,
         InPhase, Returned, At, IdleHandler, Handling
<1>20. ASSUME Judge PROVE state = "inactive" /\ state' = "active"
  BY <1>20 DEF Judge, IdleHandler, Handling
<1>21. ASSUME NEW c \in Coordinators, Announce(c)
      PROVE state = "inactive" /\ state' = "active"
  BY <1>21 DEF Announce, InPhase, Idle
<1>22. ASSUME NEW c \in Coordinators, Abandon(c)
      PROVE state = "inactive" /\ state' = "active"
  BY <1>22 DEF Abandon, Idle
<1>23. ASSUME NEW c \in Coordinators, Reconnect(c)
      PROVE state = "inactive" /\ state' = "active"
  BY <1>23 DEF Reconnect, BeginRecovery, Recovering, Handling, InPhase, Idle
<1>24. ASSUME NEW c \in Coordinators, GiveUp(c)
      PROVE state = "inactive" /\ state' = "active"
  BY <1>24 DEF GiveUp, InPhase, Idle
<1>25. ASSUME NEW m \in Monitors, ConnectSucceeds(m)
      PROVE state = "inactive" /\ state' = "active"
  BY <1>25 DEF ConnectSucceeds, MonitorStep
<1>26. ASSUME NEW m \in Monitors, MarkActive(m)
      PROVE state = "inactive" /\ state' = "active"
  BY <1>26 DEF MarkActive, MonitorStep
<1>27. ASSUME NEW m \in Monitors, StreamFails(m)
      PROVE state = "inactive" /\ state' = "active"
  BY <1>27 DEF StreamFails, MonitorStep, FailedFor, Return, Lost
<1>28. ASSUME NEW m \in Monitors, WordsStored(m)
      PROVE state = "inactive" /\ state' = "active"
  BY <1>28 DEF WordsStored, MonitorStep
<1>29. ASSUME NEW m \in Monitors, WordsLost(m)
      PROVE state = "inactive" /\ state' = "active"
  BY <1>29 DEF WordsLost, MonitorStep
<1>30. ASSUME NEW m \in Monitors, WatchdogFires(m)
      PROVE state = "inactive" /\ state' = "active"
  BY <1>30 DEF WatchdogFires, MonitorStep
<1>31. ASSUME NEW m \in Monitors, StreamEnds(m)
      PROVE state = "inactive" /\ state' = "active"
  BY <1>31 DEF StreamEnds, MonitorStep, Return, Lost
<1>32. ASSUME Crash PROVE state = "inactive" /\ state' = "active"
  BY <1>32 DEF Crash, InactiveStatus, IdleHandler, Handling
<1>33. CASE UNCHANGED vars
  BY <1>33 DEF vars
<1>34. QED
  BY <1>1, <1>2, <1>3, <1>4, <1>5, <1>6, <1>7, <1>8, <1>9, <1>10, <1>11, <1>12,
     <1>13, <1>14, <1>15, <1>16, <1>17, <1>18, <1>19, <1>20, <1>21, <1>22,
     <1>23, <1>24, <1>25, <1>26, <1>27, <1>28, <1>29, <1>30, <1>31, <1>32,
     <1>33
     DEF Next, Command, HandlerStep, CoordStep, StreamStep

-----------------------------------------------------------------------------
(* The inductive invariant holds before anything was recorded: the rows a  *)
(* fresh start of the application finds are neither closed nor queued.     *)
LEMMA IInvInit == Init => IInv
<1> SUFFICES ASSUME Init PROVE IInv
  OBVIOUS
<1>1. TypeOK
  BY TypeInit
<1>2. ASSUME NEW s \in Sessions PROVE ~rows[s].ended /\ ~rows[s].needs
  <2>1. rows[s] \in {NewRow, [NewRow EXCEPT !.words = TRUE]}
    BY Zenon DEF Init
  <2>2. CASE rows[s] = NewRow
    BY <2>2 DEF NewRow
  <2>3. CASE rows[s] = [NewRow EXCEPT !.words = TRUE]
    BY <2>3 DEF NewRow
  <2>4. QED
    BY Zenon, <2>1, <2>2, <2>3
<1>3. handler = IdleHandler /\ handler.pc = "idle" /\ handler.kind = "none"
      /\ handler.target = NoSession /\ handler.by = NoCoordinator
  BY DEF Init, IdleHandler, Handling
<1>4. HandlerShape /\ PhaseShape /\ InactiveIsQuiet
  BY <1>3 DEF Init, HandlerShape, PhaseShape, InactiveIsQuiet, InactiveStatus, Idle
<1>5. TaskShape /\ NoOrphanMonitor
  BY <1>3, ConstantsAssumption
     DEF Init, TaskShape, NoOrphanMonitor, FreeMonitor, FreeCoord, Coord
<1>6. LossIsKnown /\ ClosedRowIsFinal /\ SummaryOnlyAfterFullDrain
  BY <1>2 DEF Init, LossIsKnown, ClosedRowIsFinal, SummaryOnlyAfterFullDrain
<1>7. QED
  BY <1>1, <1>4, <1>5, <1>6 DEF IInv

(* Every step keeps the inductive invariant: one lemma above per conjunct. *)
LEMMA IInvStep == ASSUME IInv, [Next]_vars PROVE IInv'
BY TypeStep, HandlerKept, PhaseKept, TaskKept, LossKept, OrphansKept,
   QuietKept, ClosedKept, SummaryKept DEF IInv

(* IInv holds in every reachable state.                                    *)
THEOREM Invariance == Spec => []IInv
BY IInvInit, IInvStep, PTL DEF Spec

(* Only a recording whose every transcript task drained without loss, over *)
(* all its device changes and reconnects, is queued for a summary.         *)
THEOREM OnlyDrainedIsSummarized == Spec => []SummaryOnlyAfterFullDrain
<1>1. IInv => SummaryOnlyAfterFullDrain
  BY DEF IInv
<1>2. QED
  BY <1>1, Invariance, PTL

(* Once a row carries record_end, no transcript task can append to it.     *)
THEOREM ClosedIsFinal == Spec => []ClosedRowIsFinal
<1>1. IInv => ClosedRowIsFinal
  BY DEF IInv
<1>2. QED
  BY <1>1, Invariance, PTL

(* Every transcript task is the one the session holds, so that a rebuild   *)
(* or a teardown always finds it.                                          *)
THEOREM NoOrphans == Spec => []NoOrphanMonitor
<1>1. IInv => NoOrphanMonitor
  BY DEF IInv
<1>2. QED
  BY <1>1, Invariance, PTL

(* Between handlers an inactive session holds nothing.                     *)
THEOREM InactiveHoldsNothing == Spec => []InactiveIsQuiet
<1>1. IInv => InactiveIsQuiet
  BY DEF IInv
<1>2. QED
  BY <1>1, Invariance, PTL

(* No monitor, coordinator or recovery revives a pipeline that was         *)
(* published as inactive.                                                  *)
THEOREM InactiveStays == Spec => NoRevival
<1>1. IInv /\ [Next]_vars =>
        [status.phase = "inactive" /\ status'.phase # "inactive"
           => state = "inactive" /\ state' = "active"]_vars
  BY NoRevivalStep
<1>2. QED
  BY <1>1, Invariance, PTL DEF Spec, NoRevival
=============================================================================
