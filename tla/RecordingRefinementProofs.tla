----------------------- MODULE RecordingRefinementProofs -----------------------
(***************************************************************************)
(* The recording session implements RecordingContract, for any number of   *)
(* notes, tasks, coordinators, attempts and retries.  A step is mapped by  *)
(* what it does to the note, the losses and the rows; OneNote, beside IInv,*)
(* says whose transcript a task that is aborted or returns takes with it.  *)
(***************************************************************************)
EXTENDS RecordingSafetyProofs, RecordingRefinement

(* A step of the contract, or a stutter.                                   *)
ContractStep == Contract!Next \/ UNCHANGED Contract!vars

(* What the contract sees of the rows is a function of the rows.           *)
LEMMA RowsKept ==
  ASSUME UNCHANGED rows
  PROVE  Closed' = Closed /\ Queued' = Queued
BY DEF Closed, Queued

(* A note that is begun or marked is open, and no longer queued.           *)
LEMMA RowReopened ==
  ASSUME TypeOK, NEW s \in Sessions,
         rows' \in {[rows EXCEPT ![s] = Begun(@)],
                   [rows EXCEPT ![s] = Started(@)]}
  PROVE  /\ Closed' = [Closed EXCEPT ![s] = FALSE]
         /\ Queued' = [Queued EXCEPT ![s] = FALSE]
<1>1. rows[s] \in Row /\ rows \in [Sessions -> Row]
  BY DEF TypeOK
<1>2. rows'[s].ended = FALSE /\ rows'[s].needs = FALSE
  BY <1>1 DEF Begun, Started, Row
<1>3. \A t \in Sessions :
        /\ rows'[t].ended = IF t = s THEN FALSE ELSE rows[t].ended
        /\ rows'[t].needs = IF t = s THEN FALSE ELSE rows[t].needs
  BY <1>1, <1>2
<1>4. QED
  BY <1>3 DEF Closed, Queued

(* Completion closes an open row and queues it on its verdict.             *)
LEMMA RowCompleted ==
  ASSUME TypeOK, NEW s \in Sessions, NEW b \in BOOLEAN,
         rows[s].started, ~rows[s].ended,
         rows' = [rows EXCEPT ![s] = Completed(@, b)]
  PROVE  /\ Closed' = [Closed EXCEPT ![s] = TRUE]
         /\ Queued' = [Queued EXCEPT ![s] = b /\ rows[s].words]
<1>1. rows[s] \in Row /\ rows \in [Sessions -> Row]
  BY DEF TypeOK
<1>2. rows'[s].ended = TRUE /\ rows'[s].needs = (b /\ rows[s].words)
  BY <1>1 DEF Completed, Row
<1>3. \A t \in Sessions :
        /\ rows'[t].ended = IF t = s THEN TRUE ELSE rows[t].ended
        /\ rows'[t].needs = IF t = s THEN (b /\ rows[s].words) ELSE rows[t].needs
  BY <1>1, <1>2
<1>4. QED
  BY <1>3 DEF Closed, Queued

(* A step that leaves the note, its losses and the rows alone.             *)
LEMMA ByStutter ==
  ASSUME Recorded' = Recorded, UNCHANGED <<gap, rows>>
  PROVE  ContractStep
BY RowsKept DEF ContractStep, Contract!vars

(* A step that loses transcript of the note being recorded.                *)
LEMMA ByLoss ==
  ASSUME Recorded' = Recorded, Recorded # NoSession, gap' = Lost(Recorded),
         UNCHANGED rows
  PROVE  ContractStep
BY RowsKept DEF ContractStep, Contract!Next, Contract!Lose, Lost

(* A step that ends the recording and leaves the row open.                 *)
LEMMA ByVanishing ==
  ASSUME Recorded # NoSession, Recorded' = NoSession, UNCHANGED <<gap, rows>>
  PROVE  ContractStep
BY RowsKept DEF ContractStep, Contract!Next, Contract!Vanish
-----------------------------------------------------------------------------
(* The session, its task and its recovery go on for one and the same note. *)
LEMMA OneNoteKept ==
  ASSUME IInv, OneNote, [Next]_vars
  PROVE  OneNote'
<1> USE ConstantsAssumption
      DEF IInv, OneNote, Recorded, HandlerShape, TaskShape, NoOrphanMonitor,
          InactiveIsQuiet, TypeOK, Handler, Idle, Monitor, fsmVars,
          pipelineVars, channelVars
<1>1. ASSUME NEW s \in Sessions, StartSucceeds(s) PROVE OneNote'
  BY <1>1
     DEF StartSucceeds, BuildPipeline, FreshChannels, NewMonitor, InPhase, Idle
<1>2. ASSUME NEW s \in Sessions, StartFails(s) PROVE OneNote'
  BY <1>2 DEF StartFails, InactiveStatus, Idle
<1>3. ASSUME NEW s \in Sessions, StartOther(s) PROVE OneNote'
  BY <1>3
     DEF StartOther, EnterInactive, InactiveStatus, Handling, Idle, Running
<1>4. ASSUME Stop PROVE OneNote'
  <2>1. Recorded' = Recorded /\ task' = task /\ handler'.kind = "stop"
    BY <1>4 DEF Stop, EnterInactive, Handling, IdleHandler
  <2>2. \A m \in Monitors : monitors'[m].session = monitors[m].session
    BY <1>4 DEF Stop, EnterInactive
  <2>3. QED
    BY <2>1, <2>2
<1>5. ASSUME Pause PROVE OneNote'
  BY <1>5 DEF Pause, InPhase, Idle
<1>6. ASSUME Resume PROVE OneNote'
  BY <1>6 DEF Resume, InPhase, Idle
<1>7. ASSUME MicChange PROVE OneNote'
  BY <1>7 DEF MicChange, BeginRecovery, Recovering, Handling, InPhase, Idle
<1>8. ASSUME NEW i \in Inputs, NEW b \in BOOLEAN, Mute(i, b) PROVE OneNote'
  BY <1>8 DEF Mute, Idle
<1>9. ASSUME NEW s \in Sessions, WatchdogStop(s) PROVE OneNote'
  BY <1>9 DEF WatchdogStop, EnterInactive, InactiveStatus, Handling, Idle
<1>10. ASSUME CloseInput PROVE OneNote'
  BY <1>10 DEF CloseInput, At, AfterDrain
<1>11. ASSUME Join PROVE OneNote'
  BY <1>11 DEF Join, Aborted, At, AfterDrain
<1>12. ASSUME DrainTimesOut PROVE OneNote'
  BY <1>12 DEF DrainTimesOut, Aborted, Lost, At, AfterDrain, Live, LiveStages
<1>13. ASSUME CompleteStop PROVE OneNote'
  BY <1>13 DEF CompleteStop, IdleHandler, Handling
<1>14. ASSUME Detach PROVE OneNote'
  BY <1>14 DEF Detach, Aborted, Lost, At
<1>15. ASSUME Rebuild PROVE OneNote'
  <2>1. handler.kind = "recover" /\ task = NoMonitor /\ session = handler.target
    BY <1>15 DEF Rebuild
  <2>2. handler'.target = handler.target /\ session' = handler.target
    BY <1>15, <2>1 DEF Rebuild, SetupFails, At
  <2>3. CASE BuildPipeline(handler.target)
    BY <1>15, <2>1, <2>2, <2>3 DEF Rebuild, BuildPipeline, NewMonitor
  <2>4. CASE \E point \in SetupFaults : SetupFails(point, handler.target, session)
    BY <1>15, <2>1, <2>2, <2>4 DEF Rebuild, SetupFails
  <2>5. QED
    BY <1>15, <2>3, <2>4 DEF Rebuild
<1>16. ASSUME Verified PROVE OneNote'
  <2>1. session = handler.target /\ session # NoSession
    BY <1>16 DEF Verified
  <2>2. handler'.target \in {handler.target, NoSession}
        /\ handler'.kind \in {"none", "recover"}
        /\ (handler'.kind = "recover" => handler'.target = handler.target)
    BY <1>16 DEF Verified, Returned, At, IdleHandler, Handling
  <2>3. QED
    BY <1>16, <2>1, <2>2 DEF Verified
<1>17. ASSUME NotVerified PROVE OneNote'
  BY <1>17 DEF NotVerified, BeginRecovery, Recovering, Handling, At
<1>18. ASSUME Discard PROVE OneNote'
  BY <1>18 DEF Discard, Aborted, Lost, At
<1>19. ASSUME Restart PROVE OneNote'
  <2>1. handler.kind = "recover" /\ task = NoMonitor /\ handler.target \in Sessions
    BY <1>19 DEF Restart
  <2>2. \/ handler' = At("judging")
        \/ handler'.target = NoSession /\ handler'.kind = "none"
    BY <1>19 DEF Restart, Returned, IdleHandler, Handling
  <2>3. handler' = At("judging") => /\ handler'.target = handler.target
                                    /\ handler'.pc = "judging"
                                    /\ handler'.kind = "recover"
    BY <2>1 DEF At
  <2>4. CASE BuildPipeline(handler.target) /\ session' = handler.target
    <3>1. task' \in Monitors /\ monitors'[task'].session = handler.target
      BY <2>4 DEF BuildPipeline, NewMonitor
    <3>2. QED
      BY <2>1, <2>2, <2>3, <2>4, <3>1
  <2>5. CASE \E point \in SetupFaults : SetupFails(point, handler.target, session)
    <3>1. task' = NoMonitor /\ session' \in {session, handler.target}
      BY <2>1, <2>5 DEF SetupFails
    <3>2. session \in {handler.target, NoSession}
      BY <2>1
    <3>3. QED
      BY <2>1, <2>2, <2>3, <3>1, <3>2
  <2>6. QED
    BY <1>19, <2>4, <2>5 DEF Restart
<1>20. ASSUME Judge PROVE OneNote'
  <2>1. handler.kind = "recover"
    BY <1>20 DEF Judge
  <2>2. handler'.target = NoSession /\ handler'.kind = "none"
    BY <1>20 DEF Judge, IdleHandler, Handling
  <2>3. task' = task /\ monitors' = monitors /\ session' = session
    BY <1>20 DEF Judge
  <2>4. QED
    BY <2>1, <2>2, <2>3
<1>21. ASSUME NEW c \in Coordinators, Announce(c) PROVE OneNote'
  BY <1>21 DEF Announce, InPhase, Idle
<1>22. ASSUME NEW c \in Coordinators, Abandon(c) PROVE OneNote'
  BY <1>22 DEF Abandon, Idle
<1>23. ASSUME NEW c \in Coordinators, Reconnect(c) PROVE OneNote'
  BY <1>23 DEF Reconnect, BeginRecovery, Recovering, Handling, InPhase, Idle
<1>24. ASSUME NEW c \in Coordinators, GiveUp(c) PROVE OneNote'
  BY <1>24 DEF GiveUp, InPhase, Idle
<1>25. ASSUME NEW m \in Monitors, ConnectSucceeds(m) PROVE OneNote'
  BY <1>25 DEF ConnectSucceeds, MonitorStep
<1>26. ASSUME NEW m \in Monitors, MarkActive(m) PROVE OneNote'
  BY <1>26 DEF MarkActive, MonitorStep
<1>27. ASSUME NEW m \in Monitors, StreamFails(m) PROVE OneNote'
  BY <1>27 DEF StreamFails, MonitorStep, FailedFor, Return, Lost
<1>28. ASSUME NEW m \in Monitors, WordsStored(m) PROVE OneNote'
  BY <1>28 DEF WordsStored, MonitorStep
<1>29. ASSUME NEW m \in Monitors, WordsLost(m) PROVE OneNote'
  BY <1>29 DEF WordsLost, MonitorStep
<1>30. ASSUME NEW m \in Monitors, WatchdogFires(m) PROVE OneNote'
  BY <1>30 DEF WatchdogFires, MonitorStep
<1>31. ASSUME NEW m \in Monitors, StreamEnds(m) PROVE OneNote'
  BY <1>31 DEF StreamEnds, MonitorStep, Return, Lost
<1>32. ASSUME Crash PROVE OneNote'
  BY <1>32 DEF Crash, InactiveStatus, IdleHandler, Handling
<1>33. CASE UNCHANGED vars
  BY <1>33 DEF vars
<1>34. QED
  BY <1>1, <1>2, <1>3, <1>4, <1>5, <1>6, <1>7, <1>8, <1>9, <1>10, <1>11, <1>12,
     <1>13, <1>14, <1>15, <1>16, <1>17, <1>18, <1>19, <1>20, <1>21, <1>22,
     <1>23, <1>24, <1>25, <1>26, <1>27, <1>28, <1>29, <1>30, <1>31, <1>32,
     <1>33
     DEF Next, Command, HandlerStep, CoordStep, StreamStep
-----------------------------------------------------------------------------
(* Every step of the session is a step of the contract, or a stutter.      *)
LEMMA RefinementStep ==
  ASSUME IInv, OneNote, [Next]_vars
  PROVE  ContractStep
<1> USE ConstantsAssumption
      DEF IInv, OneNote, Recorded, HandlerShape, TaskShape, NoOrphanMonitor,
          InactiveIsQuiet, TypeOK, Handler, Idle, Monitor, fsmVars,
          pipelineVars, channelVars
<1>1. ASSUME NEW s \in Sessions, StartSucceeds(s) PROVE ContractStep
  <2>1. Recorded = NoSession /\ Recorded' = s
    BY <1>1 DEF StartSucceeds, IdleHandler, Handling
  <2>2. rows' \in {[rows EXCEPT ![s] = Begun(@)], [rows EXCEPT ![s] = Started(@)]}
        /\ gap' = [gap EXCEPT ![s] = FALSE]
    BY <1>1 DEF StartSucceeds
  <2>3. Contract!Reopen(s)
    BY <2>2, RowReopened DEF Contract!Reopen
  <2>4. QED
    BY <2>1, <2>2, <2>3 DEF ContractStep, Contract!Next, Contract!Begin
<1>2. ASSUME NEW s \in Sessions, StartFails(s) PROVE ContractStep
  <2>1. Recorded = NoSession /\ Recorded' = NoSession /\ UNCHANGED gap
    BY <1>2 DEF StartFails, IdleHandler, Handling
  <2>2. rows' \in {[rows EXCEPT ![s] = Begun(@)], rows}
    BY <1>2 DEF StartFails
  <2>3. CASE rows' = [rows EXCEPT ![s] = Begun(@)]
    <3>1. Contract!Reopen(s)
      BY <2>3, RowReopened DEF Contract!Reopen
    <3>2. QED
      BY <2>1, <3>1 DEF ContractStep, Contract!Next, Contract!BeginFails
  <2>4. CASE rows' = rows
    BY <2>1, <2>4, ByStutter
  <2>5. QED
    BY <2>2, <2>3, <2>4
<1>3. ASSUME NEW s \in Sessions, StartOther(s) PROVE ContractStep
  <2>1. Recorded' = Recorded /\ UNCHANGED <<gap, rows>>
    BY <1>3
       DEF StartOther, EnterInactive, InactiveStatus, Handling, Idle, Running
  <2>2. QED
    BY <2>1, ByStutter
<1>4. ASSUME Stop PROVE ContractStep
  <2>1. Recorded' = Recorded /\ UNCHANGED <<gap, rows>>
    BY <1>4 DEF Stop, EnterInactive, Handling, IdleHandler
  <2>2. QED
    BY <2>1, ByStutter
<1>5. ASSUME Pause PROVE ContractStep
  <2>1. Recorded' = Recorded /\ UNCHANGED <<gap, rows>>
    BY <1>5 DEF Pause, InPhase, Idle
  <2>2. QED
    BY <2>1, ByStutter
<1>6. ASSUME Resume PROVE ContractStep
  <2>1. Recorded' = Recorded /\ UNCHANGED gap
    BY <1>6 DEF Resume
  <2>2. CASE UNCHANGED rows
    BY <2>1, <2>2, ByStutter
  <2>3. ASSUME NEW s \in Sessions \cap {session},
               rows' = [rows EXCEPT ![s] = Started(@)]
        PROVE  ContractStep
    <3>1. ~rows[s].ended /\ ~rows[s].needs /\ rows[s] \in Row
      BY DEF LossIsKnown, Bound, SummaryOnlyAfterFullDrain
    <3>2. Started(rows[s]).ended = FALSE /\ Started(rows[s]).needs = FALSE
      BY <3>1 DEF Begun, Started, Row
    <3>3. rows[s].ended = FALSE /\ rows[s].needs = FALSE
      BY <3>1 DEF Row
    <3>4. \A t \in Sessions : rows'[t].ended = rows[t].ended
                            /\ rows'[t].needs = rows[t].needs
      BY <2>3, <3>2, <3>3
    <3>5. Closed' = Closed /\ Queued' = Queued
      BY <3>4 DEF Closed, Queued
    <3>6. QED
      BY <2>1, <3>5 DEF ContractStep, Contract!vars
  <2>4. QED
    BY <1>6, <2>2, <2>3 DEF Resume
<1>7. ASSUME MicChange PROVE ContractStep
  <2>1. Recorded' = Recorded /\ UNCHANGED <<gap, rows>>
    BY <1>7 DEF MicChange, BeginRecovery, Recovering, Handling, InPhase, Idle
  <2>2. QED
    BY <2>1, ByStutter
<1>8. ASSUME NEW i \in Inputs, NEW b \in BOOLEAN, Mute(i, b) PROVE ContractStep
  <2>1. Recorded' = Recorded /\ UNCHANGED <<gap, rows>>
    BY <1>8 DEF Mute, Idle
  <2>2. QED
    BY <2>1, ByStutter
<1>9. ASSUME NEW s \in Sessions, WatchdogStop(s) PROVE ContractStep
  <2>1. Recorded' = Recorded /\ UNCHANGED <<gap, rows>>
    BY <1>9 DEF WatchdogStop, EnterInactive, InactiveStatus, Handling, Idle
  <2>2. QED
    BY <2>1, ByStutter
<1>10. ASSUME CloseInput PROVE ContractStep
  <2>1. Recorded' = Recorded /\ UNCHANGED <<gap, rows>>
    BY <1>10 DEF CloseInput, At, AfterDrain
  <2>2. QED
    BY <2>1, ByStutter
<1>11. ASSUME Join PROVE ContractStep
  <2>1. Recorded' = Recorded /\ UNCHANGED <<gap, rows>>
    BY <1>11 DEF Join, Aborted, At, AfterDrain
  <2>2. QED
    BY <2>1, ByStutter
<1>12. ASSUME DrainTimesOut PROVE ContractStep
  <2>1. Recorded' = Recorded /\ UNCHANGED rows
    BY <1>12 DEF DrainTimesOut, At
  <2>2. CASE UNCHANGED gap
    BY <2>1, <2>2, ByStutter
  <2>3. CASE task \in Monitors /\ gap' = Lost(monitors[task].session)
    BY <2>1, <2>3, ByLoss
  <2>4. QED
    BY <1>12, <2>2, <2>3 DEF DrainTimesOut
<1>13. ASSUME CompleteStop PROVE ContractStep
  <2>1. handler.kind = "stop" /\ handler.target \in {session, NoSession}
        /\ ~Undrained
    BY <1>13 DEF CompleteStop, Undrained
  <2>2. Recorded = session /\ Recorded' = NoSession /\ UNCHANGED gap
    BY <1>13, <2>1 DEF CompleteStop, IdleHandler, Handling
  <2>3. CASE UNCHANGED rows
    <3>1. CASE session = NoSession
      BY <2>2, <2>3, <3>1, ByStutter
    <3>2. CASE session # NoSession
      BY <2>2, <2>3, <3>2, ByVanishing
    <3>3. QED
      BY <3>1, <3>2
  <2>4. ASSUME NEW s \in Sessions \cap {handler.target},
               rows' = [rows EXCEPT ![s] = Completed(@, ~failed)]
        PROVE  ContractStep
    <3>1. s = Recorded /\ s # NoSession /\ ~rows[s].ended /\ (gap[s] => failed)
      BY <2>1, <2>2 DEF LossIsKnown, Bound
    <3>2. CASE rows[s].started
      <4>1. (~failed) \in BOOLEAN
        OBVIOUS
      <4>2. Closed' = [Closed EXCEPT ![s] = TRUE]
            /\ Queued' = [Queued EXCEPT ![s] = ~failed /\ rows[s].words]
        BY <2>4, <3>1, <3>2, <4>1, RowCompleted
      <4>3. rows[s].words \in BOOLEAN
        BY DEF Row
      <4>4. (~failed /\ rows[s].words)
              = ((~failed /\ rows[s].words) /\ ~gap[s])
        BY <3>1, <4>3
      <4>5. Contract!Finish
        BY <2>2, <3>1, <4>2, <4>4 DEF Contract!Finish
      <4>6. QED
        BY <4>5 DEF ContractStep, Contract!Next
    <3>3. CASE ~rows[s].started
      <4>1. UNCHANGED rows
        BY <2>4, <3>3 DEF Completed
      <4>2. QED
        BY <2>2, <3>1, <4>1, ByVanishing
    <3>4. QED
      BY <3>2, <3>3
  <2>5. QED
    BY <1>13, <2>3, <2>4 DEF CompleteStop
<1>14. ASSUME Detach PROVE ContractStep
  <2>1. Recorded' = Recorded /\ UNCHANGED rows
    BY <1>14 DEF Detach, At
  <2>2. CASE UNCHANGED gap
    BY <2>1, <2>2, ByStutter
  <2>3. CASE task \in Monitors /\ gap' = Lost(monitors[task].session)
    BY <2>1, <2>3, ByLoss
  <2>4. QED
    BY <1>14, <2>2, <2>3 DEF Detach
<1>15. ASSUME Rebuild PROVE ContractStep
  <2>1. handler.kind = "recover" /\ session = handler.target
        /\ handler'.target = handler.target
    BY <1>15 DEF Rebuild, At
  <2>2. Recorded' = Recorded /\ UNCHANGED <<gap, rows>>
    BY <1>15, <2>1 DEF Rebuild, SetupFails
  <2>3. QED
    BY <2>2, ByStutter
<1>16. ASSUME Verified PROVE ContractStep
  <2>1. session = handler.target /\ session # NoSession
    BY <1>16 DEF Verified
  <2>2. Recorded' = Recorded /\ UNCHANGED <<gap, rows>>
    BY <1>16, <2>1 DEF Verified
  <2>3. QED
    BY <2>2, ByStutter
<1>17. ASSUME NotVerified PROVE ContractStep
  <2>1. Recorded' = Recorded /\ UNCHANGED <<gap, rows>>
    BY <1>17 DEF NotVerified, BeginRecovery, Recovering, Handling, At
  <2>2. QED
    BY <2>1, ByStutter
<1>18. ASSUME Discard PROVE ContractStep
  <2>1. handler.kind = "recover" /\ session = handler.target
    BY <1>18 DEF Discard
  <2>2. handler'.target = handler.target /\ session' = NoSession
    BY <1>18 DEF Discard, At
  <2>3. Recorded' = Recorded /\ UNCHANGED rows
    BY <1>18, <2>1, <2>2 DEF Discard
  <2>4. CASE UNCHANGED gap
    BY <2>3, <2>4, ByStutter
  <2>5. CASE task \in Monitors /\ gap' = Lost(monitors[task].session)
    BY <2>3, <2>5, ByLoss
  <2>6. QED
    BY <1>18, <2>4, <2>5 DEF Discard
<1>19. ASSUME Restart PROVE ContractStep
  <2>1. /\ handler.kind = "recover" /\ handler.target \in Sessions
        /\ session \in {handler.target, NoSession}
        /\ handler'.target \in {handler.target, NoSession}
    BY <1>19 DEF Restart, Returned, At, IdleHandler, Handling
  <2>2. Recorded' \in {Recorded, NoSession} /\ UNCHANGED <<gap, rows>>
    BY <1>19, <2>1 DEF Restart, SetupFails, BuildPipeline
  <2>3. CASE Recorded' = Recorded
    BY <2>2, <2>3, ByStutter
  <2>4. CASE Recorded # NoSession /\ Recorded' = NoSession
    BY <2>2, <2>4, ByVanishing
  <2>5. QED
    BY <2>2, <2>3, <2>4
<1>20. ASSUME Judge PROVE ContractStep
  <2>1. handler'.target = NoSession /\ handler.kind = "recover"
    BY <1>20 DEF Judge, IdleHandler, Handling
  <2>2. Recorded' \in {Recorded, NoSession} /\ UNCHANGED <<gap, rows>>
    BY <1>20, <2>1 DEF Judge
  <2>3. CASE Recorded' = Recorded
    BY <2>2, <2>3, ByStutter
  <2>4. CASE Recorded # NoSession /\ Recorded' = NoSession
    BY <2>2, <2>4, ByVanishing
  <2>5. QED
    BY <2>2, <2>3, <2>4
<1>21. ASSUME NEW c \in Coordinators, Announce(c) PROVE ContractStep
  <2>1. Recorded' = Recorded /\ UNCHANGED <<gap, rows>>
    BY <1>21 DEF Announce, InPhase, Idle
  <2>2. QED
    BY <2>1, ByStutter
<1>22. ASSUME NEW c \in Coordinators, Abandon(c) PROVE ContractStep
  <2>1. Recorded' = Recorded /\ UNCHANGED <<gap, rows>>
    BY <1>22 DEF Abandon, Idle
  <2>2. QED
    BY <2>1, ByStutter
<1>23. ASSUME NEW c \in Coordinators, Reconnect(c) PROVE ContractStep
  <2>1. Recorded' = Recorded /\ UNCHANGED <<gap, rows>>
    BY <1>23 DEF Reconnect, BeginRecovery, Recovering, Handling, InPhase, Idle
  <2>2. QED
    BY <2>1, ByStutter
<1>24. ASSUME NEW c \in Coordinators, GiveUp(c) PROVE ContractStep
  <2>1. Recorded' = Recorded /\ UNCHANGED <<gap, rows>>
    BY <1>24 DEF GiveUp, InPhase, Idle
  <2>2. QED
    BY <2>1, ByStutter
<1>25. ASSUME NEW m \in Monitors, ConnectSucceeds(m) PROVE ContractStep
  <2>1. Recorded' = Recorded /\ UNCHANGED <<gap, rows>>
    BY <1>25 DEF ConnectSucceeds, MonitorStep
  <2>2. QED
    BY <2>1, ByStutter
<1>26. ASSUME NEW m \in Monitors, MarkActive(m) PROVE ContractStep
  <2>1. Recorded' = Recorded /\ UNCHANGED <<gap, rows>>
    BY <1>26 DEF MarkActive, MonitorStep
  <2>2. QED
    BY <2>1, ByStutter
<1>27. ASSUME NEW m \in Monitors, StreamFails(m) PROVE ContractStep
  <2>1. Recorded' = Recorded /\ UNCHANGED rows /\ m = task
    BY <1>27 DEF StreamFails, MonitorStep
  <2>2. CASE UNCHANGED gap
    BY <2>1, <2>2, ByStutter
  <2>3. CASE gap' = Lost(monitors[m].session)
    BY <2>1, <2>3, ByLoss
  <2>4. QED
    BY <1>27, <2>2, <2>3 DEF StreamFails, Return
<1>28. ASSUME NEW m \in Monitors, WordsStored(m) PROVE ContractStep
  <2>1. Recorded' = Recorded /\ UNCHANGED gap
    BY <1>28 DEF WordsStored, MonitorStep
  <2>2. \A s \in Sessions : rows'[s].ended = rows[s].ended
                          /\ rows'[s].needs = rows[s].needs
    BY <1>28 DEF WordsStored, Row
  <2>3. Closed' = Closed /\ Queued' = Queued
    BY <2>2 DEF Closed, Queued
  <2>4. QED
    BY <2>1, <2>3 DEF ContractStep, Contract!vars
<1>29. ASSUME NEW m \in Monitors, WordsLost(m) PROVE ContractStep
  <2>1. Recorded' = Recorded /\ UNCHANGED <<gap, rows>>
    BY <1>29 DEF WordsLost, MonitorStep
  <2>2. QED
    BY <2>1, ByStutter
<1>30. ASSUME NEW m \in Monitors, WatchdogFires(m) PROVE ContractStep
  <2>1. Recorded' = Recorded /\ UNCHANGED <<gap, rows>>
    BY <1>30 DEF WatchdogFires, MonitorStep
  <2>2. QED
    BY <2>1, ByStutter
<1>31. ASSUME NEW m \in Monitors, StreamEnds(m) PROVE ContractStep
  <2>1. Recorded' = Recorded /\ UNCHANGED rows /\ m = task
    BY <1>31 DEF StreamEnds, MonitorStep
  <2>2. CASE UNCHANGED gap
    BY <2>1, <2>2, ByStutter
  <2>3. CASE gap' = Lost(monitors[m].session)
    BY <2>1, <2>3, ByLoss
  <2>4. QED
    BY <1>31, <2>2, <2>3 DEF StreamEnds, Return
<1>32. ASSUME Crash PROVE ContractStep
  <2>1. Crash => handler'.target = NoSession
    BY DEF Crash, IdleHandler, Handling
  <2>2. Recorded' \in {Recorded, NoSession} /\ UNCHANGED <<gap, rows>>
    BY <1>32, <2>1 DEF Crash
  <2>3. CASE Recorded' = Recorded
    BY <2>2, <2>3, ByStutter
  <2>4. CASE Recorded # NoSession /\ Recorded' = NoSession
    BY <2>2, <2>4, ByVanishing
  <2>5. QED
    BY <2>2, <2>3, <2>4
<1>33. CASE UNCHANGED vars
  <2>1. Recorded' = Recorded /\ UNCHANGED <<gap, rows>>
    BY <1>33 DEF vars
  <2>2. QED
    BY <2>1, ByStutter
<1>34. QED
  BY <1>1, <1>2, <1>3, <1>4, <1>5, <1>6, <1>7, <1>8, <1>9, <1>10, <1>11, <1>12,
     <1>13, <1>14, <1>15, <1>16, <1>17, <1>18, <1>19, <1>20, <1>21, <1>22,
     <1>23, <1>24, <1>25, <1>26, <1>27, <1>28, <1>29, <1>30, <1>31, <1>32,
     <1>33
     DEF Next, Command, HandlerStep, CoordStep, StreamStep

(* Before anything is recorded no row is closed or queued.                 *)
LEMMA RefinementInit == Init => Contract!Init /\ OneNote
<1> SUFFICES ASSUME Init PROVE Contract!Init /\ OneNote
  OBVIOUS
<1>1. handler.kind = "none" /\ handler.target = NoSession
  BY DEF Init, IdleHandler, Handling
<1>2. ASSUME NEW s \in Sessions
      PROVE rows[s].ended = FALSE /\ rows[s].needs = FALSE
  <2>1. rows[s] \in {NewRow, [NewRow EXCEPT !.words = TRUE]}
    BY Zenon DEF Init
  <2>2. CASE rows[s] = NewRow
    BY <2>2 DEF NewRow
  <2>3. CASE rows[s] = [NewRow EXCEPT !.words = TRUE]
    BY <2>3 DEF NewRow
  <2>4. QED
    BY Zenon, <2>1, <2>2, <2>3
<1>3. OneNote
  BY <1>1, ConstantsAssumption DEF OneNote, Init
<1>4. Recorded = NoSession
  BY <1>1 DEF Recorded, Init
<1>5. Closed = Contract!Nowhere /\ Queued = Contract!Nowhere
  BY <1>2 DEF Closed, Queued, Contract!Nowhere
<1>6. gap = Contract!Nowhere
  BY DEF Init, Contract!Nowhere
<1>7. QED
  BY <1>3, <1>4, <1>5, <1>6 DEF Contract!Init

-----------------------------------------------------------------------------
(* The status goes on naming the note that the session is bound to.        *)
LEMMA StatusNoteKept ==
  ASSUME IInv, OneNote, StatusNote, [Next]_vars
  PROVE  StatusNote'
<1> USE ConstantsAssumption
      DEF IInv, OneNote, StatusNote, HandlerShape, PhaseShape, InactiveIsQuiet,
          TypeOK, Handler, Status, Idle, Running, fsmVars, pipelineVars,
          channelVars
<1>1. ASSUME NEW s \in Sessions, StartSucceeds(s) PROVE StatusNote'
  BY <1>1 DEF StartSucceeds, InPhase
<1>2. ASSUME NEW s \in Sessions, StartFails(s) PROVE StatusNote'
  BY <1>2 DEF StartFails, InactiveStatus
<1>3. ASSUME NEW s \in Sessions, StartOther(s) PROVE StatusNote'
  BY <1>3 DEF StartOther, EnterInactive, InactiveStatus
<1>4. ASSUME Stop PROVE StatusNote'
  BY <1>4 DEF Stop, EnterInactive, InactiveStatus
<1>5. ASSUME Pause PROVE StatusNote'
  BY <1>5 DEF Pause, InPhase
<1>6. ASSUME Resume PROVE StatusNote'
  BY <1>6 DEF Resume, InPhase
<1>7. ASSUME MicChange PROVE StatusNote'
  BY <1>7 DEF MicChange, BeginRecovery, Recovering, Handling, InPhase
<1>8. ASSUME NEW i \in Inputs, NEW b \in BOOLEAN, Mute(i, b) PROVE StatusNote'
  BY <1>8 DEF Mute
<1>9. ASSUME NEW s \in Sessions, WatchdogStop(s) PROVE StatusNote'
  BY <1>9 DEF WatchdogStop, EnterInactive, InactiveStatus
<1>10. ASSUME CloseInput PROVE StatusNote'
  BY <1>10 DEF CloseInput, At, AfterDrain
<1>11. ASSUME Join PROVE StatusNote'
  BY <1>11 DEF Join, At, AfterDrain
<1>12. ASSUME DrainTimesOut PROVE StatusNote'
  BY <1>12 DEF DrainTimesOut, At, AfterDrain
<1>13. ASSUME CompleteStop PROVE StatusNote'
  BY <1>13 DEF CompleteStop
<1>14. ASSUME Detach PROVE StatusNote'
  BY <1>14 DEF Detach, At
<1>15. ASSUME Rebuild PROVE StatusNote'
  BY <1>15 DEF Rebuild, SetupFails, At
<1>16. ASSUME Verified PROVE StatusNote'
  BY <1>16 DEF Verified, Returned, At, IdleHandler, Handling
<1>17. ASSUME NotVerified PROVE StatusNote'
  BY <1>17 DEF NotVerified, BeginRecovery, Recovering, Handling, At
<1>18. ASSUME Discard PROVE StatusNote'
  BY <1>18 DEF Discard, At
<1>19. ASSUME Restart PROVE StatusNote'
  BY <1>19 DEF Restart, SetupFails, Returned, At, IdleHandler, Handling, InPhase
<1>20. ASSUME Judge PROVE StatusNote'
  BY <1>20 DEF Judge, IdleHandler, Handling
<1>21. ASSUME NEW c \in Coordinators, Announce(c) PROVE StatusNote'
  BY <1>21 DEF Announce, InPhase
<1>22. ASSUME NEW c \in Coordinators, Abandon(c) PROVE StatusNote'
  BY <1>22 DEF Abandon
<1>23. ASSUME NEW c \in Coordinators, Reconnect(c) PROVE StatusNote'
  BY <1>23 DEF Reconnect, BeginRecovery, Recovering, Handling, InPhase
<1>24. ASSUME NEW c \in Coordinators, GiveUp(c) PROVE StatusNote'
  BY <1>24 DEF GiveUp, InPhase
<1>25. ASSUME NEW m \in Monitors, ConnectSucceeds(m) PROVE StatusNote'
  BY <1>25 DEF ConnectSucceeds, MonitorStep
<1>26. ASSUME NEW m \in Monitors, MarkActive(m) PROVE StatusNote'
  BY <1>26 DEF MarkActive, MonitorStep
<1>27. ASSUME NEW m \in Monitors, StreamFails(m) PROVE StatusNote'
  BY <1>27 DEF StreamFails, MonitorStep, FailedFor
<1>28. ASSUME NEW m \in Monitors, WordsStored(m) PROVE StatusNote'
  BY <1>28 DEF WordsStored, MonitorStep
<1>29. ASSUME NEW m \in Monitors, WordsLost(m) PROVE StatusNote'
  BY <1>29 DEF WordsLost, MonitorStep
<1>30. ASSUME NEW m \in Monitors, WatchdogFires(m) PROVE StatusNote'
  BY <1>30 DEF WatchdogFires, MonitorStep
<1>31. ASSUME NEW m \in Monitors, StreamEnds(m) PROVE StatusNote'
  BY <1>31 DEF StreamEnds, MonitorStep
<1>32. ASSUME Crash PROVE StatusNote'
  BY <1>32 DEF Crash, InactiveStatus
<1>33. CASE UNCHANGED vars
  BY <1>33 DEF vars
<1>34. QED
  BY <1>1, <1>2, <1>3, <1>4, <1>5, <1>6, <1>7, <1>8, <1>9, <1>10, <1>11,
     <1>12, <1>13, <1>14, <1>15, <1>16, <1>17, <1>18, <1>19, <1>20, <1>21,
     <1>22, <1>23, <1>24, <1>25, <1>26, <1>27, <1>28, <1>29, <1>30, <1>31,
     <1>32, <1>33
     DEF Next, Command, HandlerStep, CoordStep, StreamStep

(* A step of the listener's contract, or a stutter.                        *)
ListenerStep == Listener!Next \/ UNCHANGED Listener!vars

(* A step that leaves the note of the status alone.                        *)
LEMMA ByPhase ==
  ASSUME Shown' = Shown
  PROVE  ListenerStep
<1>1. ShownLive \in BOOLEAN /\ ShownLive' \in BOOLEAN
  BY DEF ShownLive
<1>2. Shown = NoSession => ShownLive' = ShownLive
  BY DEF ShownLive
<1>3. QED
  BY <1>1, <1>2 DEF ListenerStep, Listener!Next, Listener!PhaseChanges, Listener!vars

(* A step after which the status names no note.                            *)
LEMMA ByEnding ==
  ASSUME Shown' = NoSession
  PROVE  ListenerStep
<1>1. ShownLive' = FALSE
  BY DEF ShownLive
<1>2. CASE Shown = NoSession
  BY <1>2, ByPhase
<1>3. CASE Shown # NoSession
  BY <1>1, <1>3 DEF ListenerStep, Listener!Next, Listener!Ends
<1>4. QED
  BY <1>2, <1>3

(* What the session does to its status: a start names its note, recoveries *)
(* keep the note or lose it, and only a stop, a crash or a failed start    *)
(* takes it away.                                                          *)
LEMMA ListenerRefinementStep ==
  ASSUME IInv, OneNote, StatusNote, [Next]_vars
  PROVE  ListenerStep
<1>0. SUFFICES \/ \E s \in Sessions : StartSucceeds(s)
               \/ Shown' = Shown \/ Shown' = NoSession
  <2>1. ASSUME NEW s \in Sessions, StartSucceeds(s) PROVE ListenerStep
    <3>1. Shown = NoSession
      BY <2>1 DEF IInv, PhaseShape, Shown, StartSucceeds
    <3>2. Shown' = s /\ ShownLive' = FALSE
      BY <2>1 DEF IInv, TypeOK, Status, Shown, ShownLive, StartSucceeds, InPhase
    <3>3. QED
      BY <3>1, <3>2 DEF ListenerStep, Listener!Next, Listener!Begins
  <2>2. QED
    BY <2>1, ByPhase, ByEnding
<1> DEFINE Goal == \/ \E s \in Sessions : StartSucceeds(s)
                   \/ Shown' = Shown \/ Shown' = NoSession
<1> USE ConstantsAssumption
      DEF IInv, OneNote, StatusNote, HandlerShape, PhaseShape, InactiveIsQuiet,
          TypeOK, Handler, Status, Idle, Running, Shown, fsmVars, pipelineVars,
          channelVars
<1>1. ASSUME NEW s \in Sessions, StartSucceeds(s) PROVE Goal
  BY <1>1 DEF StartSucceeds, InPhase
<1>2. ASSUME NEW s \in Sessions, StartFails(s) PROVE Goal
  BY <1>2 DEF StartFails, InactiveStatus
<1>3. ASSUME NEW s \in Sessions, StartOther(s) PROVE Goal
  BY <1>3 DEF StartOther, EnterInactive, InactiveStatus
<1>4. ASSUME Stop PROVE Goal
  BY <1>4 DEF Stop, EnterInactive, InactiveStatus
<1>5. ASSUME Pause PROVE Goal
  BY <1>5 DEF Pause, InPhase
<1>6. ASSUME Resume PROVE Goal
  BY <1>6 DEF Resume, InPhase
<1>7. ASSUME MicChange PROVE Goal
  BY <1>7 DEF MicChange, BeginRecovery, Recovering, Handling, InPhase
<1>8. ASSUME NEW i \in Inputs, NEW b \in BOOLEAN, Mute(i, b) PROVE Goal
  BY <1>8 DEF Mute
<1>9. ASSUME NEW s \in Sessions, WatchdogStop(s) PROVE Goal
  BY <1>9 DEF WatchdogStop, EnterInactive, InactiveStatus
<1>10. ASSUME CloseInput PROVE Goal
  BY <1>10 DEF CloseInput, At, AfterDrain
<1>11. ASSUME Join PROVE Goal
  BY <1>11 DEF Join, At, AfterDrain
<1>12. ASSUME DrainTimesOut PROVE Goal
  BY <1>12 DEF DrainTimesOut, At, AfterDrain
<1>13. ASSUME CompleteStop PROVE Goal
  BY <1>13 DEF CompleteStop
<1>14. ASSUME Detach PROVE Goal
  BY <1>14 DEF Detach, At
<1>15. ASSUME Rebuild PROVE Goal
  BY <1>15 DEF Rebuild, SetupFails, At
<1>16. ASSUME Verified PROVE Goal
  BY <1>16 DEF Verified, Returned, At, IdleHandler, Handling
<1>17. ASSUME NotVerified PROVE Goal
  BY <1>17 DEF NotVerified, BeginRecovery, Recovering, Handling, At
<1>18. ASSUME Discard PROVE Goal
  BY <1>18 DEF Discard, At
<1>19. ASSUME Restart PROVE Goal
  BY <1>19 DEF Restart, SetupFails, Returned, At, IdleHandler, Handling, InPhase
<1>20. ASSUME Judge PROVE Goal
  BY <1>20 DEF Judge, IdleHandler, Handling
<1>21. ASSUME NEW c \in Coordinators, Announce(c) PROVE Goal
  BY <1>21 DEF Announce, InPhase
<1>22. ASSUME NEW c \in Coordinators, Abandon(c) PROVE Goal
  BY <1>22 DEF Abandon
<1>23. ASSUME NEW c \in Coordinators, Reconnect(c) PROVE Goal
  BY <1>23 DEF Reconnect, BeginRecovery, Recovering, Handling, InPhase
<1>24. ASSUME NEW c \in Coordinators, GiveUp(c) PROVE Goal
  BY <1>24 DEF GiveUp, InPhase
<1>25. ASSUME NEW m \in Monitors, ConnectSucceeds(m) PROVE Goal
  BY <1>25 DEF ConnectSucceeds, MonitorStep
<1>26. ASSUME NEW m \in Monitors, MarkActive(m) PROVE Goal
  BY <1>26 DEF MarkActive, MonitorStep
<1>27. ASSUME NEW m \in Monitors, StreamFails(m) PROVE Goal
  BY <1>27 DEF StreamFails, MonitorStep, FailedFor
<1>28. ASSUME NEW m \in Monitors, WordsStored(m) PROVE Goal
  BY <1>28 DEF WordsStored, MonitorStep
<1>29. ASSUME NEW m \in Monitors, WordsLost(m) PROVE Goal
  BY <1>29 DEF WordsLost, MonitorStep
<1>30. ASSUME NEW m \in Monitors, WatchdogFires(m) PROVE Goal
  BY <1>30 DEF WatchdogFires, MonitorStep
<1>31. ASSUME NEW m \in Monitors, StreamEnds(m) PROVE Goal
  BY <1>31 DEF StreamEnds, MonitorStep
<1>32. ASSUME Crash PROVE Goal
  BY <1>32 DEF Crash, InactiveStatus
<1>33. CASE UNCHANGED vars
  BY <1>33 DEF vars
<1>34. QED
  BY <1>1, <1>2, <1>3, <1>4, <1>5, <1>6, <1>7, <1>8, <1>9, <1>10, <1>11,
     <1>12, <1>13, <1>14, <1>15, <1>16, <1>17, <1>18, <1>19, <1>20, <1>21,
     <1>22, <1>23, <1>24, <1>25, <1>26, <1>27, <1>28, <1>29, <1>30, <1>31,
     <1>32, <1>33
     DEF Next, Command, HandlerStep, CoordStep, StreamStep

(* Before anything is recorded the status names no note.                   *)
LEMMA ListenerInit == Init => Listener!Init /\ StatusNote
BY DEF Init, InactiveStatus, Shown, ShownLive, StatusNote, Listener!Init

(* The recording session, with its rebuilds, retries, coordinators, failed *)
(* starts and crashes, implements the contract the readers of its rows rely*)
(* on.                                                                     *)
THEOREM RefinesRowContract == Spec => ImplementsRow
<1>1. Init => Contract!Init /\ OneNote
  BY RefinementInit
<1>2. IInv /\ OneNote /\ [Next]_vars => OneNote'
  BY OneNoteKept
<1>3. IInv /\ OneNote /\ [Next]_vars => [Contract!Next]_(Contract!vars)
  BY RefinementStep DEF ContractStep
<1>4. QED
  BY <1>1, <1>2, <1>3, Invariance, PTL DEF Spec, ImplementsRow, Contract!Spec

(* The status names the note that the session is bound to.                 *)
LEMMA StatusInvariance == Spec => [](IInv /\ OneNote /\ StatusNote)
<1>1. Init => OneNote /\ StatusNote
  BY RefinementInit, ListenerInit
<1>2. IInv /\ OneNote /\ StatusNote /\ [Next]_vars => OneNote' /\ StatusNote'
  BY OneNoteKept, StatusNoteKept
<1>3. QED
  BY <1>1, <1>2, Invariance, PTL DEF Spec

(* It implements the contract of those who follow its status, too.         *)
THEOREM RefinesStatusContract == Spec => ImplementsStatus
<1>1. Init => Listener!Init
  BY ListenerInit
<1>2. IInv /\ OneNote /\ StatusNote /\ [Next]_vars
        => [Listener!Next]_(Listener!vars)
  BY ListenerRefinementStep DEF ListenerStep
<1>3. QED
  BY <1>1, <1>2, StatusInvariance, PTL DEF Spec, ImplementsStatus, Listener!Spec

(* What stop_session_if_matching reads in the status under the lock is the *)
(* recording that its Stop ends.                                           *)
THEOREM StatusNamesRecording == Spec => []ShownIsBound
<1>1. IInv /\ StatusNote => ShownIsBound
  BY ConstantsAssumption
     DEF IInv, StatusNote, ShownIsBound, Shown, PhaseShape, Running, Idle,
         TypeOK, States
<1>2. QED
  BY <1>1, StatusInvariance, PTL

(* The two together: what the summary worker and meeting end detection     *)
(* assume of the listener.                                                 *)
THEOREM RefinesContract == Spec => Implements
BY RefinesRowContract, RefinesStatusContract DEF Implements
=============================================================================
