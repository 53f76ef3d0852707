-------------------------------- MODULE CallEnd --------------------------------
(***************************************************************************)
(* Stopping a recording when its call ends: the controller and service of  *)
(* plugins/notification/src/call_end.rs, beside the listener it stops.     *)
(*                                                                         *)
(* A poll runs once a second.  It reads the pipeline status (which needs   *)
(* the listener lock), scans the desktop for calls without a lock, and     *)
(* applies what it saw to the controller.  Between any two of these steps  *)
(* the user may associate a call, stop, or turn the feature off; the       *)
(* recording may end and another start.  A stop is a task that queues on   *)
(* the listener lock with a revocable permit: an atomic flag that the      *)
(* controller shares with it and can replace.                              *)
(***************************************************************************)
EXTENDS Naturals, FiniteSets

CONSTANTS
  Notes,             \* the notes that can be recorded
  Calls,             \* the calls on the desktop
  Permits,           \* identities of permits: bounds how many coexist
  NoNote, NoCall,    \* None
  MaxRuns,           \* bound: recordings that are ever started
  Grace              \* END_GRACE, in steps of the clock

ASSUME CallEndAssumption ==
  /\ NoNote \notin Notes
  /\ NoCall \notin Calls
  /\ MaxRuns \in Nat
  /\ Grace \in Nat \ {0}

NoTime == Grace + 1  \* an Option<Instant> that is None
NoRun == 0           \* no started_at

VARIABLES
  ctl,        \* the Controller, with the service's bound_source
  valid,      \* the permits that still read true
  stops,      \* stop tasks: queued on the listener lock, or back from it
  poll,       \* the polling task, its locals, and whether revision is as read
  rec, runs,  \* the listener: the recording in progress, and how many began
  calls,      \* what a scan finds of each call
  tcc,        \* whether the system grants call detection
  quiet,      \* history: for how long the bound call was observed as ended
  asked       \* history: the run in progress when a call was associated

service == <<ctl, valid>>
listener == <<rec, runs>>
world == <<calls, tcc>>
history == <<quiet, asked>>
vars == <<service, stops, poll, listener, world, history>>

Presences == {"active", "ended", "unknown"}
Seen == [note : Notes \cup {NoNote}, run : 0..MaxRuns]
NoSeen == [note |-> NoNote, run |-> NoRun]

Controller ==
  [enabled : BOOLEAN, granted : BOOLEAN, seen : Seen, independent : BOOLEAN,
   candidates : SUBSET Calls, source : Calls \cup {NoCall},
   deadline : 0..NoTime, stopRequested : BOOLEAN, automatic : BOOLEAN,
   permit : Permits]
Stops == [auto : BOOLEAN, seen : Seen, permit : Permits,
          pc : {"queued", "handled"}]
Poll == [pc : {"idle", "pipeline", "sync", "snapshot", "scanning", "latest",
               "apply"},
         pending : BOOLEAN, fresh : BOOLEAN, seen : Seen,
         bound : Calls \cup {NoCall}, found : SUBSET Calls,
         presence : Presences]
Recording == [seen : Seen, live : BOOLEAN]

NoRecording == [seen |-> NoSeen, live |-> FALSE]
IdlePoll == [pc |-> "idle", pending |-> FALSE, fresh |-> FALSE,
             seen |-> NoSeen, bound |-> NoCall, found |-> {},
             presence |-> "unknown"]

(* The status a live pipeline shows; any other phase shows no recording.   *)
Shown == IF rec.live THEN rec.seen ELSE NoSeen

-----------------------------------------------------------------------------
(* The controller's operations, as functions of its value.                 *)

(* sync_session, when the recording is not the one it knows.               *)
Forget(c, s) ==
  [c EXCEPT !.seen = s, !.independent = FALSE, !.candidates = {},
            !.source = NoCall, !.deadline = NoTime, !.stopRequested = FALSE,
            !.automatic = FALSE]

Watching(c) == c.enabled /\ c.granted /\ ~c.independent /\ c.source # NoCall

(* Faulty variant of Calm: only a call that is back ends the countdown, a  *)
(* queued stop is let through.                                             *)
CalmCountdown(c, p) == [c EXCEPT !.deadline = NoTime]

(* An observation that the call goes on, or of nothing certain: the        *)
(* countdown ends, and a queued automatic stop gets its permit revoked.    *)
Calm(c, p) ==
  IF c.automatic
    THEN [c EXCEPT !.deadline = NoTime, !.permit = p, !.stopRequested = FALSE,
                   !.automatic = FALSE]
    ELSE [c EXCEPT !.deadline = NoTime]

(* Faulty variant of CountDown: every observation starts it again.         *)
CountDownAgain(c) ==
  IF c.stopRequested THEN c ELSE [c EXCEPT !.deadline = Grace]

(* An observation that the call ended starts the countdown, once.          *)
CountDown(c) ==
  IF c.stopRequested \/ c.deadline # NoTime THEN c
                                            ELSE [c EXCEPT !.deadline = Grace]

(* Faulty variant of MayStop: a second request is let through.             *)
MayStopTwice(c, automatic) ==
  /\ c.enabled /\ (automatic => c.granted)
  /\ c.source # NoCall /\ ~c.independent
  /\ c.seen # NoSeen

(* Whether request_stop(automatic) yields a stop.                          *)
MayStop(c, automatic) ==
  /\ c.enabled /\ (automatic => c.granted)
  /\ c.source # NoCall /\ ~c.stopRequested /\ ~c.independent
  /\ c.seen # NoSeen

StopOf(c, automatic) ==
  [auto |-> automatic, seen |-> c.seen, permit |-> c.permit, pc |-> "queued"]

(* A permit nobody holds, for an operation that makes one.                 *)
NewPermits == Permits \ ({ctl.permit} \cup {q.permit : q \in stops})

(* Every change of the bound call moves the service's revision.            *)
Revised == [poll EXCEPT !.fresh = FALSE]

-----------------------------------------------------------------------------
Init ==
  /\ \E on, ok \in BOOLEAN, p \in Permits :
       /\ tcc = ok
       /\ ctl = [enabled |-> on, granted |-> on /\ ok, seen |-> NoSeen,
                 independent |-> FALSE, candidates |-> {}, source |-> NoCall,
                 deadline |-> NoTime, stopRequested |-> FALSE,
                 automatic |-> FALSE, permit |-> p]
  /\ valid = {}
  /\ stops = {}
  /\ poll = IdlePoll
  /\ rec = NoRecording
  /\ runs = 0
  /\ calls = [c \in Calls |-> "active"]
  /\ quiet = NoTime
  /\ asked = NoRun

(* The valid permits once the controller is c: a new permit replaces its   *)
(* predecessor, which reads false from now on.                             *)
Renewed(c) == IF c.permit = ctl.permit THEN valid
              ELSE (valid \ {ctl.permit}) \cup {c.permit}

(* set_permission(granted): losing it is an observation of nothing certain.*)
SetPermission(granted) ==
  IF granted \/ ~Watching(ctl)
    THEN /\ ctl' = [ctl EXCEPT !.granted = granted,
                               !.candidates = IF granted THEN @ ELSE {}]
         /\ UNCHANGED <<valid, quiet>>
    ELSE \E p \in IF ctl.automatic THEN NewPermits ELSE {ctl.permit} :
           /\ ctl' = [Calm(ctl, p) EXCEPT !.granted = FALSE, !.candidates = {}]
           /\ valid' = Renewed(ctl')
           /\ quiet' = NoTime

(* Forgetting a recording revokes what it was about to stop.               *)
Forgotten(c, s) ==
  /\ ctl' = Forget(c, s)
  /\ valid' = valid \ {c.permit}
  /\ quiet' = NoTime

-----------------------------------------------------------------------------
(* The commands of the interface.                                          *)

(* Faulty variant of SetEnabled: the flag alone is changed.                *)
SetEnabledOnly(on) ==
  /\ ctl' = [ctl EXCEPT !.enabled = on]
  /\ UNCHANGED <<valid, stops, poll, listener, world, history>>

(* The kill switch: off is applied before it is stored, on afterwards, and *)
(* a store that fails leaves the rest undone.                              *)
SetEnabled(on) ==
  /\ IF on /\ ctl.seen = NoSeen
       THEN ctl' = [ctl EXCEPT !.enabled = TRUE] /\ UNCHANGED <<valid, quiet>>
       ELSE Forgotten([ctl EXCEPT !.enabled = on], NoSeen)
  /\ poll' = Revised
  /\ UNCHANGED <<stops, listener, world, asked>>

(* status asks the system again.                                           *)
PollStatus ==
  /\ ctl.enabled
  /\ SetPermission(tcc)
  /\ UNCHANGED <<stops, poll, listener, world, asked>>

(* Faulty variant of Associate: the revision stays as it was.              *)
AssociateUnrevised(c) ==
  /\ ctl.enabled /\ ctl.seen # NoSeen
  /\ c \in ctl.candidates \cup {NoCall}
  /\ \E p \in NewPermits :
       /\ ctl' = [ctl EXCEPT !.independent = (c = NoCall), !.permit = p,
                             !.source = c, !.deadline = NoTime,
                             !.stopRequested = FALSE, !.automatic = FALSE]
       /\ valid' = (valid \ {ctl.permit})
                     \cup (IF c = NoCall THEN {} ELSE {p})
  /\ quiet' = NoTime
  /\ asked' = rec.seen.run
  /\ UNCHANGED <<stops, poll, listener, world>>

(* The user names the call of the recording, or says that it has none.     *)
Associate(c) ==
  /\ ctl.enabled /\ ctl.seen # NoSeen
  /\ c \in ctl.candidates \cup {NoCall}
  /\ \E p \in NewPermits :
       /\ ctl' = [ctl EXCEPT !.independent = (c = NoCall), !.permit = p,
                             !.source = c, !.deadline = NoTime,
                             !.stopRequested = FALSE, !.automatic = FALSE]
       /\ valid' = (valid \ {ctl.permit})
                     \cup (IF c = NoCall THEN {} ELSE {p})
  /\ poll' = Revised
  /\ quiet' = NoTime
  /\ asked' = rec.seen.run
  /\ UNCHANGED <<stops, listener, world>>

(* The user stops the recording from the countdown.                        *)
UserStop ==
  /\ MayStop(ctl, FALSE)
  /\ stops' = stops \cup {StopOf(ctl, FALSE)}
  /\ ctl' = [ctl EXCEPT !.stopRequested = TRUE, !.automatic = FALSE]
  /\ UNCHANGED <<valid, poll, listener, world, history>>

-----------------------------------------------------------------------------
(* The polling task: one tick.                                             *)

(* Permission is refreshed, and a queued automatic stop keeps the tick from*)
(* waiting for the listener, so that it can still be revoked.              *)
TickBegins ==
  /\ poll.pc = "idle" /\ ctl.enabled
  /\ SetPermission(tcc)
  /\ poll' = IF ~tcc THEN poll
             ELSE [IdlePoll EXCEPT
                     !.pending = ctl.automatic,
                     !.pc = IF ctl.automatic THEN "snapshot" ELSE "pipeline"]
  /\ UNCHANGED <<stops, listener, world, asked>>

ReadPipeline ==
  /\ poll.pc \in {"pipeline", "latest"}
  /\ poll' = [poll EXCEPT !.seen = Shown,
                          !.pc = IF @ = "pipeline" THEN "sync" ELSE "apply"]
  /\ UNCHANGED <<service, stops, listener, world, history>>

Known(s) == ctl.seen = s /\ ctl.enabled

SyncRecording ==
  /\ poll.pc = "sync"
  /\ IF Known(poll.seen) THEN UNCHANGED <<service, quiet>>
                         ELSE Forgotten(ctl, poll.seen)
  /\ poll' = [poll EXCEPT !.pc = "snapshot"]
  /\ UNCHANGED <<stops, listener, world, asked>>

TakeSnapshot ==
  /\ poll.pc = "snapshot"
  /\ poll' = IF ctl.seen = NoSeen \/ ~ctl.enabled \/ ctl.independent
               THEN IdlePoll
               ELSE [poll EXCEPT !.pc = "scanning", !.bound = ctl.source,
                                 !.fresh = TRUE]
  /\ UNCHANGED <<service, stops, listener, world, history>>

(* The scan, without any lock, and the scan that fails.                    *)
Scanned(found, presence) ==
  /\ poll.pc = "scanning"
  /\ poll' = [poll EXCEPT !.pc = IF poll.pending THEN "apply" ELSE "latest",
                          !.found = found, !.presence = presence]
  /\ UNCHANGED <<service, stops, listener, world, history>>

ScanCalls ==
  IF tcc
    THEN Scanned({c \in Calls : calls[c] = "active"},
                 IF poll.bound = NoCall THEN "unknown" ELSE calls[poll.bound])
    ELSE Scanned({}, "unknown")

ScanFails == Scanned({}, "unknown")

(* observe: what a scan saw, applied to the controller.                    *)
Observe(found, presence) ==
  LET c == [ctl EXCEPT !.granted = TRUE, !.candidates = found]
      d == CountDown(c)
  IN \/ ~Watching(c) /\ ctl' = c /\ UNCHANGED <<valid, stops, quiet>>
     \/ /\ Watching(c) /\ presence # "ended"
        /\ \E p \in IF c.automatic THEN NewPermits ELSE {c.permit} :
             /\ ctl' = Calm(c, p)
             /\ valid' = Renewed(ctl')
        /\ quiet' = NoTime
        /\ UNCHANGED stops
     \/ /\ Watching(c) /\ presence = "ended"
        /\ IF d.deadline = 0 /\ MayStop(d, TRUE)
             THEN /\ stops' = stops \cup {StopOf(d, TRUE)}
                  /\ ctl' = [d EXCEPT !.stopRequested = TRUE, !.automatic = TRUE]
             ELSE UNCHANGED stops /\ ctl' = d
        /\ quiet' = IF quiet = NoTime THEN 0 ELSE quiet
        /\ UNCHANGED valid

(* What the scan saw reaches the controller, unless the association, the   *)
(* permission or the recording changed meanwhile.                          *)
Outdated == ~poll.fresh \/ ~ctl.enabled

Apply ==
  /\ poll.pc = "apply"
  /\ poll' = IdlePoll
  /\ UNCHANGED <<listener, world, asked>>
  /\ \/ Outdated /\ UNCHANGED <<service, stops, quiet>>
     \/ ~Outdated /\ ~tcc /\ SetPermission(FALSE) /\ UNCHANGED stops
     \/ /\ ~Outdated /\ tcc
        /\ ~poll.pending /\ ~Known(poll.seen)
        /\ Forgotten([ctl EXCEPT !.granted = TRUE], poll.seen)
        /\ UNCHANGED stops
     \/ /\ ~Outdated /\ tcc
        /\ poll.pending \/ Known(poll.seen)
        /\ Observe(poll.found, poll.presence)

-----------------------------------------------------------------------------
(* Faulty variant of Matches: the run is not compared.                     *)
MatchesNote(q) == q.permit \in valid /\ rec.seen.note = q.seen.note

(* A queued stop gets the listener lock: stop_session_if_matching.         *)
Matches(q) == q.permit \in valid /\ rec.seen = q.seen

HandleStop(q) ==
  /\ q.pc = "queued"
  /\ rec' = IF Matches(q) THEN NoRecording ELSE rec
  /\ stops' = (stops \ {q})
                \cup (IF q.auto THEN {[q EXCEPT !.pc = "handled"]} ELSE {})
  /\ UNCHANGED <<service, poll, runs, world, history>>

(* Back from the listener, an automatic stop is no longer requested,       *)
(* unless the controller has moved to another permit.                      *)
FinishStop(q) ==
  /\ q.pc = "handled"
  /\ stops' = stops \ {q}
  /\ ctl' = IF ctl.permit = q.permit
              THEN [ctl EXCEPT !.stopRequested = FALSE, !.automatic = FALSE]
              ELSE ctl
  /\ UNCHANGED <<valid, poll, listener, world, history>>

-----------------------------------------------------------------------------
(* The listener, as far as its status shows: a recording begins in a phase *)
(* that is not live, becomes live, may fail and recover, and ends.         *)
RecordingBegins(n) ==
  /\ rec = NoRecording /\ runs < MaxRuns
  /\ runs' = runs + 1
  /\ rec' = [seen |-> [note |-> n, run |-> runs'], live |-> FALSE]
  /\ UNCHANGED <<service, stops, poll, world, history>>

PhaseChanges ==
  /\ rec # NoRecording
  /\ rec' = [rec EXCEPT !.live = ~@]
  /\ UNCHANGED <<service, stops, poll, runs, world, history>>

RecordingEnds ==
  /\ rec # NoRecording
  /\ rec' = NoRecording
  /\ UNCHANGED <<service, stops, poll, runs, world, history>>

(* The desktop and the clock.                                              *)
CallChanges(c, p) ==
  /\ calls[c] # p
  /\ calls' = [calls EXCEPT ![c] = p]
  /\ UNCHANGED <<service, stops, poll, listener, tcc, history>>

PermissionChanges ==
  /\ tcc' = ~tcc
  /\ UNCHANGED <<service, stops, poll, listener, calls, history>>

(* Faulty variant of Elapse: a countdown that is over goes on.             *)
ElapseForever ==
  /\ ctl.deadline # NoTime \/ quiet < Grace
  /\ ctl' = IF ctl.deadline # NoTime THEN [ctl EXCEPT !.deadline = @ - 1] ELSE ctl
  /\ quiet' = IF quiet < Grace THEN quiet + 1 ELSE quiet
  /\ UNCHANGED <<valid, stops, poll, listener, world, asked>>

Elapse ==
  /\ ctl.deadline \in 1..Grace \/ quiet < Grace
  /\ ctl' = IF ctl.deadline \in 1..Grace THEN [ctl EXCEPT !.deadline = @ - 1]
                                         ELSE ctl
  /\ quiet' = IF quiet < Grace THEN quiet + 1 ELSE quiet
  /\ UNCHANGED <<valid, stops, poll, listener, world, asked>>

Command ==
  \/ \E on \in BOOLEAN : SetEnabled(on)
  \/ PollStatus \/ UserStop
  \/ \E c \in Calls \cup {NoCall} : Associate(c)

Tick ==
  \/ TickBegins \/ ReadPipeline \/ SyncRecording \/ TakeSnapshot
  \/ ScanCalls \/ ScanFails \/ Apply

Environment ==
  \/ \E n \in Notes : RecordingBegins(n)
  \/ PhaseChanges \/ RecordingEnds \/ PermissionChanges
  \/ \E c \in Calls, p \in Presences : CallChanges(c, p)

Next ==
  \/ Command
  \/ Tick
  \/ \E q \in stops : HandleStop(q) \/ FinishStop(q)
  \/ Environment
  \/ Elapse

Spec == Init /\ [][Next]_vars

(* The interval keeps ticking, a spawned stop gets the FIFO lock of the    *)
(* listener, and time passes.  Nothing is assumed of the user, the desktop *)
(* or the listener.                                                        *)
Fairness ==
  /\ WF_vars(Tick)
  /\ WF_vars(\E q \in stops : HandleStop(q) \/ FinishStop(q))
  /\ WF_vars(Elapse)

FairSpec == Spec /\ Fairness

-----------------------------------------------------------------------------
(* Type invariant of the controller, the stop tasks, the poll and the      *)
(* listener's status: in particular a countdown never runs below zero.     *)
TypeOK ==
  /\ ctl \in Controller
  /\ valid \in SUBSET Permits
  /\ stops \in SUBSET Stops
  /\ poll \in Poll
  /\ rec \in Recording
  /\ runs \in 0..MaxRuns
  /\ calls \in [Calls -> Presences]
  /\ tcc \in BOOLEAN
  /\ quiet \in 0..NoTime
  /\ asked \in 0..MaxRuns

Effective(q) == q.pc = "queued" /\ Matches(q)

(* An automatic stop that would still go through is justified by what was  *)
(* last known: the feature is on and permitted, the user bound a call to   *)
(* this very recording, and every observation since the full grace period  *)
(* showed that call as ended.                                              *)
AutomaticStopIsJustified ==
  \A q \in stops : q.auto /\ Effective(q) =>
    /\ Watching(ctl) /\ ctl.seen = rec.seen
    /\ quiet = Grace
    /\ asked = rec.seen.run

(* The countdown and the user cannot both stop a recording.                *)
StopsOnce == Cardinality({q \in stops : Effective(q)}) <= 1

(* What a scan that will be applied says of the bound call was looked up   *)
(* for the call that is bound now.                                         *)
ScanIsOfBoundCall ==
  poll.pc \in {"scanning", "latest", "apply"} /\ ~Outdated =>
    poll.bound = ctl.source

(* The parts of the inductive invariant.  Only the controller's permit is  *)
(* ever valid, and it is while a call is bound, which is to a recording.   *)
PermitIsCurrent ==
  /\ valid \subseteq {ctl.permit}
  /\ ctl.source # NoCall => ctl.permit \in valid /\ ctl.seen # NoSeen

(* The stop that holds a valid permit is the one requested, and alone.     *)
RequestIsKnown ==
  \A q \in stops : q.permit = ctl.permit /\ ctl.permit \in valid =>
    /\ ctl.stopRequested /\ ctl.source # NoCall
    /\ q.seen = ctl.seen /\ q.auto = ctl.automatic
    /\ \A r \in stops : r.permit = ctl.permit => r = q

(* A countdown is not ahead of the time for which the call was seen ended. *)
CountdownIsHonest ==
  /\ ctl.deadline # NoTime => quiet # NoTime /\ ctl.deadline + quiet >= Grace
  /\ ctl.automatic => Watching(ctl) /\ quiet = Grace

(* A run is known to the service only once it has begun.                   *)
RunsAreKnown ==
  /\ ctl.seen.run <= runs /\ poll.seen.run <= runs /\ rec.seen.run <= runs
  /\ ctl.source # NoCall /\ rec.seen = ctl.seen => asked = ctl.seen.run

ScanIsFresh ==
  poll.fresh /\ poll.pc \in {"scanning", "latest", "apply"} =>
    poll.bound = ctl.source

IInv ==
  /\ TypeOK /\ PermitIsCurrent /\ RequestIsKnown /\ CountdownIsHonest
  /\ RunsAreKnown /\ ScanIsFresh

(* The listener as its status shows it.                                    *)
Listener == INSTANCE ListenerContract WITH shown <- rec.seen.note, live <- rec.live

(* Between recordings nothing is shown.                                    *)
NothingBetween == rec.seen.note = NoNote => rec = NoRecording

(* A step of the listener alone, of which every recording has its own      *)
(* started_at: set_pipeline_phase sets it with the first phase and clears  *)
(* it with Inactive.                                                       *)
ListenerMoves ==
  /\ Listener!Next
  /\ rec' \in Recording
  /\ IF rec.seen.note = NoNote
       THEN runs' = runs + 1 /\ rec'.seen.run = runs'
       ELSE /\ runs' = runs
            /\ rec'.seen.run = IF rec'.seen.note = NoNote THEN NoRun
                               ELSE rec.seen.run
  /\ UNCHANGED <<service, stops, poll, world, history>>

(* A stop task, the countdown's or the user's, only ends a recording for   *)
(* which the user bound a call while it was running: never the next one,   *)
(* even of the same note.                                                  *)
StopsOnlyItsRecording ==
  [][\A q \in stops : HandleStop(q) /\ rec' # rec =>
       asked = rec.seen.run]_vars

(* A live, watched recording whose call is over.                           *)
Abandoned ==
  /\ rec.live /\ ctl.seen = rec.seen /\ ctl.enabled /\ tcc
  /\ ctl.source # NoCall
  /\ calls[ctl.source] = "ended"

(* A recording whose associated call stays ended does not go on for ever,  *)
(* as long as the pipeline is live, scans work, permission is given and    *)
(* the user does not associate again and again.                            *)
EndedCallStops ==
  <>[][~(ScanFails \/ \E c \in Calls \cup {NoCall} : Associate(c))]_vars
    => ~<>[]Abandoned
=============================================================================
