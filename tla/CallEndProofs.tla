---------------------------- MODULE CallEndProofs ----------------------------
(* Proofs about stopping a recording when its call ends, for any notes,      *)
(* calls and permits, any number of recordings and any grace period.  The    *)
(* inductive invariant is IInv of CallEnd.  What setting the permission,     *)
(* forgetting a recording and observing a scan do to the controller is       *)
(* stated once, in one lemma each, and cited by the steps that do it.        *)
EXTENDS CallEnd, FiniteSetTheorems, TLAPS

LEMMA ConstantFacts ==
  /\ MaxRuns \in Nat /\ Grace \in Nat /\ Grace > 0
  /\ NoTime = Grace + 1 /\ NoTime \in 0 .. NoTime /\ Grace \in 0 .. NoTime
  /\ NoRun = 0 /\ NoRun \in 0 .. MaxRuns
  /\ NoSeen \in Seen /\ NoSeen.run = 0 /\ NoSeen.note = NoNote
  /\ NoRecording \in Recording /\ NoRecording.seen = NoSeen
  /\ IdlePoll \in Poll /\ IdlePoll.pc = "idle" /\ IdlePoll.seen = NoSeen
  /\ \A s \in Seen : s.run \in Nat
BY CallEndAssumption
   DEF NoTime, NoRun, Seen, NoSeen, Recording, NoRecording, Poll, IdlePoll, Presences

(* The fields of a controller. *)
LEMMA ControllerFields ==
  ASSUME NEW c \in Controller
  PROVE  /\ c.enabled \in BOOLEAN /\ c.granted \in BOOLEAN /\ c.seen \in Seen
         /\ c.independent \in BOOLEAN /\ c.candidates \subseteq Calls
         /\ c.source \in Calls \cup {NoCall} /\ c.deadline \in 0 .. NoTime
         /\ c.stopRequested \in BOOLEAN /\ c.automatic \in BOOLEAN
         /\ c.permit \in Permits
BY DEF Controller

(* What the three invariants of the service say, in one word. *)
ServiceOK == PermitIsCurrent /\ RequestIsKnown /\ CountdownIsHonest

ServiceTyped ==
  /\ ctl \in Controller /\ valid \in SUBSET Permits
  /\ stops \in SUBSET Stops /\ quiet \in 0 .. NoTime

LEMMA CalmFacts ==
  ASSUME NEW c \in Controller, NEW p \in Permits
  PROVE  /\ Calm(c, p) \in Controller
         /\ Calm(c, p).deadline = NoTime /\ ~Calm(c, p).automatic
         /\ Calm(c, p).source = c.source /\ Calm(c, p).seen = c.seen
         /\ Calm(c, p).enabled = c.enabled /\ Calm(c, p).granted = c.granted
         /\ Calm(c, p).permit = IF c.automatic THEN p ELSE c.permit
         /\ ~c.automatic => Calm(c, p).stopRequested = c.stopRequested
BY ConstantFacts DEF Calm, Controller

LEMMA CountDownFacts ==
  ASSUME NEW c \in Controller
  PROVE  /\ CountDown(c) \in Controller
         /\ CountDown(c).deadline \in {c.deadline, Grace}
         /\ CountDown(c).automatic = c.automatic
         /\ CountDown(c).stopRequested = c.stopRequested
         /\ CountDown(c).source = c.source /\ CountDown(c).seen = c.seen
         /\ CountDown(c).permit = c.permit
         /\ Watching(CountDown(c)) = Watching(c)
BY ConstantFacts DEF CountDown, Controller, Watching

(* A new permit is one that no stop holds: whoever held the old one lost it. *)
LEMMA CalmKeeps ==
  ASSUME TypeOK, ServiceOK, NEW c \in Controller,
         c.automatic = ctl.automatic, c.source = ctl.source, c.seen = ctl.seen,
         c.permit = ctl.permit, c.stopRequested = ctl.stopRequested,
         NEW p \in (IF c.automatic THEN NewPermits ELSE {c.permit}),
         ctl' = Calm(c, p), valid' = Renewed(ctl'), quiet' = NoTime, stops' = stops,
         c.source # NoCall
  PROVE  /\ ServiceOK' /\ ServiceTyped'
         /\ ctl'.source = ctl.source /\ ctl'.seen = ctl.seen
<1>1. p \in Permits /\ ctl.permit \in Permits
  BY DEF NewPermits, TypeOK, Controller
<1>2. /\ ctl' \in Controller /\ ctl'.deadline = NoTime /\ ~ctl'.automatic
      /\ ctl'.source = ctl.source /\ ctl'.seen = ctl.seen /\ ctl'.permit = p
      /\ ~ctl.automatic => ctl'.stopRequested = ctl.stopRequested
  BY <1>1, CalmFacts
<1>3. valid' = {p}
  <2>1. valid = {ctl.permit}
    BY DEF ServiceOK, PermitIsCurrent
  <2>2. QED
    BY <1>2, <2>1 DEF Renewed
<1>4. PermitIsCurrent'
  BY <1>2, <1>3 DEF ServiceOK, PermitIsCurrent
<1>5. RequestIsKnown'
  <2>1. CASE ctl.automatic
    <3>1. \A q \in stops : q.permit # p
      BY <2>1 DEF NewPermits
    <3>2. \A q \in stops' : q.permit # ctl'.permit
      BY <1>2, <3>1
    <3>3. QED
      BY <3>2 DEF RequestIsKnown
  <2>2. CASE ~ctl.automatic
    <3>1. p = ctl.permit /\ p \in valid
      BY <2>2 DEF ServiceOK, PermitIsCurrent
    <3>2. ctl'.automatic = FALSE /\ ctl.automatic = FALSE
      BY <1>2, <2>2, ControllerFields DEF TypeOK
    <3>3. ASSUME NEW q \in stops, q.permit = p
          PROVE  /\ ctl'.stopRequested /\ ctl'.source # NoCall
                 /\ q.seen = ctl'.seen /\ q.auto = ctl'.automatic
                 /\ \A r \in stops : r.permit = p => r = q
      <4>1. /\ ctl.stopRequested /\ ctl.source # NoCall
            /\ q.seen = ctl.seen /\ q.auto = ctl.automatic
            /\ \A r \in stops : r.permit = p => r = q
        BY <3>1, <3>3 DEF ServiceOK, RequestIsKnown
      <4>2. QED
        BY <1>2, <2>2, <3>2, <4>1
    <3>4. QED
      BY <1>2, <3>3 DEF RequestIsKnown
  <2>3. QED
    BY <2>1, <2>2
<1>6. CountdownIsHonest'
  BY <1>2 DEF CountdownIsHonest
<1>7. QED
  BY <1>1, <1>2, <1>3, <1>4, <1>5, <1>6, ConstantFacts
     DEF ServiceOK, ServiceTyped, TypeOK

LEMMA PermissionKeeps ==
  ASSUME TypeOK, ServiceOK, NEW granted \in BOOLEAN, SetPermission(granted),
         stops' = stops
  PROVE  /\ ServiceOK' /\ ServiceTyped'
         /\ ctl'.source = ctl.source /\ ctl'.seen = ctl.seen
<1>0. ctl \in Controller
  BY DEF TypeOK
<1>1. CASE granted \/ ~Watching(ctl)
  <2>1. /\ ctl' = [ctl EXCEPT !.granted = granted,
                              !.candidates = IF granted THEN @ ELSE {}]
        /\ valid' = valid /\ quiet' = quiet
    BY <1>1 DEF SetPermission
  <2>2. /\ ctl' \in Controller
        /\ ctl'.source = ctl.source /\ ctl'.seen = ctl.seen /\ ctl'.permit = ctl.permit
        /\ ctl'.stopRequested = ctl.stopRequested /\ ctl'.automatic = ctl.automatic
        /\ ctl'.deadline = ctl.deadline /\ ctl'.enabled = ctl.enabled
        /\ ctl'.independent = ctl.independent /\ ctl'.granted = granted
    BY <1>0, <2>1 DEF Controller
  <2>3. ctl'.automatic => Watching(ctl')
    BY <1>1, <2>2 DEF ServiceOK, CountdownIsHonest, Watching
  <2>4. CountdownIsHonest'
    BY <2>1, <2>2, <2>3 DEF ServiceOK, CountdownIsHonest
  <2>5. PermitIsCurrent' /\ RequestIsKnown'
    BY <2>1, <2>2 DEF ServiceOK, PermitIsCurrent, RequestIsKnown
  <2>6. QED
    BY <2>1, <2>2, <2>4, <2>5 DEF ServiceOK, ServiceTyped, TypeOK
<1>2. CASE ~granted /\ Watching(ctl)
  <2>1. PICK p \in (IF ctl.automatic THEN NewPermits ELSE {ctl.permit}) :
          /\ ctl' = [Calm(ctl, p) EXCEPT !.granted = granted, !.candidates = {}]
          /\ valid' = Renewed(ctl')
          /\ quiet' = NoTime
    BY <1>2 DEF SetPermission
  <2> DEFINE c == [ctl EXCEPT !.granted = granted, !.candidates = {}]
  <2>2. /\ c \in Controller /\ c.source = ctl.source /\ c.seen = ctl.seen
        /\ c.permit = ctl.permit /\ c.automatic = ctl.automatic
        /\ c.stopRequested = ctl.stopRequested
    BY <1>0, <1>2 DEF Controller
  <2>3. ctl' = Calm(c, p)
    BY <1>0, <2>1 DEF Calm, Controller
  <2>4. ctl.source # NoCall
    BY <1>2 DEF Watching
  <2> HIDE DEF c
  <2>5. QED
    BY <2>1, <2>2, <2>3, <2>4, CalmKeeps
<1>3. QED
  BY <1>1, <1>2

(* Forgetting a recording leaves no valid permit. *)
LEMMA ForgottenKeeps ==
  ASSUME TypeOK, ServiceOK, NEW c \in Controller, NEW s \in Seen,
         c.permit = ctl.permit, Forgotten(c, s), stops' = stops
  PROVE  /\ ServiceOK' /\ ServiceTyped'
         /\ ctl'.source = NoCall /\ ctl'.seen = s
<1>1. /\ ctl' \in Controller /\ ctl'.source = NoCall /\ ctl'.seen = s
      /\ ctl'.permit = ctl.permit /\ ctl'.deadline = NoTime /\ ~ctl'.automatic
  BY ConstantFacts DEF Forgotten, Forget, Controller
<1>2. valid' = {} /\ quiet' = NoTime
  BY DEF Forgotten, ServiceOK, PermitIsCurrent
<1>3. QED
  BY <1>1, <1>2, ConstantFacts
     DEF ServiceOK, PermitIsCurrent, RequestIsKnown, CountdownIsHonest,
         ServiceTyped, TypeOK

(* What is observed of the bound call: the countdown follows it, and a stop  *)
(* is requested when it is over.                                             *)
LEMMA ObserveKeeps ==
  ASSUME TypeOK, ServiceOK, NEW found \in SUBSET Calls, NEW presence,
         Observe(found, presence)
  PROVE  /\ ServiceOK' /\ ServiceTyped'
         /\ ctl'.source = ctl.source /\ ctl'.seen = ctl.seen
<1> DEFINE c == [ctl EXCEPT !.granted = TRUE, !.candidates = found]
           d == CountDown(c)
<1>0. /\ c \in Controller /\ c.source = ctl.source /\ c.seen = ctl.seen
      /\ c.permit = ctl.permit /\ c.automatic = ctl.automatic
      /\ c.stopRequested = ctl.stopRequested /\ c.deadline = ctl.deadline
      /\ c.enabled = ctl.enabled /\ c.independent = ctl.independent /\ c.granted
  BY DEF TypeOK, Controller
<1>1. CASE ~Watching(c) /\ ctl' = c /\ UNCHANGED <<valid, stops, quiet>>
  <2>1. ctl'.automatic => Watching(ctl')
    BY <1>0, <1>1 DEF ServiceOK, CountdownIsHonest, Watching
  <2>2. CountdownIsHonest'
    BY <1>0, <1>1, <2>1 DEF ServiceOK, CountdownIsHonest
  <2>3. PermitIsCurrent' /\ RequestIsKnown'
    BY <1>0, <1>1 DEF ServiceOK, PermitIsCurrent, RequestIsKnown
  <2>4. QED
    BY <1>0, <1>1, <2>2, <2>3 DEF ServiceOK, ServiceTyped, TypeOK
<1>2. CASE /\ Watching(c) /\ presence # "ended"
           /\ \E p \in IF c.automatic THEN NewPermits ELSE {c.permit} :
                /\ ctl' = Calm(c, p)
                /\ valid' = Renewed(ctl')
           /\ quiet' = NoTime
           /\ UNCHANGED stops
  <2>1. c.source # NoCall
    BY <1>2 DEF Watching
  <2> HIDE DEF c
  <2>2. QED
    BY <1>0, <1>2, <2>1, CalmKeeps
<1>3. CASE /\ Watching(c) /\ presence = "ended"
           /\ IF d.deadline = 0 /\ MayStop(d, TRUE)
                THEN /\ stops' = stops \cup {StopOf(d, TRUE)}
                     /\ ctl' = [d EXCEPT !.stopRequested = TRUE, !.automatic = TRUE]
                ELSE UNCHANGED stops /\ ctl' = d
           /\ quiet' = IF quiet = NoTime THEN 0 ELSE quiet
           /\ UNCHANGED valid
  <2>1. /\ d \in Controller /\ d.source = ctl.source /\ d.seen = ctl.seen
        /\ d.permit = ctl.permit /\ d.automatic = ctl.automatic
        /\ d.stopRequested = ctl.stopRequested /\ d.deadline \in {ctl.deadline, Grace}
        /\ Watching(d)
    BY <1>0, <1>3, CountDownFacts
  <2>2. /\ quiet' \in 0 .. NoTime /\ quiet' # NoTime /\ valid' = valid
        /\ quiet # NoTime => quiet' = quiet
    BY <1>3, ConstantFacts DEF TypeOK
  <2>3. /\ d.deadline # NoTime => d.deadline + quiet' >= Grace
        /\ d.automatic => quiet' = Grace
    <3>1. CASE d.deadline = Grace
      BY <2>1, <2>2, <3>1, ConstantFacts DEF ServiceOK, CountdownIsHonest
    <3>2. CASE d.deadline = ctl.deadline
      BY <2>1, <2>2, <3>2, ConstantFacts DEF ServiceOK, CountdownIsHonest
    <3>3. QED
      BY <2>1, <3>1, <3>2
  <2> HIDE DEF d
  <2>4. CASE d.deadline = 0 /\ MayStop(d, TRUE)
    <3>1. /\ stops' = stops \cup {StopOf(d, TRUE)}
          /\ ctl' = [d EXCEPT !.stopRequested = TRUE, !.automatic = TRUE]
      BY <1>3, <2>4
    <3>2. /\ ctl' \in Controller /\ ctl'.source = ctl.source /\ ctl'.seen = ctl.seen
          /\ ctl'.permit = ctl.permit /\ ctl'.automatic /\ ctl'.stopRequested
          /\ ctl'.deadline = 0 /\ Watching(ctl')
      BY <2>1, <2>4, <3>1 DEF Controller, Watching
    <3>3. quiet' = Grace
      <4>1. d.deadline = 0 /\ d.deadline # NoTime
        BY <2>4, ConstantFacts
      <4>2. PICK t \in 0 .. NoTime : t = quiet'
        BY <2>2
      <4>3. t # NoTime /\ 0 + t >= Grace
        BY <2>2, <2>3, <4>1, <4>2
      <4>4. t = Grace
        BY <4>3, ConstantFacts
      <4>5. QED
        BY <4>2, <4>4
    <3>4. /\ ~ctl.stopRequested /\ ctl.source # NoCall
          /\ ctl.permit \in valid
      BY <2>1, <2>4 DEF MayStop, ServiceOK, PermitIsCurrent
    <3>5. \A q \in stops : q.permit # ctl.permit
      BY <3>4 DEF ServiceOK, RequestIsKnown
    <3>6. /\ StopOf(d, TRUE) \in Stops /\ StopOf(d, TRUE).permit = ctl.permit
          /\ StopOf(d, TRUE).seen = ctl.seen /\ StopOf(d, TRUE).auto = TRUE
      BY <2>1, ControllerFields DEF StopOf, Stops
    <3>7. RequestIsKnown'
      <4> DEFINE new == StopOf(d, TRUE)
      <4>1. \A q \in stops' : q.permit = ctl'.permit => q = new
        BY <3>1, <3>2, <3>5
      <4>2. new.seen = ctl'.seen /\ new.auto = ctl'.automatic /\ ctl'.source # NoCall
        <5>1. ctl'.automatic = TRUE
          BY <2>1, <3>1 DEF Controller
        <5>2. QED
          BY <3>2, <3>4, <3>6, <5>1
      <4> HIDE DEF new
      <4>3. SUFFICES ASSUME NEW q \in stops', q.permit = ctl'.permit
                     PROVE  /\ ctl'.stopRequested /\ ctl'.source # NoCall
                            /\ q.seen = ctl'.seen /\ q.auto = ctl'.automatic
                            /\ \A r \in stops' : r.permit = ctl'.permit => r = q
        BY DEF RequestIsKnown
      <4>4. q = new /\ \A r \in stops' : r.permit = ctl'.permit => r = new
        BY <4>1, <4>3
      <4>5. q.seen = ctl'.seen /\ q.auto = ctl'.automatic /\ ctl'.source # NoCall
        BY <4>2, <4>4
      <4>6. QED
        BY <3>2, <4>4, <4>5
    <3>8. CountdownIsHonest' /\ PermitIsCurrent'
      BY <2>2, <2>3, <2>4, <3>2, <3>3 DEF CountdownIsHonest, ServiceOK, PermitIsCurrent
    <3>9. QED
      BY <2>2, <3>1, <3>2, <3>6, <3>7, <3>8
         DEF ServiceOK, ServiceTyped, TypeOK
  <2>5. CASE ~(d.deadline = 0 /\ MayStop(d, TRUE))
    <3>1. UNCHANGED stops /\ ctl' = d
      BY <1>3, <2>5
    <3>2. CountdownIsHonest'
      BY <2>1, <2>2, <2>3, <3>1 DEF CountdownIsHonest
    <3>3. PermitIsCurrent' /\ RequestIsKnown'
      BY <2>1, <2>2, <3>1 DEF ServiceOK, PermitIsCurrent, RequestIsKnown
    <3>4. QED
      BY <2>1, <2>2, <3>1, <3>2, <3>3 DEF ServiceOK, ServiceTyped, TypeOK
  <2>6. QED
    BY <2>4, <2>5
<1>4. QED
  BY <1>1, <1>2, <1>3 DEF Observe

-----------------------------------------------------------------------------
(* The steps, one lemma for those of a kind: first the commands of the       *)
(* interface, ...                                                            *)
RestTyped ==
  /\ poll \in Poll /\ rec \in Recording /\ runs \in 0 .. MaxRuns
  /\ calls \in [Calls -> Presences] /\ tcc \in BOOLEAN /\ asked \in 0 .. MaxRuns

LEMMA Parts ==
  /\ IInv <=> ServiceOK /\ ServiceTyped /\ RestTyped /\ RunsAreKnown /\ ScanIsFresh
  /\ (IInv <=> ServiceOK /\ ServiceTyped /\ RestTyped /\ RunsAreKnown /\ ScanIsFresh)'
BY DEF IInv, ServiceOK, ServiceTyped, RestTyped, TypeOK

(* What becomes of the runs when nothing is bound anew. *)
LEMMA RunsKept ==
  ASSUME IInv, ctl'.source # NoCall => ctl'.source = ctl.source /\ ctl'.seen = ctl.seen,
         ctl'.seen \in {ctl.seen, poll.seen, NoSeen},
         poll'.seen \in {poll.seen, rec.seen, NoSeen},
         UNCHANGED <<rec, runs, asked>>
  PROVE  RunsAreKnown'
<1>1. ctl'.seen.run <= runs /\ poll'.seen.run <= runs /\ rec.seen.run <= runs
  BY ConstantFacts DEF IInv, RunsAreKnown, TypeOK
<1>2. QED
  BY <1>1 DEF IInv, RunsAreKnown

LEMMA SetEnabledKeeps ==
  ASSUME IInv, NEW on \in BOOLEAN, SetEnabled(on)
  PROVE  IInv'
<1>0. TypeOK /\ ServiceOK /\ RestTyped /\ ctl \in Controller
  BY Parts DEF IInv, TypeOK
<1>1. poll' \in Poll /\ poll'.seen = poll.seen /\ ~poll'.fresh
  BY <1>0 DEF SetEnabled, Revised, RestTyped, Poll
<1>2. /\ ServiceOK' /\ ServiceTyped'
      /\ ctl'.source # NoCall => ctl'.source = ctl.source /\ ctl'.seen = ctl.seen
      /\ ctl'.seen \in {ctl.seen, NoSeen}
  <2>1. CASE on /\ ctl.seen = NoSeen
    <3>1. /\ ctl' = [ctl EXCEPT !.enabled = TRUE] /\ UNCHANGED <<valid, quiet, stops>>
      BY <2>1 DEF SetEnabled
    <3>2. /\ ctl' \in Controller
          /\ ctl'.source = ctl.source /\ ctl'.seen = ctl.seen /\ ctl'.permit = ctl.permit
          /\ ctl'.stopRequested = ctl.stopRequested /\ ctl'.automatic = ctl.automatic
          /\ ctl'.deadline = ctl.deadline /\ ctl'.granted = ctl.granted
          /\ ctl'.independent = ctl.independent /\ ctl'.enabled
      BY <1>0, <3>1 DEF Controller
    <3>3. CountdownIsHonest'
      BY <1>0, <3>1, <3>2 DEF ServiceOK, CountdownIsHonest, Watching
    <3>4. PermitIsCurrent' /\ RequestIsKnown'
      BY <1>0, <3>1, <3>2 DEF ServiceOK, PermitIsCurrent, RequestIsKnown
    <3>5. QED
      BY <1>0, <3>1, <3>2, <3>3, <3>4 DEF ServiceOK, ServiceTyped, TypeOK
  <2>2. CASE ~(on /\ ctl.seen = NoSeen)
    <3> DEFINE c == [ctl EXCEPT !.enabled = on]
    <3>1. c \in Controller /\ c.permit = ctl.permit
      BY <1>0 DEF Controller
    <3>2. Forgotten(c, NoSeen) /\ stops' = stops
      BY <2>2 DEF SetEnabled
    <3> HIDE DEF c
    <3>3. QED
      BY <1>0, <3>1, <3>2, ForgottenKeeps, ConstantFacts
  <2>3. QED
    BY <2>1, <2>2
<1>3. RunsAreKnown'
  BY <1>1, <1>2, RunsKept DEF SetEnabled, listener
<1>4. ScanIsFresh'
  BY <1>1 DEF ScanIsFresh
<1>5. RestTyped'
  BY <1>0, <1>1 DEF SetEnabled, listener, world, RestTyped
<1>6. QED
  BY <1>2, <1>3, <1>4, <1>5, Parts

LEMMA AssociateKeeps ==
  ASSUME IInv, NEW c \in Calls \cup {NoCall}, Associate(c)
  PROVE  IInv'
<1>0. TypeOK /\ ServiceOK /\ RestTyped /\ ctl \in Controller
  BY Parts DEF IInv, TypeOK
<1>1. PICK p \in NewPermits :
        /\ ctl' = [ctl EXCEPT !.independent = (c = NoCall), !.permit = p,
                              !.source = c, !.deadline = NoTime,
                              !.stopRequested = FALSE, !.automatic = FALSE]
        /\ valid' = (valid \ {ctl.permit}) \cup (IF c = NoCall THEN {} ELSE {p})
  BY DEF Associate
<1>2. p \in Permits /\ \A q \in stops : q.permit # p
  BY DEF NewPermits
<1>3. /\ ctl' \in Controller /\ ctl'.source = c /\ ctl'.seen = ctl.seen
      /\ ctl'.permit = p /\ ctl'.deadline = NoTime /\ ~ctl'.automatic
  BY <1>0, <1>1, <1>2, ConstantFacts DEF Controller
<1>4. /\ valid' = IF c = NoCall THEN {} ELSE {p}
      /\ UNCHANGED <<stops, rec, runs, calls, tcc>>
      /\ quiet' = NoTime /\ asked' = rec.seen.run /\ ctl.seen # NoSeen
  BY <1>0, <1>1 DEF Associate, listener, world, ServiceOK, PermitIsCurrent
<1>5. poll' \in Poll /\ poll'.seen = poll.seen /\ ~poll'.fresh
  BY <1>0 DEF Associate, Revised, RestTyped, Poll
<1>6. PermitIsCurrent' /\ CountdownIsHonest'
  BY <1>3, <1>4 DEF PermitIsCurrent, CountdownIsHonest
<1>7. RequestIsKnown'
  <2>1. \A q \in stops' : q.permit # ctl'.permit
    BY <1>2, <1>3, <1>4
  <2>2. QED
    BY <2>1 DEF RequestIsKnown
<1>8. RunsAreKnown' /\ ScanIsFresh'
  BY <1>3, <1>4, <1>5 DEF IInv, RunsAreKnown, ScanIsFresh
<1>9. asked' \in 0 .. MaxRuns
  BY <1>0, <1>4 DEF RestTyped, Recording, Seen
<1>10. QED
  BY <1>0, <1>2, <1>3, <1>4, <1>5, <1>6, <1>7, <1>8, <1>9, Parts, ConstantFacts
     DEF RestTyped, ServiceTyped, ServiceOK, TypeOK

LEMMA UserStopKeeps ==
  ASSUME IInv, UserStop
  PROVE  IInv'
<1> DEFINE new == StopOf(ctl, FALSE)
<1>0. TypeOK /\ ServiceOK /\ RestTyped /\ ctl \in Controller
  BY Parts DEF IInv, TypeOK
<1>1. /\ ctl' \in Controller /\ ctl'.source = ctl.source /\ ctl'.seen = ctl.seen
      /\ ctl'.permit = ctl.permit /\ ctl'.deadline = ctl.deadline
      /\ ctl'.stopRequested /\ ctl'.automatic = FALSE
  BY <1>0 DEF UserStop, Controller
<1>2. /\ ~ctl.stopRequested /\ ctl.source # NoCall /\ ctl.permit \in valid
      /\ stops' = stops \cup {new} /\ UNCHANGED <<valid, poll, listener, world, history>>
  BY <1>0 DEF UserStop, MayStop, ServiceOK, PermitIsCurrent
<1>3. \A q \in stops : q.permit # ctl.permit
  BY <1>0, <1>2 DEF ServiceOK, RequestIsKnown
<1>4. /\ new \in Stops /\ new.permit = ctl.permit /\ new.seen = ctl.seen
      /\ new.auto = FALSE
  BY <1>0, ControllerFields DEF StopOf, Stops
<1> HIDE DEF new
<1>5. RequestIsKnown'
  <2>1. SUFFICES ASSUME NEW q \in stops', q.permit = ctl'.permit
                 PROVE  /\ ctl'.stopRequested /\ ctl'.source # NoCall
                        /\ q.seen = ctl'.seen /\ q.auto = ctl'.automatic
                        /\ \A r \in stops' : r.permit = ctl'.permit => r = q
    BY DEF RequestIsKnown
  <2>2. q = new /\ \A r \in stops' : r.permit = ctl'.permit => r = new
    BY <1>1, <1>2, <1>3, <2>1
  <2>3. QED
    BY <1>1, <1>2, <1>4, <2>2
<1>6. PermitIsCurrent' /\ CountdownIsHonest'
  BY <1>0, <1>1, <1>2 DEF ServiceOK, PermitIsCurrent, CountdownIsHonest, history
<1>7. RunsAreKnown' /\ ScanIsFresh'
  BY <1>1, <1>2 DEF IInv, RunsAreKnown, ScanIsFresh, listener, history
<1>8. QED
  BY <1>0, <1>1, <1>2, <1>4, <1>5, <1>6, <1>7, Parts
     DEF RestTyped, ServiceTyped, ServiceOK, TypeOK, listener, world, history

-----------------------------------------------------------------------------
(* ... then the tick of the poll, ...                                        *)
LEMMA PermissionStepKeeps ==
  ASSUME IInv, PollStatus \/ TickBegins
  PROVE  IInv'
<1>0. TypeOK /\ ServiceOK /\ RestTyped /\ ctl \in Controller /\ tcc \in BOOLEAN
  BY Parts DEF IInv, TypeOK
<1>1. SetPermission(tcc) /\ UNCHANGED <<stops, rec, runs, calls, tcc, asked>>
  BY DEF PollStatus, TickBegins, listener, world
<1>2. /\ ServiceOK' /\ ServiceTyped'
      /\ ctl'.source = ctl.source /\ ctl'.seen = ctl.seen
  BY <1>0, <1>1, PermissionKeeps
<1>3. /\ poll' \in Poll /\ poll'.seen \in {poll.seen, NoSeen}
      /\ poll' = poll \/ ~poll'.fresh
  <2>1. CASE poll' = poll
    BY <1>0, <2>1 DEF RestTyped
  <2>2. CASE poll' # poll
    <3>1. poll' = [IdlePoll EXCEPT
                     !.pending = ctl.automatic,
                     !.pc = IF ctl.automatic THEN "snapshot" ELSE "pipeline"]
      BY <2>2 DEF PollStatus, TickBegins
    <3>2. ctl.automatic \in BOOLEAN
      BY <1>0, ControllerFields
    <3>3. IdlePoll \in Poll /\ IdlePoll.seen = NoSeen /\ ~IdlePoll.fresh
      BY ConstantFacts DEF IdlePoll
    <3>4. QED
      BY <3>1, <3>2, <3>3 DEF Poll
  <2>3. QED
    BY <2>1, <2>2
<1>4. RunsAreKnown'
  BY <1>1, <1>2, <1>3, RunsKept
<1>5. ScanIsFresh'
  BY <1>2, <1>3 DEF IInv, ScanIsFresh
<1>6. RestTyped'
  BY <1>0, <1>1, <1>3 DEF RestTyped
<1>7. QED
  BY <1>2, <1>4, <1>5, <1>6, Parts

LEMMA ReadPipelineKeeps ==
  ASSUME IInv, ReadPipeline
  PROVE  IInv'
<1>0. TypeOK /\ RestTyped /\ rec.seen \in Seen
  BY Parts DEF IInv, TypeOK, Recording
<1>1. Shown \in Seen /\ Shown \in {rec.seen, NoSeen}
  BY <1>0, ConstantFacts DEF Shown
<1>2. /\ poll' \in Poll /\ poll'.seen \in {rec.seen, NoSeen}
      /\ poll'.pc = "apply" => poll.pc = "latest"
      /\ poll'.pc \in {"sync", "apply"}
      /\ poll'.fresh = poll.fresh /\ poll'.bound = poll.bound
  BY <1>0, <1>1 DEF ReadPipeline, RestTyped, Poll
<1>3. /\ UNCHANGED <<ctl, valid, stops, rec, runs, calls, tcc, quiet, asked>>
  BY DEF ReadPipeline, service, listener, world, history
<1>4. RunsAreKnown'
  BY <1>2, <1>3, RunsKept
<1>5. ScanIsFresh'
  BY <1>2, <1>3 DEF IInv, ScanIsFresh
<1>6. QED
  BY <1>0, <1>2, <1>3, <1>4, <1>5
     DEF IInv, TypeOK, PermitIsCurrent, RequestIsKnown, CountdownIsHonest, Watching

LEMMA SyncRecordingKeeps ==
  ASSUME IInv, SyncRecording
  PROVE  IInv'
<1>0. TypeOK /\ ServiceOK /\ RestTyped /\ ctl \in Controller /\ poll.seen \in Seen
  BY Parts DEF IInv, TypeOK, Poll
<1>1. /\ poll' \in Poll /\ poll'.seen = poll.seen /\ poll'.pc = "snapshot"
      /\ UNCHANGED <<stops, rec, runs, calls, tcc, asked>>
  BY <1>0 DEF SyncRecording, RestTyped, Poll, listener, world
<1>2. /\ ServiceOK' /\ ServiceTyped'
      /\ ctl'.source # NoCall => ctl'.source = ctl.source /\ ctl'.seen = ctl.seen
      /\ ctl'.seen \in {ctl.seen, poll.seen}
  <2>1. CASE Known(poll.seen)
    <3>1. UNCHANGED <<ctl, valid, quiet, stops>>
      BY <2>1 DEF SyncRecording, service
    <3>2. QED
      BY <1>0, <3>1
         DEF ServiceOK, ServiceTyped, TypeOK, PermitIsCurrent, RequestIsKnown,
             CountdownIsHonest, Watching
  <2>2. CASE ~Known(poll.seen)
    BY <1>0, <1>1, <2>2, ForgottenKeeps DEF SyncRecording
  <2>3. QED
    BY <2>1, <2>2
<1>3. RunsAreKnown'
  BY <1>1, <1>2, RunsKept
<1>4. ScanIsFresh'
  BY <1>1 DEF ScanIsFresh
<1>5. RestTyped'
  BY <1>0, <1>1 DEF RestTyped
<1>6. QED
  BY <1>2, <1>3, <1>4, <1>5, Parts

LEMMA ScanStepsKeep ==
  ASSUME IInv, TakeSnapshot \/ ScanCalls \/ ScanFails
  PROVE  IInv'
<1>0. TypeOK /\ RestTyped /\ ctl \in Controller /\ poll \in Poll
  BY Parts DEF IInv, TypeOK
<1>1. UNCHANGED <<ctl, valid, stops, rec, runs, calls, tcc, quiet, asked>>
  BY DEF TakeSnapshot, ScanCalls, ScanFails, Scanned, service, listener, world, history
<1>2. /\ poll' \in Poll /\ poll'.seen \in {poll.seen, NoSeen}
      /\ poll'.fresh /\ poll'.pc \in {"scanning", "latest", "apply"}
           => poll'.bound = ctl.source
  <2>1. CASE TakeSnapshot
    <3>1. ctl.source \in Calls \cup {NoCall}
      BY <1>0, ControllerFields
    <3>2. \/ poll' = IdlePoll
          \/ poll' = [poll EXCEPT !.pc = "scanning", !.bound = ctl.source, !.fresh = TRUE]
      BY <2>1 DEF TakeSnapshot
    <3>3. QED
      BY <1>0, <3>1, <3>2, ConstantFacts DEF Poll
  <2>2. CASE ScanCalls \/ ScanFails
    <3>1. /\ poll.pc = "scanning"
          /\ \E found \in SUBSET Calls, presence \in Presences :
               poll' = [poll EXCEPT !.pc = IF poll.pending THEN "apply" ELSE "latest",
                                    !.found = found, !.presence = presence]
      <4>1. calls \in [Calls -> Presences] /\ poll.bound \in Calls \cup {NoCall}
        BY <1>0 DEF RestTyped, Poll
      <4>2. (IF poll.bound = NoCall THEN "unknown" ELSE calls[poll.bound]) \in Presences
        BY <4>1 DEF Presences
      <4>3. /\ {c \in Calls : calls[c] = "active"} \in SUBSET Calls
            /\ {} \in SUBSET Calls /\ "unknown" \in Presences
        BY DEF Presences
      <4>4. QED
        BY <2>2, <4>2, <4>3 DEF ScanCalls, ScanFails, Scanned
    <3>2. poll' \in Poll
      BY <1>0, <3>1 DEF Poll
    <3>3. poll'.seen = poll.seen /\ poll'.fresh = poll.fresh /\ poll'.bound = poll.bound
      BY <1>0, <3>1 DEF Poll
    <3>4. QED
      BY <3>1, <3>2, <3>3 DEF IInv, ScanIsFresh
  <2>3. QED
    BY <2>1, <2>2
<1>3. RunsAreKnown'
  BY <1>1, <1>2, RunsKept
<1>4. ScanIsFresh'
  BY <1>1, <1>2 DEF ScanIsFresh
<1>5. QED
  BY <1>0, <1>1, <1>2, <1>3, <1>4
     DEF IInv, TypeOK, PermitIsCurrent, RequestIsKnown, CountdownIsHonest, Watching

LEMMA ApplyKeeps ==
  ASSUME IInv, Apply
  PROVE  IInv'
<1>0. TypeOK /\ ServiceOK /\ RestTyped /\ ctl \in Controller /\ poll \in Poll
  BY Parts DEF IInv, TypeOK
<1>1. poll' = IdlePoll /\ UNCHANGED <<rec, runs, calls, tcc, asked>>
  BY DEF Apply, listener, world
<1>2. /\ ServiceOK' /\ ServiceTyped'
      /\ ctl'.source # NoCall => ctl'.source = ctl.source /\ ctl'.seen = ctl.seen
      /\ ctl'.seen \in {ctl.seen, poll.seen}
  <2>1. CASE UNCHANGED <<service, stops, quiet>>
    BY <1>0, <2>1
       DEF service, ServiceOK, ServiceTyped, TypeOK, PermitIsCurrent, RequestIsKnown,
           CountdownIsHonest, Watching
  <2>2. CASE SetPermission(FALSE) /\ UNCHANGED stops
    BY <1>0, <2>2, PermissionKeeps
  <2>3. CASE /\ Forgotten([ctl EXCEPT !.granted = TRUE], poll.seen)
             /\ UNCHANGED stops
    <3> DEFINE c == [ctl EXCEPT !.granted = TRUE]
    <3>1. c \in Controller /\ c.permit = ctl.permit /\ poll.seen \in Seen
      BY <1>0 DEF Controller, Poll
    <3> HIDE DEF c
    <3>2. QED
      BY <1>0, <2>3, <3>1, ForgottenKeeps DEF c
  <2>4. CASE Observe(poll.found, poll.presence)
    <3>1. poll.found \in SUBSET Calls
      BY <1>0 DEF Poll
    <3>2. QED
      BY <1>0, <2>4, <3>1, ObserveKeeps
  <2>5. QED
    BY <2>1, <2>2, <2>3, <2>4 DEF Apply
<1>3. RunsAreKnown'
  BY <1>1, <1>2, RunsKept, ConstantFacts
<1>4. ScanIsFresh' /\ RestTyped'
  BY <1>0, <1>1, ConstantFacts DEF ScanIsFresh, RestTyped
<1>5. QED
  BY <1>2, <1>3, <1>4, Parts

-----------------------------------------------------------------------------
(* ... the stop tasks, ...                                                   *)
LEMMA HandleStopKeeps ==
  ASSUME IInv, NEW q \in stops, HandleStop(q)
  PROVE  IInv'
<1> DEFINE back == [q EXCEPT !.pc = "handled"]
<1>0. TypeOK /\ ServiceOK /\ RestTyped /\ q \in Stops /\ rec.seen \in Seen
  BY Parts DEF IInv, TypeOK, Recording
<1>1. /\ back \in Stops /\ back.permit = q.permit /\ back.seen = q.seen
      /\ back.auto = q.auto
  BY <1>0 DEF Stops
<1>2. /\ stops' = (stops \ {q}) \cup (IF q.auto THEN {back} ELSE {})
      /\ rec' \in {rec, NoRecording}
      /\ UNCHANGED <<ctl, valid, poll, runs, calls, tcc, quiet, asked>>
  BY DEF HandleStop, service, world, history
<1> HIDE DEF back
<1>3. RequestIsKnown'
  <2>1. SUFFICES ASSUME NEW t \in stops', t.permit = ctl.permit, ctl.permit \in valid
                 PROVE  /\ ctl.stopRequested /\ ctl.source # NoCall
                        /\ t.seen = ctl.seen /\ t.auto = ctl.automatic
                        /\ \A r \in stops' : r.permit = ctl.permit => r = t
    BY <1>2 DEF RequestIsKnown
  <2>2. CASE t \in stops
    <3>1. /\ ctl.stopRequested /\ ctl.source # NoCall
          /\ t.seen = ctl.seen /\ t.auto = ctl.automatic
          /\ \A r \in stops : r.permit = ctl.permit => r = t
      BY <1>0, <2>1, <2>2 DEF ServiceOK, RequestIsKnown
    <3>2. CASE t = q
      BY <1>1, <1>2, <2>1, <3>1, <3>2
    <3>3. CASE t # q
      BY <1>1, <1>2, <2>1, <3>1, <3>3
    <3>4. QED
      BY <3>2, <3>3
  <2>3. CASE t \notin stops
    <3>1. t = back /\ q.permit = ctl.permit
      BY <1>1, <1>2, <2>1, <2>3
    <3>2. /\ ctl.stopRequested /\ ctl.source # NoCall
          /\ q.seen = ctl.seen /\ q.auto = ctl.automatic
          /\ \A r \in stops : r.permit = ctl.permit => r = q
      BY <1>0, <2>1, <3>1 DEF ServiceOK, RequestIsKnown
    <3>3. QED
      BY <1>1, <1>2, <3>1, <3>2
  <2>4. QED
    BY <2>2, <2>3
<1>4. PermitIsCurrent' /\ CountdownIsHonest' /\ ScanIsFresh'
  BY <1>2 DEF IInv, PermitIsCurrent, CountdownIsHonest, ScanIsFresh, Watching
<1>5. RunsAreKnown'
  <2>1. CASE rec' = rec
    BY <1>2, <2>1 DEF IInv, RunsAreKnown
  <2>2. CASE rec' = NoRecording
    BY <1>0, <1>2, <2>2, ConstantFacts
       DEF IInv, RunsAreKnown, PermitIsCurrent, TypeOK
  <2>3. QED
    BY <1>2, <2>1, <2>2
<1>6. QED
  BY <1>0, <1>1, <1>2, <1>3, <1>4, <1>5, ConstantFacts DEF IInv, TypeOK

LEMMA FinishStopKeeps ==
  ASSUME IInv, NEW q \in stops, FinishStop(q)
  PROVE  IInv'
<1>0. TypeOK /\ ServiceOK /\ ctl \in Controller
  BY Parts DEF IInv, TypeOK
<1>1. /\ stops' = stops \ {q}
      /\ UNCHANGED <<valid, poll, rec, runs, calls, tcc, quiet, asked>>
  BY DEF FinishStop, listener, world, history
<1>2. /\ ctl' \in Controller
      /\ ctl'.source = ctl.source /\ ctl'.seen = ctl.seen /\ ctl'.permit = ctl.permit
      /\ ctl'.deadline = ctl.deadline
      /\ \/ ctl' = ctl
         \/ ctl.permit = q.permit /\ ~ctl'.automatic
  BY <1>0 DEF FinishStop, Controller
<1>3. RequestIsKnown'
  <2>1. SUFFICES ASSUME NEW t \in stops', t.permit = ctl.permit, ctl.permit \in valid
                 PROVE  ctl' = ctl
    BY <1>0, <1>1, <1>2 DEF ServiceOK, RequestIsKnown
  <2>2. \A r \in stops : r.permit = ctl.permit => r = t
    BY <1>0, <1>1, <2>1 DEF ServiceOK, RequestIsKnown
  <2>3. QED
    BY <1>1, <1>2, <2>1, <2>2
<1>4. PermitIsCurrent' /\ CountdownIsHonest' /\ ScanIsFresh' /\ RunsAreKnown'
  BY <1>0, <1>1, <1>2
     DEF IInv, PermitIsCurrent, CountdownIsHonest, ScanIsFresh, RunsAreKnown, Watching
<1>5. QED
  BY <1>0, <1>1, <1>2, <1>3, <1>4 DEF IInv, TypeOK

-----------------------------------------------------------------------------
(* ... and the listener, the desktop and the clock.                          *)
LEMMA ListenerKeeps ==
  ASSUME IInv, \/ \E n \in Notes : RecordingBegins(n)
               \/ PhaseChanges \/ RecordingEnds
  PROVE  IInv'
<1>0. TypeOK /\ ctl \in Controller /\ rec \in Recording
  BY DEF IInv, TypeOK
<1>1. UNCHANGED <<ctl, valid, stops, poll, calls, tcc, quiet, asked>>
  BY DEF RecordingBegins, PhaseChanges, RecordingEnds, service, world, history
<1>2. ASSUME NEW n \in Notes, RecordingBegins(n)
      PROVE  RunsAreKnown' /\ rec' \in Recording /\ runs' \in 0 .. MaxRuns
  <2>1. /\ runs < MaxRuns /\ runs' = runs + 1
        /\ rec' = [seen |-> [note |-> n, run |-> runs'], live |-> FALSE]
    BY <1>2 DEF RecordingBegins
  <2>2. /\ runs \in Nat /\ ctl.seen.run \in Nat /\ poll.seen.run \in Nat
        /\ ctl.seen.run <= runs /\ poll.seen.run <= runs
    BY <1>0, ControllerFields, ConstantFacts DEF IInv, RunsAreKnown, TypeOK, Poll
  <2>3. rec'.seen.run = runs + 1 /\ rec'.seen # ctl.seen
    BY <2>1, <2>2
  <2>4. QED
    BY <1>0, <1>1, <2>1, <2>2, <2>3, ConstantFacts
       DEF RunsAreKnown, Recording, Seen, TypeOK
<1>3. ASSUME PhaseChanges \/ RecordingEnds
      PROVE  RunsAreKnown' /\ rec' \in Recording /\ runs' = runs
  <2>1. CASE PhaseChanges
    BY <1>0, <1>1, <2>1 DEF PhaseChanges, Recording, IInv, RunsAreKnown
  <2>2. CASE RecordingEnds
    BY <1>0, <1>1, <2>2, ConstantFacts
       DEF RecordingEnds, IInv, RunsAreKnown, PermitIsCurrent, TypeOK
  <2>3. QED
    BY <1>3, <2>1, <2>2
<1>4. PermitIsCurrent' /\ RequestIsKnown' /\ CountdownIsHonest' /\ ScanIsFresh'
  BY <1>1 DEF IInv, PermitIsCurrent, RequestIsKnown, CountdownIsHonest, ScanIsFresh, Watching
<1>5. QED
  BY <1>0, <1>1, <1>2, <1>3, <1>4 DEF IInv, TypeOK

LEMMA WorldKeeps ==
  ASSUME IInv, \/ PermissionChanges
               \/ \E c \in Calls, p \in Presences : CallChanges(c, p)
               \/ UNCHANGED vars
  PROVE  IInv'
<1>1. UNCHANGED <<ctl, valid, stops, poll, rec, runs, quiet, asked>>
  BY DEF PermissionChanges, CallChanges, vars, service, listener, history
<1>2. calls' \in [Calls -> Presences] /\ tcc' \in BOOLEAN
  BY DEF PermissionChanges, CallChanges, vars, world, IInv, TypeOK
<1>3. QED
  BY <1>1, <1>2
     DEF IInv, TypeOK, PermitIsCurrent, RequestIsKnown, CountdownIsHonest,
         RunsAreKnown, ScanIsFresh, Watching

LEMMA ElapseKeeps ==
  ASSUME IInv, Elapse
  PROVE  IInv'
<1>0. TypeOK /\ ctl \in Controller /\ ctl.deadline \in 0 .. NoTime /\ quiet \in 0 .. NoTime
  BY ControllerFields DEF IInv, TypeOK
<1>1. /\ UNCHANGED <<valid, stops, poll, rec, runs, calls, tcc, asked>>
      /\ quiet' = IF quiet < Grace THEN quiet + 1 ELSE quiet
  BY DEF Elapse, listener, world
<1>2. /\ ctl' \in Controller
      /\ ctl'.source = ctl.source /\ ctl'.seen = ctl.seen /\ ctl'.permit = ctl.permit
      /\ ctl'.stopRequested = ctl.stopRequested /\ ctl'.automatic = ctl.automatic
      /\ ctl'.enabled = ctl.enabled /\ ctl'.granted = ctl.granted
      /\ ctl'.independent = ctl.independent
      /\ ctl'.deadline = IF ctl.deadline \in 1 .. Grace THEN ctl.deadline - 1
                                                        ELSE ctl.deadline
  <2>1. CASE ctl.deadline \in 1 .. Grace
    <3>1. ctl.deadline - 1 \in 0 .. NoTime
      BY <1>0, <2>1, ConstantFacts
    <3>2. QED
      BY <1>0, <2>1, <3>1 DEF Elapse, Controller
  <2>2. CASE ctl.deadline \notin 1 .. Grace
    BY <1>0, <2>2 DEF Elapse
  <2>3. QED
    BY <2>1, <2>2
<1>3. quiet' \in 0 .. NoTime /\ (quiet # NoTime => quiet' # NoTime)
  BY <1>0, <1>1, ConstantFacts
<1>4. CountdownIsHonest'
  <2>1. ctl'.deadline # NoTime => quiet' # NoTime /\ ctl'.deadline + quiet' >= Grace
    BY <1>0, <1>1, <1>2, <1>3, ConstantFacts DEF IInv, CountdownIsHonest
  <2>2. ctl'.automatic => Watching(ctl') /\ quiet' = Grace
    BY <1>0, <1>1, <1>2, ConstantFacts DEF IInv, CountdownIsHonest, Watching
  <2>3. QED
    BY <2>1, <2>2 DEF CountdownIsHonest
<1>5. PermitIsCurrent' /\ RequestIsKnown' /\ RunsAreKnown' /\ ScanIsFresh'
  BY <1>1, <1>2 DEF IInv, PermitIsCurrent, RequestIsKnown, RunsAreKnown, ScanIsFresh
<1>6. QED
  BY <1>0, <1>1, <1>2, <1>3, <1>4, <1>5 DEF IInv, TypeOK

-----------------------------------------------------------------------------
LEMMA InitIInv == Init => IInv
<1> SUFFICES ASSUME Init PROVE IInv
  OBVIOUS
<1>1. PICK on \in BOOLEAN, ok \in BOOLEAN, p \in Permits :
        /\ tcc = ok
        /\ ctl = [enabled |-> on, granted |-> on /\ ok, seen |-> NoSeen,
                  independent |-> FALSE, candidates |-> {}, source |-> NoCall,
                  deadline |-> NoTime, stopRequested |-> FALSE,
                  automatic |-> FALSE, permit |-> p]
  BY DEF Init
<1>2. ctl \in Controller
  <2>1. (on /\ ok) \in BOOLEAN
    OBVIOUS
  <2>2. QED
    BY <1>1, <2>1, ConstantFacts DEF Controller
<1>3. /\ ctl.source = NoCall /\ ctl.seen = NoSeen /\ ctl.deadline = NoTime
      /\ ~ctl.automatic
  BY <1>1
<1>4. TypeOK
  BY <1>1, <1>2, ConstantFacts DEF Init, TypeOK, Presences
<1>5. RunsAreKnown
  BY <1>3, ConstantFacts DEF Init, RunsAreKnown
<1>6. PermitIsCurrent /\ RequestIsKnown /\ CountdownIsHonest /\ ScanIsFresh
  BY <1>3, ConstantFacts
     DEF Init, PermitIsCurrent, RequestIsKnown, CountdownIsHonest, ScanIsFresh
<1>7. QED
  BY <1>4, <1>5, <1>6 DEF IInv

(* IInv is inductive: one lemma above for each kind of step.                 *)
THEOREM CallEndInvariance == Spec => []IInv
<1>1. ASSUME IInv, [Next]_vars PROVE IInv'
  <2>1. CASE Command
    BY <1>1, <2>1, SetEnabledKeeps, PermissionStepKeeps, UserStopKeeps, AssociateKeeps
       DEF Command
  <2>2. CASE Tick
    BY <1>1, <2>2, PermissionStepKeeps, ReadPipelineKeeps, SyncRecordingKeeps,
       ScanStepsKeep, ApplyKeeps DEF Tick
  <2>3. CASE \E q \in stops : HandleStop(q) \/ FinishStop(q)
    BY <1>1, <2>3, HandleStopKeeps, FinishStopKeeps
  <2>4. CASE Environment
    BY <1>1, <2>4, ListenerKeeps, WorldKeeps DEF Environment
  <2>5. CASE Elapse
    BY <1>1, <2>5, ElapseKeeps
  <2>6. CASE UNCHANGED vars
    BY <1>1, <2>6, WorldKeeps
  <2>7. QED
    BY <1>1, <2>1, <2>2, <2>3, <2>4, <2>5, <2>6 DEF Next
<1>2. QED
  BY InitIInv, <1>1, PTL DEF Spec

(* Every variable keeps its type; a countdown never runs below zero.         *)
THEOREM CallEndTyping == Spec => []TypeOK
<1>1. IInv => TypeOK
  BY DEF IInv
<1>2. QED
  BY CallEndInvariance, <1>1, PTL

(* A stop that would go through is the controller's own, for the recording   *)
(* in progress, to which a call was bound while it ran.                      *)
LEMMA EffectiveFacts ==
  ASSUME IInv, NEW q \in stops, Matches(q)
  PROVE  /\ q.permit = ctl.permit /\ ctl.permit \in valid
         /\ ctl.seen = rec.seen /\ q.auto = ctl.automatic
         /\ asked = rec.seen.run
         /\ \A r \in stops : r.permit = ctl.permit => r = q
<1>1. q.permit = ctl.permit /\ ctl.permit \in valid /\ rec.seen = q.seen
  BY DEF IInv, Matches, PermitIsCurrent
<1>2. /\ ctl.source # NoCall /\ q.seen = ctl.seen /\ q.auto = ctl.automatic
      /\ \A r \in stops : r.permit = ctl.permit => r = q
  BY <1>1 DEF IInv, RequestIsKnown
<1>3. QED
  BY <1>1, <1>2 DEF IInv, RunsAreKnown

(* The countdown stops a recording only when the feature is on, permission   *)
(* is given, the user bound a call to this very recording and all that was   *)
(* observed since a full grace period says that the call is over; whatever   *)
(* was queued for another recording, call or permission has lost its permit. *)
THEOREM CallEndIsJustified == Spec => []AutomaticStopIsJustified
<1>1. IInv => AutomaticStopIsJustified
  <2>1. SUFFICES ASSUME IInv, NEW q \in stops, q.auto, Effective(q)
                 PROVE  /\ Watching(ctl) /\ ctl.seen = rec.seen
                        /\ quiet = Grace /\ asked = rec.seen.run
    BY DEF AutomaticStopIsJustified
  <2>2. ctl.automatic /\ ctl.seen = rec.seen /\ asked = rec.seen.run
    BY <2>1, EffectiveFacts DEF Effective
  <2>3. QED
    BY <2>1, <2>2 DEF IInv, CountdownIsHonest
<1>2. QED
  BY CallEndInvariance, <1>1, PTL

(* However the countdown and the user interleave, one stop at most would go  *)
(* through.                                                                  *)
THEOREM CallEndStopsOnce == Spec => []StopsOnce
<1>1. IInv => StopsOnce
  <2> SUFFICES ASSUME IInv PROVE StopsOnce
    OBVIOUS
  <2> DEFINE S == {q \in stops : Effective(q)}
  <2>1. \A q, r \in S : q = r
    BY EffectiveFacts DEF Effective
  <2>2. CASE S = {}
    BY <2>2, FS_EmptySet DEF StopsOnce
  <2>3. CASE S # {}
    <3>1. PICK q \in S : S = {q}
      BY <2>1, <2>3
    <3>2. Cardinality(S) = 1
      BY <3>1, FS_Singleton
    <3>3. QED
      BY <3>2 DEF StopsOnce
  <2>4. QED
    BY <2>2, <2>3
<1>2. QED
  BY CallEndInvariance, <1>1, PTL

(* A scan is applied only to the call it was made for.                       *)
THEOREM CallEndScansBoundCall == Spec => []ScanIsOfBoundCall
<1>1. IInv => ScanIsOfBoundCall
  BY DEF IInv, ScanIsFresh, ScanIsOfBoundCall, Outdated
<1>2. QED
  BY CallEndInvariance, <1>1, PTL

(* No stop task ends a recording but the one for which the user bound a call *)
(* while it was running.                                                     *)
THEOREM CallEndStopsItsRecording == Spec => StopsOnlyItsRecording
<1>1. ASSUME IInv, [Next]_vars
      PROVE  [\A q \in stops : HandleStop(q) /\ rec' # rec => asked = rec.seen.run]_vars
  <2>1. SUFFICES ASSUME NEW q \in stops, HandleStop(q), rec' # rec
                 PROVE  asked = rec.seen.run
    OBVIOUS
  <2>2. Matches(q)
    BY <2>1 DEF HandleStop
  <2>3. QED
    BY <1>1, <2>2, EffectiveFacts
<1>2. QED
  BY CallEndInvariance, <1>1, PTL DEF Spec, StopsOnlyItsRecording
-----------------------------------------------------------------------------
(* Whatever the contract of the listener allows it to do, beside any state   *)
(* of the service, the poll and the stop tasks, is among the steps of the    *)
(* listener here: what is shown of stops holds beside every such listener.   *)
THEOREM CallEndCoversListener ==
  ASSUME TypeOK, NothingBetween, ListenerMoves, runs < MaxRuns
  PROVE  (\E n \in Notes : RecordingBegins(n)) \/ PhaseChanges \/ RecordingEnds
<1> USE CallEndAssumption DEF ListenerMoves
<1>1. /\ rec' = [seen |-> rec'.seen, live |-> rec'.live]
      /\ rec'.seen = [note |-> rec'.seen.note, run |-> rec'.seen.run]
  BY DEF Recording, Seen
<1>2. ASSUME NEW n \in Notes, Listener!Begins(n) PROVE RecordingBegins(n)
  BY <1>1, <1>2 DEF Listener!Begins, RecordingBegins, NothingBetween
<1>3. ASSUME Listener!PhaseChanges PROVE PhaseChanges
  BY <1>1, <1>3
     DEF Listener!PhaseChanges, PhaseChanges, TypeOK, Recording, Seen,
         NoRecording, NoSeen
<1>4. ASSUME Listener!Ends PROVE RecordingEnds
  BY <1>1, <1>4 DEF Listener!Ends, RecordingEnds, NoRecording, NoSeen
<1>5. QED
  BY <1>2, <1>3, <1>4 DEF Listener!Next

(* The listener here, stopped by tasks or by itself, does nothing else: it   *)
(* keeps the contract that the recording session implements.                 *)
LEMMA ListenerStep ==
  ASSUME TypeOK, NothingBetween, [Next]_vars
  PROVE  NothingBetween' /\ [Listener!Next]_(Listener!vars)
<1> USE CallEndAssumption DEF NothingBetween, Listener!Next, Listener!vars
<1>1. ASSUME UNCHANGED rec PROVE NothingBetween' /\ UNCHANGED Listener!vars
  BY <1>1
<1>2. ASSUME rec # NoRecording, rec' = NoRecording
      PROVE  NothingBetween' /\ Listener!Ends
  BY <1>2 DEF Listener!Ends, NoRecording, NoSeen
<1>3. ASSUME NEW n \in Notes, RecordingBegins(n)
      PROVE  NothingBetween' /\ Listener!Begins(n)
  BY <1>3 DEF RecordingBegins, NoRecording, NoSeen, Listener!Begins
<1>4. ASSUME PhaseChanges PROVE NothingBetween' /\ Listener!PhaseChanges
  BY <1>4 DEF PhaseChanges, Listener!PhaseChanges, TypeOK, Recording
<1>5. ASSUME Command PROVE UNCHANGED rec
  BY <1>5
     DEF Command, SetEnabled, PollStatus, UserStop, Associate, listener
<1>6. ASSUME Tick PROVE UNCHANGED rec
  <2>1. ASSUME ScanCalls \/ ScanFails PROVE UNCHANGED listener
    BY <2>1 DEF ScanCalls, ScanFails, Scanned
  <2>2. ASSUME Apply PROVE UNCHANGED listener
    BY <2>2 DEF Apply
  <2>3. ASSUME TickBegins \/ ReadPipeline \/ SyncRecording \/ TakeSnapshot
        PROVE  UNCHANGED listener
    BY <2>3 DEF TickBegins, ReadPipeline, SyncRecording, TakeSnapshot
  <2>4. QED
    BY <1>6, <2>1, <2>2, <2>3 DEF Tick, listener
<1>7. ASSUME NEW q \in stops, HandleStop(q) \/ FinishStop(q)
      PROVE  UNCHANGED rec \/ (rec # NoRecording /\ rec' = NoRecording)
  BY <1>7 DEF HandleStop, FinishStop, listener
<1>8. ASSUME Elapse \/ UNCHANGED vars PROVE UNCHANGED rec
  BY <1>8 DEF Elapse, listener, vars
<1>9. ASSUME Environment
      PROVE  \/ UNCHANGED rec
             \/ \E n \in Notes : RecordingBegins(n)
             \/ PhaseChanges
             \/ rec # NoRecording /\ rec' = NoRecording
  BY <1>9 DEF Environment, RecordingEnds, PermissionChanges, CallChanges, listener
<1>10. QED
  BY <1>1, <1>2, <1>3, <1>4, <1>5, <1>6, <1>7, <1>8, <1>9 DEF Next

(* Over all interleavings, what the service and its stop tasks see of the    *)
(* listener is a behaviour of the contract of its status, set_pipeline_phase *)
(* and stop_session_if_matching included.                                    *)
THEOREM CallEndKeepsListener == Spec => Listener!Spec
<1>1. Init => NothingBetween /\ Listener!Init
  BY DEF Init, NothingBetween, NoRecording, NoSeen, Listener!Init
<1>2. TypeOK /\ NothingBetween /\ [Next]_vars
        => NothingBetween' /\ [Listener!Next]_(Listener!vars)
  BY ListenerStep
<1>3. QED
  BY <1>1, <1>2, CallEndTyping, PTL DEF Spec, Listener!Spec
=============================================================================
