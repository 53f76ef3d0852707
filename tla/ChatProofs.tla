----------------------------- MODULE ChatProofs -----------------------------
(* Proofs about the chat beside a note, for any set of chats and any number  *)
(* of submissions, failures and refetches.  The inductive invariant is IInv  *)
(* of Chat; what a commit of the panel may do to the store, the selection    *)
(* and the caches is stated once, in CommitFacts.                            *)
EXTENDS Chat, TLAPS

LEMMA SetFacts ==
  /\ NoGroup \notin Groups
  /\ NoOp \notin Ops
  /\ Ops \subseteq Groups /\ Past \subseteq Groups
  /\ NotLoaded \in Caches(Groups) /\ NotLoaded \in Caches(Messages)
  /\ Idle \in Fetches(Groups) /\ Idle \in Fetches(Messages)
  /\ Asked \in Fetches(Groups) /\ Asked \in Fetches(Messages)
  /\ \A i \in Ops, r \in {"user", "answer", "failure"} : <<i, r>> \in Messages
  /\ NotLoaded.has = {} /\ Idle.got = NotLoaded /\ Asked.got = NotLoaded
  /\ ~NotLoaded.loaded /\ Idle.st = "idle" /\ Asked.st = "asked"
BY BoundsAssumption
   DEF Groups, Ops, NoOp, NotLoaded, Idle, Asked, Caches, Fetches, Messages

(* What a step may do to the panel when the messages, the selection, the     *)
(* pending new chat, the list and the messages cached are set to what it is  *)
(* told: the effect replaces a selection only if it is missing from the list *)
(* and no new chat is pending, and the messages shown are the panel's own or *)
(* those of the cache.                                                       *)
Effect(base, cur, new, list, cached) ==
  /\ newChat' = new /\ listed' = list
  /\ previous' \in BOOLEAN
  /\ current' = cur \/ current' \in list.has \cup {NoGroup}
  /\ new \/ (cur # NoGroup /\ (list.loaded => cur \in list.has)) => current' = cur
  /\ data' \in {cached, NotLoaded}
  /\ loading' \in {Idle, loading, Asked}
  /\ shown' \subseteq base \cup data'.has
  /\ current' = NoGroup => shown' = base

LEMMA CommitFacts ==
  ASSUME TypeOK,
         NEW base \in SUBSET Messages, NEW gen \in BOOLEAN,
         NEW cur \in Groups \cup {NoGroup}, NEW new \in BOOLEAN,
         NEW list \in Caches(Groups), NEW cached,
         Commit(base, gen, cur, new, list, cached)
  PROVE  generating' = gen /\ Effect(base, cur, new, list, cached)
<1>1. generating' = gen /\ newChat' = new /\ listed' = list /\ previous' \in BOOLEAN
  BY DEF Commit, TypeOK
<1>2. PICK c \in (IF mounted THEN Selections(cur, new, list) ELSE {cur}) :
        LET d == IF c = current THEN cached ELSE NotLoaded
        IN /\ current' = c
           /\ data' = d
           /\ loading' = CASE c = current -> IF data # cached THEN Idle ELSE loading
                           [] c # current /\ mounted /\ c # NoGroup -> Asked
                           [] OTHER -> Idle
           /\ shown' = IF mounted THEN Synced(base, gen, c, d, list) ELSE base
  BY DEF Commit
<1>3. /\ c = cur \/ c \in list.has \cup {NoGroup}
      /\ new \/ (cur # NoGroup /\ (list.loaded => cur \in list.has)) => c = cur
  BY <1>2 DEF Selections
<1>4. loading' \in {Idle, loading, Asked}
  BY <1>2
<1>5. data' \in {cached, NotLoaded}
  BY <1>2
<1>6. /\ shown' \subseteq base \cup data'.has
      /\ current' = NoGroup => shown' = base
  <2>1. ASSUME NEW d
        PROVE  /\ Synced(base, gen, c, d, list) \subseteq base \cup d.has
               /\ c \notin list.has => Synced(base, gen, c, d, list) = base
    BY DEF Synced
  <2>2. c = NoGroup => c \notin list.has
    BY SetFacts DEF Caches
  <2>3. QED
    BY <1>2, <2>1, <2>2
<1>7. QED
  BY <1>1, <1>2, <1>3, <1>4, <1>5, <1>6 DEF Effect

(* The panel keeps its types over an effect. *)
LEMMA EffectTypes ==
  ASSUME TypeOK,
         NEW base \in SUBSET Messages, NEW cur \in Groups \cup {NoGroup},
         NEW new \in BOOLEAN, NEW list \in Caches(Groups),
         NEW cached \in Caches(Messages),
         Effect(base, cur, new, list, cached)
  PROVE  /\ newChat' \in BOOLEAN /\ previous' \in BOOLEAN
         /\ current' \in Groups \cup {NoGroup}
         /\ listed' \in Caches(Groups) /\ data' \in Caches(Messages)
         /\ loading' \in Fetches(Messages)
         /\ shown' \subseteq Messages
<1>1. list.has \subseteq Groups
  BY DEF Caches
<1>2. data' \in Caches(Messages)
  BY SetFacts DEF Effect
<1>3. data'.has \subseteq Messages
  BY <1>2 DEF Caches
<1>4. loading' \in Fetches(Messages)
  BY SetFacts DEF Effect, TypeOK
<1>5. QED
  BY <1>1, <1>2, <1>3, <1>4 DEF Effect

-----------------------------------------------------------------------------
(* One step of a submission, other than the creation of its chat.  It shows  *)
(* base, stores what its place allows, and when it is over gives back the    *)
(* claim and the flag.                                                       *)
Asking == {"context", "stream", "answer", "report"}

Advances(i, base) ==
  /\ Effect(base, current, newChat, listed, data)
  /\ base \subseteq shown \cup {<<i, "user">>, <<i, "answer">>, <<i, "failure">>}
  /\ i \in aborted => base = shown
  /\ i \in Running
  /\ op' = [op EXCEPT ![i].pc = op'[i].pc]
  /\ op'[i].pc \in Stages \ {"new"}
  /\ op[i].pc \in {"begin", "create"} /\ op[i].group = NoGroup
       => base = shown /\ op'[i].pc \in {"create", "done"}
  /\ op'[i].pc \in Asking => op[i].pc \in Asking \/ <<i, "user">> \in saved'
  /\ IF op'[i].pc = "done"
     THEN /\ active' = IF active = i THEN NoOp ELSE active
          /\ generating' = (generating /\ active # i)
     ELSE UNCHANGED <<active, generating>>
  /\ \/ saved' = saved
     \/ saved' = saved \cup {<<i, "user">>} /\ op[i].pc = "question"
     \/ saved' = saved \cup {<<i, "answer">>} /\ op[i].pc = "answer"
     \/ saved' = saved \cup {<<i, "failure">>} /\ op[i].pc = "report"
  /\ UNCHANGED <<groups, aborted, mounted, request, listing>>
  /\ events' \in {events, events + 1} /\ (events' # events => events < MaxEvents)
  /\ faults' \in BOOLEAN

(* Keeping the panel as it is, is an effect. *)
LEMMA FinishFacts ==
  ASSUME TypeOK, NEW i \in Ops, NEW base \in SUBSET Messages, Finish(i, base)
  PROVE  /\ Effect(base, current, newChat, listed, data)
         /\ op' = [op EXCEPT ![i].pc = "done"]
         /\ active' = IF active = i THEN NoOp ELSE active
         /\ generating' = (generating /\ active # i)
         /\ UNCHANGED <<aborted, mounted, request, listing>>
<1>1. CASE active = i /\ generating
  <2>1. Commit(base, FALSE, current, newChat, listed, data)
    BY <1>1 DEF Finish
  <2>2. generating' = FALSE /\ Effect(base, current, newChat, listed, data)
    BY <2>1, CommitFacts DEF TypeOK
  <2>3. QED
    BY <1>1, <2>2 DEF Finish, Goto
<1>2. CASE ~(active = i /\ generating)
  BY <1>2 DEF Finish, Goto, Effect, TypeOK
<1>3. QED
  BY <1>1, <1>2

LEMMA ProceedFacts ==
  ASSUME TypeOK, NEW i \in Ops, NEW pc, NEW base, Proceed(i, pc, base)
  PROVE  /\ Effect(base, current, newChat, listed, data)
         /\ op' = [op EXCEPT ![i].pc = pc]
         /\ UNCHANGED <<active, generating, aborted, mounted, request, listing>>
BY DEF Proceed, Goto, Effect, TypeOK, panel, fetches
(* Every step of a submission advances it. *)
LEMMA StepAdvances ==
  ASSUME TypeOK, QuestionsAreSaved, NEW i \in Ops,
         Step(i) \/ Chunk(i), ~Created(i)
  PROVE  \E base \in SUBSET Messages : Advances(i, base)
<1>0. /\ shown \in SUBSET Messages
      /\ {<<i, "user">>, <<i, "answer">>, <<i, "failure">>} \subseteq Messages
      /\ op[i].pc \in Stages /\ events \in Nat /\ faults \in BOOLEAN
      /\ op \in [Ops -> [pc : Stages, group : Groups \cup {NoGroup}]]
  BY SetFacts, BoundsAssumption DEF TypeOK
<1>a. ASSUME NEW pc \in Stages
      PROVE  /\ [op EXCEPT ![i].pc = pc][i].pc = pc
             /\ [op EXCEPT ![i].pc = pc] = [op EXCEPT ![i].pc = [op EXCEPT ![i].pc = pc][i].pc]
  BY <1>0
<1>b. ASSUME NEW base \in SUBSET Messages, Finish(i, base)
      PROVE  /\ Effect(base, current, newChat, listed, data)
             /\ op'[i].pc = "done"
             /\ op' = [op EXCEPT ![i].pc = op'[i].pc]
             /\ active' = IF active = i THEN NoOp ELSE active
             /\ generating' = (generating /\ active # i)
             /\ UNCHANGED <<aborted, mounted, request, listing>>
  BY <1>a, <1>b, FinishFacts DEF Stages
<1>c. ASSUME NEW pc \in Stages, NEW base \in SUBSET Messages, Proceed(i, pc, base)
      PROVE  /\ Effect(base, current, newChat, listed, data)
             /\ op'[i].pc = pc
             /\ op' = [op EXCEPT ![i].pc = op'[i].pc]
             /\ UNCHANGED <<active, generating, aborted, mounted, request, listing>>
  <2>1. /\ Effect(base, current, newChat, listed, data)
        /\ op' = [op EXCEPT ![i].pc = pc]
        /\ UNCHANGED <<active, generating, aborted, mounted, request, listing>>
    BY <1>c, ProceedFacts
  <2>2. op'[i].pc = pc
    BY <1>a, <2>1
  <2>3. QED
    BY <2>1, <2>2
<1> USE DEF Advances, Running, Asking, At, Stages, database, used
<1>1. CASE Preflight(i)
  <2>1. CASE i \in aborted
    BY <1>0, <1>1, <1>b, <2>1 DEF Preflight, Leave
  <2>2. CASE i \notin aborted /\ op[i].group = NoGroup
    BY <1>0, <1>1, <1>c, <2>2 DEF Preflight
  <2>3. CASE i \notin aborted /\ op[i].group # NoGroup
    <3> DEFINE base == shown \cup {<<i, "user">>}
    <3>1. base \in SUBSET Messages /\ Proceed(i, "question", base)
      BY <1>0, <1>1, <2>3 DEF Preflight
    <3>2. Advances(i, base)
      BY <1>0, <1>1, <1>c, <2>3, <3>1 DEF Preflight
    <3>3. QED
      BY <3>1, <3>2
  <2>4. QED
    BY <2>1, <2>2, <2>3
<1>2. CASE FailEarly(i)
  BY <1>0, <1>2, <1>b DEF FailEarly, Fails, Event
<1>3. CASE QuestionSaved(i)
  <2>1. CASE i \in aborted
    BY <1>0, <1>3, <1>b, <2>1 DEF QuestionSaved
  <2>2. CASE i \notin aborted
    BY <1>0, <1>3, <1>c, <2>2 DEF QuestionSaved
  <2>3. QED
    BY <2>1, <2>2
<1>4. CASE Context(i)
  <2>1. CASE i \in aborted
    BY <1>0, <1>4, <1>b, <2>1 DEF Context, Leave
  <2>2. CASE i \notin aborted
    BY <1>0, <1>4, <1>c, <2>2 DEF Context
  <2>3. QED
    BY <2>1, <2>2
<1>5. CASE Chunk(i) \/ Answered(i)
  <2> DEFINE base == shown \cup {<<i, "answer">>}
  <2>1. /\ base \in SUBSET Messages
        /\ Proceed(i, "stream", base) \/ Proceed(i, "answer", base)
        /\ op[i].pc = "stream" /\ i \notin aborted
        /\ UNCHANGED <<groups, saved, events, faults>>
    BY <1>0, <1>5 DEF Chunk, Answered
  <2>2. Advances(i, base)
    BY <1>0, <1>c, <2>1
  <2>3. QED
    BY <2>1, <2>2
<1>6. CASE Stopped(i)
  BY <1>0, <1>6, <1>b DEF Stopped, Leave
<1>7. CASE StreamFails(i)
  <2>1. PICK old \in {shown, shown \ {<<i, "answer">>}} : Tell(i, old)
    BY <1>7 DEF StreamFails
  <2> DEFINE base == old \cup {<<i, "failure">>}
  <2>2. base \in SUBSET Messages /\ Proceed(i, "report", base)
    BY <1>0, <2>1 DEF Tell
  <2>3. Advances(i, base)
    BY <1>0, <1>7, <1>c, <2>2 DEF StreamFails
  <2>4. QED
    BY <2>2, <2>3
<1>8. CASE AnswerSaved(i)
  BY <1>0, <1>8, <1>b DEF AnswerSaved
<1>9. CASE AnswerLost(i)
  <2>1. CASE i \in aborted
    BY <1>0, <1>9, <1>b, <2>1 DEF AnswerLost, Fails, Event
  <2>2. CASE i \notin aborted
    <3> DEFINE base == shown \cup {<<i, "failure">>}
    <3>1. base \in SUBSET Messages /\ Proceed(i, "report", base)
      BY <1>0, <1>9, <2>2 DEF AnswerLost, Tell
    <3>2. Advances(i, base)
      BY <1>0, <1>9, <1>c, <2>2, <3>1 DEF AnswerLost, Fails, Event
    <3>3. QED
      BY <3>1, <3>2
  <2>3. QED
    BY <2>1, <2>2
<1>10. CASE ReportSaved(i)
  BY <1>0, <1>10, <1>b DEF ReportSaved, Fails, Event
<1>11. QED
  BY <1>1, <1>2, <1>3, <1>4, <1>5, <1>6, <1>7, <1>8, <1>9, <1>10 DEF Step

-----------------------------------------------------------------------------
(* The other steps.  A new chat, created or asked for, and the commits that  *)
(* the queries cause are effects with arguments of their own.                *)
LEMMA CreatedFacts ==
  ASSUME TypeOK, SelectionIsListed, NEW i \in Ops, Created(i)
  PROVE  \/ /\ i \in aborted
            /\ Effect(shown, current, newChat, listed, data)
            /\ op' = [op EXCEPT ![i].pc = "done"]
            /\ active' = IF active = i THEN NoOp ELSE active
            /\ generating' = (generating /\ active # i)
            /\ listing' = listing
         \/ /\ i \notin aborted
            /\ Effect(shown \cup {<<i, "user">>}, i, FALSE, WithGroup(i), data)
            /\ op' = [op EXCEPT ![i] = [pc |-> "question", group |-> i]]
            /\ active' = active /\ generating' = generating
            /\ listing' \in {Asked, Idle}
            /\ WithGroup(i) \in Caches(Groups)
            /\ current' = i /\ ~newChat'
<1>1. CASE i \in aborted
  BY <1>1, FinishFacts DEF Created, TypeOK
<1>2. CASE i \notin aborted
  <2>1. WithGroup(i) \in Caches(Groups) /\ (WithGroup(i).loaded => i \in WithGroup(i).has)
    BY SetFacts DEF WithGroup, TypeOK, Loaded, Caches
  <2>2. i \in Groups /\ i # NoGroup /\ shown \cup {<<i, "user">>} \in SUBSET Messages
    BY SetFacts DEF TypeOK
  <2>3. Commit(shown \cup {<<i, "user">>}, generating, i, FALSE, WithGroup(i), data)
    BY <1>2 DEF Created
  <2>4. /\ generating' = generating
        /\ Effect(shown \cup {<<i, "user">>}, i, FALSE, WithGroup(i), data)
    BY <2>1, <2>2, <2>3, CommitFacts DEF TypeOK
  <2>5. current' = i /\ ~newChat'
    BY <2>1, <2>2, <2>4 DEF Effect
  <2>6. QED
    BY <1>2, <2>1, <2>4, <2>5 DEF Created, Relist
<1>3. QED
  BY <1>1, <1>2

LEMMA SubmitFacts ==
  ASSUME TypeOK, NEW i \in Ops, Submit(i)
  PROVE  /\ Effect(shown, current, newChat, listed, data)
         /\ generating' = TRUE
         /\ op' = [op EXCEPT ![i] =
                     [pc |-> "begin", group |-> IF newChat THEN NoGroup ELSE current]]
         /\ op[i].pc = "new" /\ active = NoOp /\ active' = i
         /\ UNCHANGED <<aborted, groups, saved, mounted, request, listing, events, faults>>
BY CommitFacts DEF Submit, TypeOK, At, database, used

LEMMA PanelFacts ==
  ASSUME TypeOK
  PROVE  /\ NewChat => /\ Effect({}, NoGroup, TRUE, listed, data)
                       /\ generating' = FALSE
         /\ \A g \in Groups : Select(g) =>
              /\ Effect(shown, g, newChat, listed, data)
              /\ generating' = generating
              /\ g \in listed.has
         /\ ListArrives => /\ generating' = generating
                           /\ Effect(shown, current, newChat, listing.got, data)
         /\ MessagesArrive =>
              /\ generating' = generating
              /\ \/ Effect(shown, current, newChat, listed, loading.got)
                 \/ /\ loading' = Idle
                    /\ UNCHANGED <<newChat, listed, previous, current, data, shown>>
<1>1. /\ shown \in SUBSET Messages /\ {} \in SUBSET Messages
      /\ generating \in BOOLEAN /\ FALSE \in BOOLEAN /\ TRUE \in BOOLEAN
      /\ newChat \in BOOLEAN
      /\ current \in Groups \cup {NoGroup} /\ NoGroup \in Groups \cup {NoGroup}
      /\ listed \in Caches(Groups) /\ listing.got \in Caches(Groups)
  BY DEF TypeOK, Fetches
<1>2. ASSUME NewChat
      PROVE  Effect({}, NoGroup, TRUE, listed, data) /\ generating' = FALSE
  BY <1>1, <1>2, CommitFacts DEF NewChat
<1>3. ASSUME NEW g \in Groups, Select(g)
      PROVE  /\ Effect(shown, g, newChat, listed, data)
             /\ generating' = generating /\ g \in listed.has
  BY <1>1, <1>3, CommitFacts DEF Select
<1>4. ASSUME ListArrives
      PROVE  /\ generating' = generating
             /\ Effect(shown, current, newChat, listing.got, data)
  <2>1. CASE listing.got = listed
    BY <1>1, <1>4, <2>1 DEF ListArrives, Effect, panel, store, TypeOK
  <2>2. CASE listing.got # listed
    BY <1>1, <1>4, <2>2, CommitFacts DEF ListArrives
  <2>3. QED
    BY <2>1, <2>2
<1>5. ASSUME MessagesArrive
      PROVE  /\ generating' = generating
             /\ \/ Effect(shown, current, newChat, listed, loading.got)
                \/ /\ loading' = Idle
                   /\ UNCHANGED <<newChat, listed, previous, current, data, shown>>
  <2>1. CASE loading.got = data
    BY <1>5, <2>1 DEF MessagesArrive, panel, store
  <2>2. CASE loading.got # data
    BY <1>1, <1>5, <2>2, CommitFacts DEF MessagesArrive
  <2>3. QED
    BY <2>1, <2>2
<1>6. QED
  BY <1>2, <1>3, <1>4, <1>5
(* A step of the specification, as the lemmas below take it. *)
LEMMA NextCases ==
  ASSUME IInv, [Next]_vars
  PROVE  \/ \E i \in Ops : Submit(i)
         \/ \E i \in Ops : \E base \in SUBSET Messages : Advances(i, base)
         \/ \E i \in Ops : Created(i)
         \/ \E g \in Groups : Select(g)
         \/ Stop \/ NewChat \/ Close \/ Open \/ Focus
         \/ ReadList \/ ReadMessages \/ ListArrives \/ MessagesArrive
         \/ UNCHANGED vars
<1>1. ASSUME NEW i \in Ops, Step(i) \/ Chunk(i)
      PROVE  Created(i) \/ \E base \in SUBSET Messages : Advances(i, base)
  BY <1>1, StepAdvances DEF IInv
<1>2. QED
  BY <1>1 DEF Next, Queries

LEMMA TypeKept ==
  ASSUME IInv, [Next]_vars
  PROVE  TypeOK'
<1> TypeOK /\ SelectionIsListed
  BY DEF IInv
<1>0. /\ shown \in SUBSET Messages /\ {} \in SUBSET Messages
      /\ newChat \in BOOLEAN
      /\ current \in Groups \cup {NoGroup} /\ NoGroup \in Groups \cup {NoGroup}
      /\ listed \in Caches(Groups) /\ listing.got \in Caches(Groups)
      /\ data \in Caches(Messages) /\ loading.got \in Caches(Messages)
  BY DEF TypeOK, Fetches
<1>1. ASSUME NEW i \in Ops, Submit(i) PROVE TypeOK'
  <2>1. /\ newChat' \in BOOLEAN /\ previous' \in BOOLEAN
        /\ current' \in Groups \cup {NoGroup}
        /\ listed' \in Caches(Groups) /\ data' \in Caches(Messages)
        /\ loading' \in Fetches(Messages) /\ shown' \subseteq Messages
    BY <1>0, <1>1, SubmitFacts, EffectTypes
  <2>2. op' \in [Ops -> [pc : Stages, group : Groups \cup {NoGroup}]]
    <3> DEFINE g == IF newChat THEN NoGroup ELSE current
    <3>1. g \in Groups \cup {NoGroup} /\ "begin" \in Stages
      BY <1>0 DEF Stages
    <3>2. [pc |-> "begin", group |-> g] \in [pc : Stages, group : Groups \cup {NoGroup}]
      BY <3>1
    <3>3. /\ op' = [op EXCEPT ![i] = [pc |-> "begin", group |-> g]]
          /\ op \in [Ops -> [pc : Stages, group : Groups \cup {NoGroup}]]
      BY <1>1, SubmitFacts DEF TypeOK
    <3> HIDE DEF g
    <3>4. QED
      BY <3>2, <3>3
  <2>3. QED
    BY <1>1, <2>1, <2>2, SubmitFacts DEF TypeOK
<1>2. ASSUME NEW i \in Ops, NEW base \in SUBSET Messages, Advances(i, base) PROVE TypeOK'
  <2>1. /\ newChat' \in BOOLEAN /\ previous' \in BOOLEAN
        /\ current' \in Groups \cup {NoGroup}
        /\ listed' \in Caches(Groups) /\ data' \in Caches(Messages)
        /\ loading' \in Fetches(Messages) /\ shown' \subseteq Messages
    BY <1>0, <1>2, EffectTypes DEF Advances
  <2>2. op' \in [Ops -> [pc : Stages, group : Groups \cup {NoGroup}]]
    BY <1>2 DEF Advances, TypeOK
  <2>3. active' \in Ops \cup {NoOp} /\ generating' \in BOOLEAN
    BY <1>2 DEF Advances, TypeOK
  <2>4. saved' \subseteq Messages
    <3>1. /\ <<i, "user">> \in Messages /\ <<i, "answer">> \in Messages
          /\ <<i, "failure">> \in Messages /\ saved \subseteq Messages
      BY SetFacts DEF TypeOK
    <3>2. \/ saved' = saved \/ saved' = saved \cup {<<i, "user">>}
          \/ saved' = saved \cup {<<i, "answer">>}
          \/ saved' = saved \cup {<<i, "failure">>}
      BY <1>2 DEF Advances
    <3>3. QED
      BY <3>1, <3>2
  <2>5. events' \in 0 .. MaxEvents /\ faults' \in BOOLEAN
    BY <1>2, BoundsAssumption DEF Advances, TypeOK
  <2>6. UNCHANGED <<groups, aborted, mounted, request, listing>>
    BY <1>2 DEF Advances
  <2>7. QED
    BY <2>1, <2>2, <2>3, <2>4, <2>5, <2>6 DEF TypeOK
<1>3. ASSUME NEW i \in Ops, Created(i) PROVE TypeOK'
  <2>1. /\ newChat' \in BOOLEAN /\ previous' \in BOOLEAN
        /\ current' \in Groups \cup {NoGroup}
        /\ listed' \in Caches(Groups) /\ data' \in Caches(Messages)
        /\ loading' \in Fetches(Messages) /\ shown' \subseteq Messages
    <3>1. CASE i \in aborted
      <4>1. Effect(shown, current, newChat, listed, data)
        BY <1>3, <3>1, CreatedFacts
      <4>2. QED
        BY <1>0, <4>1, EffectTypes
    <3>2. CASE i \notin aborted
      <4>1. /\ shown \cup {<<i, "user">>} \in SUBSET Messages
            /\ i \in Groups \cup {NoGroup} /\ FALSE \in BOOLEAN
            /\ WithGroup(i) \in Caches(Groups)
            /\ Effect(shown \cup {<<i, "user">>}, i, FALSE, WithGroup(i), data)
        BY <1>0, <1>3, <3>2, CreatedFacts, SetFacts
      <4>2. QED
        BY <1>0, <4>1, EffectTypes
    <3>3. QED
      BY <3>1, <3>2
  <2>2. op' \in [Ops -> [pc : Stages, group : Groups \cup {NoGroup}]]
    <3>1. \/ op' = [op EXCEPT ![i].pc = "done"]
          \/ op' = [op EXCEPT ![i] = [pc |-> "question", group |-> i]]
      BY <1>3, CreatedFacts
    <3>2. /\ "done" \in Stages
          /\ [pc |-> "question", group |-> i] \in [pc : Stages, group : Groups \cup {NoGroup}]
      BY SetFacts DEF Stages
    <3>3. op \in [Ops -> [pc : Stages, group : Groups \cup {NoGroup}]]
      BY DEF TypeOK
    <3>4. QED
      BY <3>1, <3>2, <3>3
  <2>3. active' \in Ops \cup {NoOp} /\ generating' \in BOOLEAN
    BY <1>3, CreatedFacts DEF TypeOK
  <2>4. listing' \in Fetches(Groups)
    BY <1>3, CreatedFacts, SetFacts DEF TypeOK
  <2>5. groups' \subseteq Groups
    BY <1>3, SetFacts DEF Created, TypeOK
  <2>6. UNCHANGED <<saved, aborted, mounted, request, events, faults>>
    BY <1>3 DEF Created, Finish, used
  <2>7. QED
    BY <2>1, <2>2, <2>3, <2>4, <2>5, <2>6 DEF TypeOK
<1>4. ASSUME NEW g \in Groups, Select(g) PROVE TypeOK'
  <2>1. /\ Effect(shown, g, newChat, listed, data) /\ generating' = generating
        /\ g \in Groups \cup {NoGroup}
    BY <1>4, PanelFacts
  <2>2. QED
    BY <1>0, <1>4, <2>1, EffectTypes, BoundsAssumption
       DEF Select, Moves, Event, work, database, TypeOK
<1>5. ASSUME NewChat PROVE TypeOK'
  <2>1. Effect({}, NoGroup, TRUE, listed, data) /\ generating' = FALSE
    BY <1>5, PanelFacts
  <2>2. /\ newChat' \in BOOLEAN /\ previous' \in BOOLEAN
        /\ current' \in Groups \cup {NoGroup}
        /\ listed' \in Caches(Groups) /\ data' \in Caches(Messages)
        /\ loading' \in Fetches(Messages) /\ shown' \subseteq Messages
    <3>1. TRUE \in BOOLEAN
      OBVIOUS
    <3>2. QED
      BY <1>0, <2>1, <3>1, EffectTypes
  <2>3. aborted' \subseteq Ops /\ request' \in BOOLEAN
    BY <1>5 DEF NewChat, Abort, TypeOK
  <2>4. events' \in 0 .. MaxEvents /\ faults' \in BOOLEAN
    BY <1>5, BoundsAssumption DEF NewChat, Moves, Event, TypeOK
  <2>5. UNCHANGED <<op, active, groups, saved, mounted, listing>>
    BY <1>5 DEF NewChat, database
  <2>6. QED
    BY <2>1, <2>2, <2>3, <2>4, <2>5 DEF TypeOK
<1>6. ASSUME Stop PROVE TypeOK'
  BY <1>6 DEF Stop, Abort, TypeOK, store, database, panel, fetches, used
<1>7. ASSUME Close PROVE TypeOK'
  BY <1>7, SetFacts DEF Close, TypeOK, work, store, database, used
<1>8. ASSUME Open PROVE TypeOK'
  <2>1. CASE request
    BY <1>0, <1>8, <2>1, SetFacts DEF Open, Abort, TypeOK, database, used
  <2>2. CASE ~request
    BY <1>8, <2>2, SetFacts DEF Open, TypeOK, store, database, used
  <2>3. QED
    BY <2>1, <2>2
<1>9. ASSUME Focus PROVE TypeOK'
  BY <1>9, SetFacts, BoundsAssumption
     DEF Focus, Again, Moves, Event, TypeOK, panel, work, store, database
<1>10. ASSUME ReadList PROVE TypeOK'
  <2>1. listing' \in Fetches(Groups)
    BY <1>10 DEF ReadList, Loaded, Fetches, Caches, TypeOK
  <2>2. QED
    BY <1>10, <2>1 DEF ReadList, TypeOK, panel, work, store, database, used
<1>11. ASSUME ReadMessages PROVE TypeOK'
  <2>1. loading' \in Fetches(Messages)
    BY <1>11 DEF ReadMessages, Held, Loaded, Fetches, Caches, TypeOK
  <2>2. QED
    BY <1>11, <2>1 DEF ReadMessages, TypeOK, panel, work, store, database, used
<1>12. ASSUME ListArrives PROVE TypeOK'
  <2>1. /\ generating' = generating
        /\ Effect(shown, current, newChat, listing.got, data)
    BY <1>12, PanelFacts
  <2>2. QED
    BY <1>0, <1>12, <2>1, EffectTypes, SetFacts
       DEF ListArrives, TypeOK, panel, work, database, used
<1>13. ASSUME MessagesArrive PROVE TypeOK'
  <2>1. /\ generating' = generating
        /\ \/ Effect(shown, current, newChat, listed, loading.got)
           \/ /\ loading' = Idle
              /\ UNCHANGED <<newChat, listed, previous, current, data, shown>>
    BY <1>13, PanelFacts
  <2>2. QED
    BY <1>0, <1>13, <2>1, EffectTypes, SetFacts
       DEF MessagesArrive, TypeOK, panel, work, database, used
<1>14. CASE UNCHANGED vars
  BY <1>14 DEF vars, store, database, panel, fetches, work, used, TypeOK
<1>15. QED
  BY <1>1, <1>2, <1>3, <1>4, <1>5, <1>6, <1>7, <1>8, <1>9, <1>10, <1>11, <1>12,
     <1>13, <1>14, NextCases
-----------------------------------------------------------------------------
(* The claim: a submission takes it when nobody is running and gives it back *)
(* when it is done.                                                          *)
LEMMA OneSubmissionKept ==
  ASSUME IInv, [Next]_vars
  PROVE  OneSubmission'
<1>0. /\ TypeOK /\ SelectionIsListed
      /\ Running = {active} \ {NoOp} /\ (generating => active # NoOp)
      /\ op \in [Ops -> [pc : Stages, group : Groups \cup {NoGroup}]]
      /\ NoOp \notin Ops
  BY SetFacts DEF IInv, OneSubmission, TypeOK
<1>1. ASSUME NEW i \in Ops, Submit(i) PROVE OneSubmission'
  <2>1. Running = {}
    BY <1>0, <1>1, SubmitFacts
  <2>2. op'[i].pc = "begin" /\ \A j \in Ops \ {i} : op'[j] = op[j]
    <3> DEFINE g == IF newChat THEN NoGroup ELSE current
    <3>1. op' = [op EXCEPT ![i] = [pc |-> "begin", group |-> g]]
      BY <1>0, <1>1, SubmitFacts
    <3> HIDE DEF g
    <3>2. QED
      BY <1>0, <3>1
  <2>3. Running' = {i}
    BY <2>1, <2>2 DEF Running
  <2>4. QED
    BY <1>0, <1>1, <2>3, SubmitFacts DEF OneSubmission
<1>2. ASSUME NEW i \in Ops, i \in Running, op'[i].pc # "new",
             \A j \in Ops \ {i} : op'[j] = op[j],
             IF op'[i].pc = "done"
             THEN /\ active' = IF active = i THEN NoOp ELSE active
                  /\ generating' = (generating /\ active # i)
             ELSE UNCHANGED <<active, generating>>
      PROVE  OneSubmission'
  <2>1. active = i /\ Running = {i}
    BY <1>0, <1>2
  <2>2. CASE op'[i].pc = "done"
    <3>1. Running' = {}
      BY <1>2, <2>1, <2>2 DEF Running
    <3>2. QED
      BY <1>2, <2>1, <2>2, <3>1 DEF OneSubmission
  <2>3. CASE op'[i].pc # "done"
    <3>1. Running' = {i}
      BY <1>2, <2>1, <2>3 DEF Running
    <3>2. QED
      BY <1>0, <1>2, <2>1, <2>3, <3>1 DEF OneSubmission
  <2>4. QED
    BY <2>2, <2>3
<1>3. ASSUME NEW i \in Ops, NEW base \in SUBSET Messages, Advances(i, base)
      PROVE  OneSubmission'
  <2>1. /\ i \in Running /\ op'[i].pc # "new"
        /\ \A j \in Ops \ {i} : op'[j] = op[j]
    BY <1>0, <1>3 DEF Advances
  <2>2. QED
    BY <1>2, <1>3, <2>1 DEF Advances
<1>4. ASSUME NEW i \in Ops, Created(i) PROVE OneSubmission'
  <2>1. i \in Running
    BY <1>4 DEF Created, At, Running
  <2>2. CASE i \in aborted
    <3>1. /\ op' = [op EXCEPT ![i].pc = "done"]
          /\ active' = IF active = i THEN NoOp ELSE active
          /\ generating' = (generating /\ active # i)
      BY <1>0, <1>4, <2>2, CreatedFacts
    <3>2. op'[i].pc = "done" /\ \A j \in Ops \ {i} : op'[j] = op[j]
      BY <1>0, <3>1
    <3>3. QED
      BY <1>2, <2>1, <3>1, <3>2
  <2>3. CASE i \notin aborted
    <3>1. /\ op' = [op EXCEPT ![i] = [pc |-> "question", group |-> i]]
          /\ active' = active /\ generating' = generating
      BY <1>0, <1>4, <2>3, CreatedFacts
    <3>2. op'[i].pc = "question" /\ \A j \in Ops \ {i} : op'[j] = op[j]
      BY <1>0, <3>1
    <3>3. QED
      BY <1>2, <2>1, <3>1, <3>2
  <2>4. QED
    BY <2>2, <2>3
<1>5. ASSUME UNCHANGED <<op, active>>, generating' => generating
      PROVE  OneSubmission'
  <2>1. Running' = Running
    BY <1>5 DEF Running
  <2>2. QED
    BY <1>0, <1>5, <2>1 DEF OneSubmission
<1>6. ASSUME NEW g \in Groups, Select(g) PROVE OneSubmission'
  BY <1>0, <1>5, <1>6, PanelFacts DEF Select, work
<1>7. CASE NewChat
  BY <1>0, <1>5, <1>7, PanelFacts DEF NewChat
<1>8. CASE Stop \/ Close \/ Open \/ Focus \/ ReadList \/ ReadMessages
  BY <1>5, <1>8 DEF Stop, Close, Open, Focus, ReadList, ReadMessages, work, store
<1>9. CASE ListArrives \/ MessagesArrive
  BY <1>0, <1>5, <1>9, PanelFacts DEF ListArrives, MessagesArrive, work
<1>10. CASE UNCHANGED vars
  BY <1>5, <1>10 DEF vars, work, store
<1>11. QED
  BY <1>1, <1>3, <1>4, <1>6, <1>7, <1>8, <1>9, <1>10, NextCases

-----------------------------------------------------------------------------
(* Only a submission writes messages, and only those of its place. *)
LEMMA SavedFacts ==
  ASSUME IInv, [Next]_vars
  PROVE  /\ saved \subseteq saved'
         /\ \A m \in saved' \ saved : \E i \in Ops :
              \/ m = <<i, "user">> /\ op[i].pc = "question"
              \/ m = <<i, "answer">> /\ op[i].pc = "answer"
              \/ m = <<i, "failure">> /\ op[i].pc = "report"
<1>1. ASSUME NEW i \in Ops, NEW base \in SUBSET Messages, Advances(i, base)
      PROVE  /\ saved \subseteq saved'
             /\ \A m \in saved' \ saved :
                  \/ m = <<i, "user">> /\ op[i].pc = "question"
                  \/ m = <<i, "answer">> /\ op[i].pc = "answer"
                  \/ m = <<i, "failure">> /\ op[i].pc = "report"
  BY <1>1 DEF Advances
<1>2. ASSUME NEW i \in Ops, Submit(i) PROVE saved' = saved
  BY <1>2 DEF Submit, database
<1>3. ASSUME NEW i \in Ops, Created(i) PROVE saved' = saved
  BY <1>3 DEF Created
<1>4. ASSUME NEW g \in Groups, Select(g) PROVE saved' = saved
  BY <1>4 DEF Select, database
<1>5. CASE \/ Stop \/ NewChat \/ Close \/ Open \/ Focus \/ ReadList
           \/ ReadMessages \/ ListArrives \/ MessagesArrive \/ UNCHANGED vars
  <2>1. saved' = saved
    BY <1>5 DEF Stop, NewChat, Close, Open, Focus, ReadList, ReadMessages,
                ListArrives, MessagesArrive, vars, database
  <2>2. QED
    BY <2>1
<1>6. QED
  BY <1>1, <1>2, <1>3, <1>4, <1>5, NextCases

(* Only a submission moves a submission. *)
LEMMA OpFacts ==
  ASSUME IInv, [Next]_vars
  PROVE  \A i \in Ops :
           \/ op'[i] = op[i]
           \/ op'[i].pc \notin Asking
           \/ op[i].pc \in Asking
           \/ <<i, "user">> \in saved'
<1>0. TypeOK /\ SelectionIsListed /\ op \in [Ops -> [pc : Stages, group : Groups \cup {NoGroup}]]
  BY DEF IInv, TypeOK
<1>1. ASSUME NEW i \in Ops, NEW base \in SUBSET Messages, Advances(i, base), NEW j \in Ops
      PROVE  \/ op'[j] = op[j]
             \/ op'[j].pc \notin Asking \/ op[j].pc \in Asking \/ <<j, "user">> \in saved'
  <2>1. j # i => op'[j] = op[j]
    BY <1>0, <1>1 DEF Advances
  <2>2. QED
    BY <1>1, <2>1 DEF Advances
<1>2. ASSUME NEW i \in Ops, Submit(i), NEW j \in Ops
      PROVE  op'[j] = op[j] \/ op'[j].pc \notin Asking
  <2> DEFINE g == IF newChat THEN NoGroup ELSE current
  <2>1. op' = [op EXCEPT ![i] = [pc |-> "begin", group |-> g]]
    BY <1>0, <1>2, SubmitFacts
  <2> HIDE DEF g
  <2>2. CASE j = i
    BY <1>0, <2>1, <2>2 DEF Asking
  <2>3. CASE j # i
    BY <1>0, <2>1, <2>3
  <2>4. QED
    BY <2>2, <2>3
<1>3. ASSUME NEW i \in Ops, Created(i), NEW j \in Ops
      PROVE  op'[j] = op[j] \/ op'[j].pc \notin Asking
  <2>1. \/ op' = [op EXCEPT ![i].pc = "done"]
        \/ op' = [op EXCEPT ![i] = [pc |-> "question", group |-> i]]
    BY <1>0, <1>3, CreatedFacts
  <2>2. CASE j = i
    BY <1>0, <2>1, <2>2 DEF Asking
  <2>3. CASE j # i
    BY <1>0, <2>1, <2>3
  <2>4. QED
    BY <2>2, <2>3
<1>4. ASSUME NEW g \in Groups, Select(g) PROVE op' = op
  BY <1>4 DEF Select, work
<1>5. CASE \/ Stop \/ NewChat \/ Close \/ Open \/ Focus \/ ReadList
           \/ ReadMessages \/ ListArrives \/ MessagesArrive \/ UNCHANGED vars
  <2>1. op' = op
    BY <1>5 DEF Stop, NewChat, Close, Open, Focus, ReadList, ReadMessages,
                ListArrives, MessagesArrive, vars, work
  <2>2. QED
    BY <2>1
<1>6. QED
  BY <1>1, <1>2, <1>3, <1>4, <1>5, NextCases

LEMMA QuestionsKept ==
  ASSUME IInv, [Next]_vars
  PROVE  QuestionsAreSaved' /\ AnswersHaveQuestions'
<1>0. QuestionsAreSaved /\ AnswersHaveQuestions /\ saved \subseteq saved'
  BY SavedFacts DEF IInv
<1>1. QuestionsAreSaved'
  BY <1>0, OpFacts DEF QuestionsAreSaved, Asking
<1>2. AnswersHaveQuestions'
  <2>1. SUFFICES ASSUME NEW i \in Ops, NEW r \in {"answer", "failure"},
                        <<i, r>> \in saved'
                 PROVE  <<i, "user">> \in saved'
    BY DEF AnswersHaveQuestions
  <2>2. CASE <<i, r>> \in saved
    BY <1>0, <2>2 DEF AnswersHaveQuestions
  <2>3. CASE <<i, r>> \notin saved
    <3>1. PICK j \in Ops :
            \/ <<i, r>> = <<j, "user">> /\ op[j].pc = "question"
            \/ <<i, r>> = <<j, "answer">> /\ op[j].pc = "answer"
            \/ <<i, r>> = <<j, "failure">> /\ op[j].pc = "report"
      BY <2>1, <2>3, SavedFacts
    <3>2. op[i].pc \in {"answer", "report"}
      BY <3>1
    <3>3. QED
      BY <1>0, <3>2 DEF QuestionsAreSaved
  <2>4. QED
    BY <2>2, <2>3
<1>3. QED
  BY <1>1, <1>2

-----------------------------------------------------------------------------
(* The queries hold what was saved when they read. *)
LEMMA CachesKept ==
  ASSUME IInv, [Next]_vars
  PROVE  CachesAreSaved'
<1>0. /\ TypeOK /\ SelectionIsListed /\ saved \subseteq saved'
      /\ data.has \subseteq saved' /\ loading.got.has \subseteq saved'
      /\ NotLoaded.has = {} /\ Idle.got.has = {} /\ Asked.got.has = {}
  BY SavedFacts, SetFacts DEF IInv, CachesAreSaved
<1>1. ASSUME data'.has \subseteq data.has \cup loading.got.has,
             loading'.got.has \subseteq loading.got.has
      PROVE  CachesAreSaved'
  BY <1>0, <1>1 DEF CachesAreSaved
<1>2. ASSUME NEW base, NEW cur, NEW new, NEW list, NEW cached \in {data, loading.got},
             Effect(base, cur, new, list, cached)
      PROVE  CachesAreSaved'
  BY <1>0, <1>1, <1>2 DEF Effect
<1>3. ASSUME NEW i \in Ops, Submit(i) PROVE CachesAreSaved'
  BY <1>0, <1>2, <1>3, SubmitFacts
<1>4. ASSUME NEW i \in Ops, NEW base \in SUBSET Messages, Advances(i, base)
      PROVE  CachesAreSaved'
  BY <1>2, <1>4 DEF Advances
<1>5. ASSUME NEW i \in Ops, Created(i) PROVE CachesAreSaved'
  BY <1>0, <1>2, <1>5, CreatedFacts
<1>6. ASSUME NEW g \in Groups, Select(g) PROVE CachesAreSaved'
  BY <1>0, <1>2, <1>6, PanelFacts
<1>7. CASE NewChat \/ ListArrives
  BY <1>0, <1>2, <1>7, PanelFacts
<1>8. CASE MessagesArrive
  <2>1. CASE Effect(shown, current, newChat, listed, loading.got)
    BY <1>2, <2>1
  <2>2. CASE loading' = Idle /\ data' = data
    BY <1>0, <1>1, <2>2
  <2>3. QED
    BY <1>0, <1>8, <2>1, <2>2, PanelFacts
<1>9. CASE Stop \/ ReadList \/ UNCHANGED vars
  BY <1>1, <1>9 DEF Stop, ReadList, vars, panel, fetches
<1>10. CASE Close \/ Open \/ Focus
  BY <1>0, <1>1, <1>10 DEF Close, Open, Focus, Again, panel
<1>11. CASE ReadMessages
  <2>1. loading'.got.has \subseteq saved /\ data' = data
    BY <1>11 DEF ReadMessages, Loaded, Held, panel
  <2>2. QED
    BY <1>0, <2>1 DEF CachesAreSaved
<1>12. QED
  BY <1>3, <1>4, <1>5, <1>6, <1>7, <1>8, <1>9, <1>10, <1>11, NextCases

(* The list that arrives knows the selected chat: one read before that chat  *)
(* existed has been cancelled by the submission which created it.            *)
LEMMA SelectionKept ==
  ASSUME IInv, [Next]_vars
  PROVE  SelectionIsListed'
<1>0. /\ TypeOK /\ SelectionIsListed
      /\ NoGroup \notin Groups /\ NotLoaded.has = {} /\ ~NotLoaded.loaded
      /\ Idle.st # "read" /\ Asked.st # "read"
  BY SetFacts DEF IInv
<1>1. ASSUME NEW base, NEW new, NEW cached,
             Effect(base, current, new, listed, cached),
             listing' = listing, groups \subseteq groups'
      PROVE  SelectionIsListed'
  BY <1>0, <1>1 DEF Effect, SelectionIsListed
<1>2. ASSUME NEW i \in Ops, Submit(i) PROVE SelectionIsListed'
  BY <1>0, <1>1, <1>2, SubmitFacts
<1>3. ASSUME NEW i \in Ops, NEW base \in SUBSET Messages, Advances(i, base)
      PROVE  SelectionIsListed'
  BY <1>1, <1>3 DEF Advances
<1>4. ASSUME NEW i \in Ops, Created(i) PROVE SelectionIsListed'
  <2>1. groups' = groups \cup {i}
    BY <1>4 DEF Created
  <2>2. CASE i \in aborted
    BY <1>0, <1>1, <1>4, <2>1, <2>2, CreatedFacts
  <2>3. CASE i \notin aborted
    <3>1. listed' = WithGroup(i) /\ current' = i /\ listing' \in {Asked, Idle}
      BY <1>0, <1>4, <2>3, CreatedFacts DEF Effect
    <3>2. /\ WithGroup(i).has \subseteq groups \cup {i}
          /\ WithGroup(i).loaded => i \in WithGroup(i).has
      BY <1>0 DEF WithGroup, Loaded, SelectionIsListed
    <3>3. QED
      BY <1>0, <2>1, <3>1, <3>2 DEF SelectionIsListed
  <2>4. QED
    BY <2>2, <2>3
<1>5. ASSUME NEW g \in Groups, Select(g) PROVE SelectionIsListed'
  <2>1. /\ Effect(shown, g, newChat, listed, data) /\ g \in listed.has
        /\ UNCHANGED <<listing, groups>>
    BY <1>0, <1>5, PanelFacts DEF Select, database
  <2>2. QED
    BY <1>0, <2>1 DEF Effect, SelectionIsListed
<1>6. CASE NewChat
  <2>1. Effect({}, NoGroup, TRUE, listed, data) /\ UNCHANGED <<listing, groups>>
    BY <1>0, <1>6, PanelFacts DEF NewChat, database
  <2>2. QED
    BY <1>0, <2>1 DEF Effect, SelectionIsListed
<1>7. CASE ListArrives
  <2>1. /\ Effect(shown, current, newChat, listing.got, data)
        /\ listing' = Idle /\ listing.st = "read" /\ groups' = groups
    BY <1>0, <1>7, PanelFacts DEF ListArrives, database
  <2>2. QED
    BY <1>0, <2>1 DEF Effect, SelectionIsListed
<1>8. CASE MessagesArrive
  <2>1. UNCHANGED <<listing, groups>>
    BY <1>8 DEF MessagesArrive, database
  <2>2. CASE Effect(shown, current, newChat, listed, loading.got)
    BY <1>1, <2>1, <2>2
  <2>3. CASE UNCHANGED <<listed, current>>
    BY <1>0, <2>1, <2>3 DEF SelectionIsListed
  <2>4. QED
    BY <1>0, <1>8, <2>2, <2>3, PanelFacts
<1>9. CASE Stop \/ ReadMessages \/ UNCHANGED vars
  BY <1>0, <1>9 DEF Stop, ReadMessages, vars, panel, fetches, database, SelectionIsListed
<1>10. CASE Close \/ Open
  BY <1>0, <1>10 DEF Close, Open, database, SelectionIsListed
<1>11. CASE Focus
  BY <1>0, <1>11 DEF Focus, Again, panel, database, SelectionIsListed
<1>12. CASE ReadList
  <2>1. listing'.got.has = groups /\ UNCHANGED <<listed, current, groups>>
    BY <1>12 DEF ReadList, Loaded, panel, database
  <2>2. QED
    BY <1>0, <2>1 DEF SelectionIsListed
<1>13. QED
  BY <1>2, <1>3, <1>4, <1>5, <1>6, <1>7, <1>8, <1>9, <1>10, <1>11, <1>12, NextCases

-----------------------------------------------------------------------------
(* A pending new chat: a submission in it has not yet shown anything, and    *)
(* one from before it has been aborted.                                      *)
LEMMA NewChatKept ==
  ASSUME IInv, [Next]_vars
  PROVE  NewChatIsEmpty' /\ NewChatIsCreated'
<1>0. /\ TypeOK /\ SelectionIsListed /\ NewChatIsEmpty /\ NewChatIsCreated
      /\ Running = {active} \ {NoOp} /\ NoGroup \notin Groups
      /\ op \in [Ops -> [pc : Stages, group : Groups \cup {NoGroup}]]
  BY SetFacts DEF IInv, OneSubmission, TypeOK
<1>1. SUFFICES ASSUME newChat', current' = NoGroup
               PROVE  /\ shown' = {}
                      /\ \A i \in Running' \ aborted' :
                           op'[i].pc \in {"begin", "create"} /\ op'[i].group = NoGroup
  BY DEF NewChatIsEmpty, NewChatIsCreated
<1> DEFINE New(i) == op[i].pc \in {"begin", "create"} /\ op[i].group = NoGroup
           Goal == /\ shown' = {}
                   /\ \A i \in Running' \ aborted' :
                        op'[i].pc \in {"begin", "create"} /\ op'[i].group = NoGroup
<1>2. ASSUME NEW base, NEW list, NEW cached, Effect(base, current, newChat, list, cached)
      PROVE  /\ newChat /\ current = NoGroup /\ shown = {}
             /\ \A i \in Running \ aborted : New(i)
             /\ shown' = base
  <2>1. newChat' = newChat /\ current' = current
    BY <1>1, <1>2 DEF Effect
  <2>2. QED
    BY <1>0, <1>1, <1>2, <2>1 DEF Effect, NewChatIsEmpty, NewChatIsCreated
<1>3. ASSUME NEW i \in Ops, Submit(i) PROVE Goal
  <2>1. /\ Effect(shown, current, newChat, listed, data)
        /\ op' = [op EXCEPT ![i] =
                    [pc |-> "begin", group |-> IF newChat THEN NoGroup ELSE current]]
        /\ Running = {}
    BY <1>0, <1>3, SubmitFacts
  <2>2. newChat /\ shown' = {}
    BY <1>2, <2>1
  <2>3. /\ op'[i].pc = "begin" /\ op'[i].group = NoGroup
        /\ \A j \in Ops \ {i} : op'[j] = op[j]
    BY <1>0, <2>1, <2>2
  <2>4. Running' \subseteq {i}
    BY <2>1, <2>3 DEF Running
  <2>5. QED
    BY <2>2, <2>3, <2>4
<1>4. ASSUME NEW i \in Ops, NEW base \in SUBSET Messages, Advances(i, base) PROVE Goal
  <2>1. /\ shown = {} /\ shown' = base
        /\ \A j \in Running \ aborted : New(j)
    BY <1>2, <1>4 DEF Advances
  <2>2. /\ i \in Running /\ aborted' = aborted
        /\ i \in aborted => base = shown
        /\ New(i) => base = shown /\ op'[i].pc \in {"create", "done"}
    BY <1>4 DEF Advances
  <2>3. op'[i].group = op[i].group /\ \A j \in Ops \ {i} : op'[j] = op[j]
    BY <1>0, <1>4 DEF Advances
  <2>4. shown' = {}
    BY <2>1, <2>2
  <2>5. ASSUME NEW j \in Running' \ aborted'
        PROVE  op'[j].pc \in {"begin", "create"} /\ op'[j].group = NoGroup
    <3>1. CASE j = i
      BY <2>1, <2>2, <2>3, <2>5, <3>1 DEF Running
    <3>2. CASE j # i
      BY <2>1, <2>2, <2>3, <2>5, <3>2 DEF Running
    <3>3. QED
      BY <3>1, <3>2
  <2>6. QED
    BY <2>4, <2>5
<1>5. ASSUME NEW i \in Ops, Created(i) PROVE Goal
  <2>1. /\ i \in aborted /\ aborted' = aborted
        /\ Effect(shown, current, newChat, listed, data)
        /\ op' = [op EXCEPT ![i].pc = "done"]
    BY <1>0, <1>1, <1>5, CreatedFacts DEF Created, Finish
  <2>2. op'[i].pc = "done" /\ \A j \in Ops \ {i} : op'[j] = op[j]
    BY <1>0, <2>1
  <2>3. /\ shown = {} /\ shown' = shown
        /\ \A j \in Running \ aborted : New(j)
    BY <1>2, <2>1
  <2>4. QED
    BY <2>1, <2>2, <2>3 DEF Running
<1>6. ASSUME NEW g \in Groups, Select(g) PROVE Goal
  <2>1. current' = g
    BY <1>0, <1>1, <1>6, PanelFacts DEF Effect
  <2>2. QED
    BY <1>0, <1>1, <2>1
<1>7. ASSUME Abort, op' = op, shown' = {} PROVE Goal
  <2>1. Running' = Running
    BY <1>7 DEF Running
  <2>2. Running \ aborted' = {}
    BY <1>0, <1>7 DEF Abort
  <2>3. QED
    BY <1>7, <2>1, <2>2
<1>8. CASE NewChat
  BY <1>0, <1>1, <1>7, <1>8, PanelFacts DEF NewChat, Effect
<1>9. ASSUME UNCHANGED <<newChat, current, shown, op>>, aborted \subseteq aborted' PROVE Goal
  BY <1>0, <1>1, <1>9 DEF NewChatIsEmpty, NewChatIsCreated, Running
<1>10. CASE Open
  <2>1. CASE request
    BY <1>7, <1>10, <2>1 DEF Open
  <2>2. CASE ~request
    BY <1>9, <1>10, <2>2 DEF Open, store
  <2>3. QED
    BY <2>1, <2>2
<1>11. CASE Stop \/ Close \/ Focus \/ ReadList \/ ReadMessages \/ UNCHANGED vars
  BY <1>9, <1>11 DEF Stop, Abort, Close, Focus, ReadList, ReadMessages, vars,
                     store, panel, work
<1>12. CASE ListArrives
  <2>1. Effect(shown, current, newChat, listing.got, data) /\ UNCHANGED <<op, aborted>>
    BY <1>0, <1>12, PanelFacts DEF ListArrives, work
  <2>2. QED
    BY <1>2, <2>1 DEF Running
<1>13. CASE MessagesArrive
  <2>0. UNCHANGED <<op, aborted>>
    BY <1>13 DEF MessagesArrive, work
  <2>1. CASE Effect(shown, current, newChat, listed, loading.got)
    BY <1>2, <2>0, <2>1 DEF Running
  <2>2. CASE UNCHANGED <<newChat, current, shown>>
    BY <1>9, <2>0, <2>2
  <2>3. QED
    BY <1>0, <1>13, <2>1, <2>2, PanelFacts
<1>14. QED
  BY <1>3, <1>4, <1>5, <1>6, <1>8, <1>10, <1>11, <1>12, <1>13, NextCases

-----------------------------------------------------------------------------
LEMMA InitIInv == Init => IInv
<1> SUFFICES ASSUME Init PROVE IInv
  OBVIOUS
<1>1. TypeOK
  <2>1. op \in [Ops -> [pc : Stages, group : Groups \cup {NoGroup}]]
    BY DEF Init, Stages
  <2>2. \A p \in Past : <<p, "user">> \in Messages
    BY DEF Messages
  <2>3. saved \subseteq Messages
    BY <2>2 DEF Init
  <2>4. events \in 0 .. MaxEvents
    BY BoundsAssumption DEF Init
  <2>5. /\ aborted \subseteq Ops /\ active \in Ops \cup {NoOp} /\ groups \subseteq Groups
        /\ shown \subseteq Messages /\ current \in Groups \cup {NoGroup}
    BY SetFacts DEF Init
  <2>6. /\ listed \in Caches(Groups) /\ data \in Caches(Messages)
        /\ listing \in Fetches(Groups) /\ loading \in Fetches(Messages)
    BY SetFacts DEF Init
  <2>7. QED
    BY <2>1, <2>3, <2>4, <2>5, <2>6 DEF Init, TypeOK
<1>2. OneSubmission
  BY DEF Init, OneSubmission, Running, NoOp
<1>3. AnswersHaveQuestions /\ QuestionsAreSaved
  BY BoundsAssumption DEF Init, AnswersHaveQuestions, QuestionsAreSaved
<1>4. CachesAreSaved /\ SelectionIsListed
  BY SetFacts DEF Init, CachesAreSaved, SelectionIsListed
<1>5. NewChatIsEmpty /\ NewChatIsCreated
  BY DEF Init, NewChatIsEmpty, NewChatIsCreated
<1>6. QED
  BY <1>1, <1>2, <1>3, <1>4, <1>5 DEF IInv

(* IInv is inductive, and so holds of every state the chat can reach. *)
THEOREM ChatInvariance == Spec => []IInv
<1>1. IInv /\ [Next]_vars => IInv'
  BY TypeKept, OneSubmissionKept, QuestionsKept, CachesKept, SelectionKept,
     NewChatKept DEF IInv
<1>2. QED
  BY InitIInv, <1>1, PTL DEF Spec

(* Every variable of the chat keeps its type. *)
THEOREM ChatTyping == Spec => []TypeOK
<1>1. IInv => TypeOK
  BY DEF IInv
<1>2. QED
  BY ChatInvariance, <1>1, PTL

(* There is never a second submission of a note under way, whatever was      *)
(* aborted, begun anew or left meanwhile, and the flag the panel shows is    *)
(* only set while one is.                                                    *)
THEOREM ChatOneSubmission == Spec => []OneSubmission
<1>1. IInv => OneSubmission
  BY DEF IInv
<1>2. QED
  BY ChatInvariance, <1>1, PTL

(* A new chat shows nothing of what was under way when it was begun.         *)
THEOREM ChatNewIsEmpty == Spec => []NewChatIsEmpty
<1>1. IInv => NewChatIsEmpty
  BY DEF IInv
<1>2. QED
  BY ChatInvariance, <1>1, PTL

(* The history of a chat never has an answer without its question.           *)
THEOREM ChatAnswersHaveQuestions == Spec => []AnswersHaveQuestions
<1>1. IInv => AnswersHaveQuestions
  BY DEF IInv
<1>2. QED
  BY ChatInvariance, <1>1, PTL

-----------------------------------------------------------------------------
(* What an effect adds to the panel the database holds already. *)
LEMMA EffectShows ==
  ASSUME CachesAreSaved, NEW base, NEW cur, NEW new, NEW list,
         NEW cached \in {data, loading.got},
         Effect(base, cur, new, list, cached)
  PROVE  shown' \subseteq base \cup saved
BY SetFacts DEF Effect, CachesAreSaved

(* Once stopped, a submission adds nothing: not to the panel, where it only  *)
(* comes back from the database, and not to the database beyond the write    *)
(* that was on its way.                                                      *)
THEOREM ChatStopIsFinal == Spec => StoppedStaysSilent
<1> DEFINE Place(r) == CASE r = "user" -> "question" [] r = "answer" -> "answer"
                         [] r = "failure" -> "report"
           Silent == \A i \in aborted, r \in {"user", "answer", "failure"} :
                       /\ <<i, r>> \in saved' \ saved => At(i, Place(r))
                       /\ <<i, r>> \in shown' \ shown => <<i, r>> \in saved
<1>1. ASSUME IInv, [Next]_vars PROVE [Silent]_vars
  <2>0. TypeOK /\ SelectionIsListed /\ CachesAreSaved /\ aborted \subseteq Ops
    BY <1>1 DEF IInv, TypeOK
  <2>1. ASSUME NEW i \in aborted, NEW r \in {"user", "answer", "failure"},
               <<i, r>> \in saved' \ saved
        PROVE  At(i, Place(r))
    <3>1. PICK j \in Ops :
            \/ <<i, r>> = <<j, "user">> /\ op[j].pc = "question"
            \/ <<i, r>> = <<j, "answer">> /\ op[j].pc = "answer"
            \/ <<i, r>> = <<j, "failure">> /\ op[j].pc = "report"
      BY <1>1, <2>1, SavedFacts
    <3>2. QED
      BY <3>1 DEF At
  <2>2. ASSUME NEW i \in aborted, NEW r \in {"user", "answer", "failure"},
               <<i, r>> \in shown' \ shown
        PROVE  <<i, r>> \in saved
    <3>1. ASSUME shown' \subseteq shown \cup saved PROVE <<i, r>> \in saved
      BY <2>2, <3>1
    <3>2. ASSUME NEW j \in Ops, Submit(j) PROVE shown' \subseteq shown \cup saved
      BY <2>0, <3>2, SubmitFacts, EffectShows
    <3>3. ASSUME NEW j \in Ops, NEW base \in SUBSET Messages, Advances(j, base)
          PROVE  <<i, r>> \in saved
      <4>1. /\ shown' \subseteq base \cup saved
            /\ base \subseteq shown \cup {<<j, "user">>, <<j, "answer">>, <<j, "failure">>}
            /\ j \in aborted => base = shown
        BY <2>0, <3>3, EffectShows DEF Advances
      <4>2. QED
        BY <2>2, <4>1
    <3>4. ASSUME NEW j \in Ops, Created(j) PROVE <<i, r>> \in saved
      <4>1. CASE j \in aborted
        BY <2>0, <3>1, <3>4, <4>1, CreatedFacts, EffectShows
      <4>2. CASE j \notin aborted
        <5>1. shown' \subseteq (shown \cup {<<j, "user">>}) \cup saved
          BY <2>0, <3>4, <4>2, CreatedFacts, EffectShows
        <5>2. QED
          BY <2>2, <4>2, <5>1
      <4>3. QED
        BY <4>1, <4>2
    <3>5. ASSUME NEW g \in Groups, Select(g) PROVE shown' \subseteq shown \cup saved
      BY <2>0, <3>5, PanelFacts, EffectShows
    <3>6. CASE NewChat
      <4>1. shown' \subseteq {} \cup saved
        BY <2>0, <3>6, PanelFacts, EffectShows
      <4>2. QED
        BY <3>1, <4>1
    <3>7. CASE ListArrives
      BY <2>0, <3>1, <3>7, PanelFacts, EffectShows
    <3>8. CASE MessagesArrive
      BY <2>0, <3>1, <3>8, PanelFacts, EffectShows
    <3>9. CASE Stop \/ Close \/ Open \/ Focus \/ ReadList \/ ReadMessages \/ UNCHANGED vars
      BY <3>1, <3>9 DEF Stop, Close, Open, Focus, ReadList, ReadMessages, vars, store
    <3>10. QED
      BY <1>1, <3>1, <3>2, <3>3, <3>4, <3>5, <3>6, <3>7, <3>8, <3>9, NextCases
  <2>3. QED
    BY <2>1, <2>2
<1>2. QED
  BY ChatInvariance, <1>1, PTL DEF Spec, StoppedStaysSilent

(* Nothing but the user, or the chat of a submission, replaces the selected  *)
(* chat: a list that arrives late does not.                                  *)
THEOREM ChatSelectionStays == Spec => SelectionStays
<1> DEFINE Stays == current # NoGroup /\ current' # current
                    => \/ current' = NoGroup /\ newChat'
                       \/ \E g \in Groups : Select(g)
                       \/ \E i \in Ops : Created(i)
<1>1. ASSUME IInv, [Next]_vars PROVE [Stays]_vars
  <2>0. TypeOK /\ SelectionIsListed
    BY <1>1 DEF IInv
  <2>1. SUFFICES ASSUME current # NoGroup, current' # current
                 PROVE  Stays
    OBVIOUS
  <2>2. ASSUME NEW base, NEW new, NEW cached, Effect(base, current, new, listed, cached)
        PROVE  FALSE
    BY <2>0, <2>1, <2>2 DEF Effect, SelectionIsListed
  <2>3. ASSUME NEW i \in Ops, Submit(i) PROVE FALSE
    BY <2>0, <2>2, <2>3, SubmitFacts
  <2>4. ASSUME NEW i \in Ops, NEW base \in SUBSET Messages, Advances(i, base) PROVE FALSE
    BY <2>2, <2>4 DEF Advances
  <2>5. CASE NewChat
    BY <2>0, <2>5, PanelFacts DEF Effect
  <2>6. CASE Open
    BY <2>1, <2>6 DEF Open
  <2>7. ListArrives => FALSE
    <3>1. ListArrives => /\ Effect(shown, current, newChat, listing.got, data)
                         /\ listing.st = "read"
      BY <2>0, PanelFacts DEF ListArrives
    <3>2. QED
      BY <2>0, <2>1, <3>1 DEF Effect, SelectionIsListed
  <2>8. MessagesArrive => FALSE
    BY <2>0, <2>1, <2>2, PanelFacts
  <2>9. Stop \/ Close \/ Focus \/ ReadList \/ ReadMessages \/ UNCHANGED vars => FALSE
    BY <2>1 DEF Stop, Close, Focus, ReadList, ReadMessages, vars, panel
  <2>10. QED
    BY <1>1, <2>3, <2>4, <2>5, <2>6, <2>7, <2>8, <2>9, NextCases
<1>2. QED
  BY ChatInvariance, <1>1, PTL DEF Spec, SelectionStays
=============================================================================
