-------------------------------- MODULE Chat --------------------------------
(* The chat beside one note: the submissions (hooks/useChatLogic.ts), their  *)
(* claim on the note (hooks/chat-generation.ts), the messages and the        *)
(* generating flag in the store (stores/useChatState.ts), the cached queries *)
(* and the two effects which keep the panel in step with the database        *)
(* (hooks/useChatQueries.ts), and the panel (views/chat-view.tsx).           *)
(*                                                                           *)
(* A submission awaits the database, the model or nothing between two of its *)
(* actions; whatever the user does, and whatever the queries bring, happens  *)
(* there.  The effects run with the commit of the change that triggers them. *)
EXTENDS Integers, FiniteSets

CONSTANTS Past,       \* the chats of the note that exist at the start
          NoGroup,    \* no chat selected
          MaxOps,     \* bound: submissions accepted
          MaxEvents   \* bound: calls that fail, times the window is focused
                      \* again, chats begun or selected

ASSUME BoundsAssumption ==
    /\ MaxOps \in Nat /\ MaxEvents \in Nat
    /\ NoGroup \notin Past \cup 0 .. MaxOps
    /\ Past \cap 0 .. MaxOps = {}

Ops == 1 .. MaxOps
NoOp == 0

(* A submission that creates a chat gives it its own number. *)
Groups == Past \cup Ops

(* Every past chat holds a message; a submission has at most three. *)
Messages == (Past \X {"user"}) \cup (Ops \X {"user", "answer", "failure"})

VARIABLES op,          \* submission -> pc, the chat it writes to
          aborted,     \* the submissions whose controller was aborted
          active,      \* the submission that holds the note's claim
          groups,      \* database: the chats of the note
          saved,       \* database: the messages
          generating,  \* store: the flag the panel shows
          shown,       \* store: the messages the panel shows
          current,     \* the selected chat
          newChat,     \* New Chat was pressed and its chat not created yet
          request,     \* the request of New Chat is still kept
          mounted,     \* the panel is open
          listed,      \* cache: the chats of the note, with what they held
          data,        \* cache: the messages of the selected chat
          listing,     \* the running fetch of the chats
          loading,     \* the running fetch of the messages
          previous,    \* generating at the last run of the sync effect
          events,      \* the bounded steps taken
          faults       \* some call failed

store    == <<generating, shown>>
database == <<groups, saved>>
panel    == <<current, newChat, request, mounted, listed, data, previous>>
fetches  == <<listing, loading>>
work     == <<op, aborted, active>>
used     == <<events, faults>>
vars     == <<store, database, panel, fetches, work, used>>

NotLoaded == [loaded |-> FALSE, has |-> {}, seen |-> {}]
Loaded(has, seen) == [loaded |-> TRUE, has |-> has, seen |-> seen]

Idle  == [st |-> "idle", got |-> NotLoaded]
Asked == [st |-> "asked", got |-> NotLoaded]
Again(fetch) == IF fetch.st = "idle" THEN Asked ELSE fetch

Init ==
    /\ op = [i \in Ops |-> [pc |-> "new", group |-> NoGroup]]
    /\ aborted = {}
    /\ active = NoOp
    /\ groups = Past
    /\ saved = Past \X {"user"}
    /\ generating = FALSE
    /\ shown = {}
    /\ current = NoGroup
    /\ newChat = FALSE
    /\ request = FALSE
    /\ mounted = TRUE
    /\ listed = NotLoaded
    /\ data = NotLoaded
    /\ listing = Asked
    /\ loading = Idle
    /\ previous = FALSE
    /\ events = 0
    /\ faults = FALSE

(* The chat of a message, and its place in time: a submission begins after   *)
(* the one before it has ended.                                              *)
Home(m) == IF m[1] \in Past THEN m[1] ELSE op[m[1]].group
Time(m) == IF m[1] \in Past THEN 0
           ELSE 2 * m[1] + (IF m[2] = "user" THEN 0 ELSE 1)

Held(g) == {m \in saved : Home(m) = g}

-----------------------------------------------------------------------------
(* The effects of the panel.                                                 *)

(* The selected chat is kept while the list has it or a new chat is pending; *)
(* otherwise the latest of the list is taken (here: any of it).              *)
Selections(cur, new, list) ==
    IF ~list.loaded \/ new \/ cur \in list.has THEN {cur}
    ELSE IF list.has = {} THEN {NoGroup}
    ELSE list.has

(* While a submission runs, messages newer than the database's are kept; the *)
(* run that follows its end leaves the messages alone; otherwise the cached  *)
(* messages replace them.                                                    *)
Synced(base, gen, cur, cached, list) ==
    IF ~cached.loaded \/ cur \notin list.has THEN base
    ELSE IF gen
    THEN cached.has \cup {m \in base : \A d \in cached.has : Time(m) > Time(d)}
    ELSE IF previous THEN base
    ELSE cached.has

(* A commit of the panel: what the store, the selection and the caches are   *)
(* set to, followed by the two effects.  A chat newly selected is fetched.   *)
Commit(base, gen, cur, new, list, cached) ==
    /\ generating' = gen
    /\ newChat' = new
    /\ listed' = list
    /\ \E c \in (IF mounted THEN Selections(cur, new, list) ELSE {cur}) :
         LET same == c = current
             d    == IF same THEN cached ELSE NotLoaded
         IN /\ current' = c
            /\ data' = d
            /\ loading' = CASE same -> IF data # cached THEN Idle ELSE loading
                            [] ~same /\ mounted /\ c # NoGroup -> Asked
                            [] OTHER -> Idle
            /\ shown' = IF mounted THEN Synced(base, gen, c, d, list) ELSE base
    /\ previous' = IF mounted THEN gen ELSE previous

-----------------------------------------------------------------------------
(* A submission.                                                             *)

At(i, pc) == op[i].pc = pc
Goto(i, pc) == op' = [op EXCEPT ![i].pc = pc]

(* Faulty variant of Submit: only the flag is looked at. *)
SubmitUnclaimed(i) ==
    /\ mounted
    /\ At(i, "new") /\ \A j \in Ops : j < i => ~At(j, "new")
    /\ ~generating
    /\ active' = i
    /\ op' = [op EXCEPT ![i] =
                [pc |-> "begin", group |-> IF newChat THEN NoGroup ELSE current]]
    /\ Commit(shown, TRUE, current, newChat, listed, data)
    /\ UNCHANGED <<aborted, database, mounted, request, listing, used>>

(* beginSubmission: refused while the flag is set or the claim is held.      *)
Submit(i) ==
    /\ mounted
    /\ At(i, "new") /\ \A j \in Ops : j < i => ~At(j, "new")
    /\ ~generating /\ active = NoOp
    /\ active' = i
    /\ op' = [op EXCEPT ![i] =
                [pc |-> "begin", group |-> IF newChat THEN NoGroup ELSE current]]
    /\ Commit(shown, TRUE, current, newChat, listed, data)
    /\ UNCHANGED <<aborted, database, mounted, request, listing, used>>

(* launchSubmission's last callback: the claim is released, the flag cleared *)
(* by the submission that held it.                                           *)
Finish(i, base) ==
    /\ Goto(i, "done")
    /\ active' = IF active = i THEN NoOp ELSE active
    /\ IF active = i /\ generating
       THEN Commit(base, FALSE, current, newChat, listed, data)
       ELSE /\ shown' = base
            /\ UNCHANGED <<generating, current, newChat, listed, data,
                           previous, loading>>
    /\ UNCHANGED <<aborted, mounted, request, listing>>

(* The submission goes on, the messages of the panel become base.            *)
Proceed(i, pc, base) ==
    /\ Goto(i, pc)
    /\ shown' = base
    /\ UNCHANGED <<generating, panel, fetches, aborted, active>>

Leave(i) == Finish(i, shown) /\ UNCHANGED <<database, used>>

(* The preflight is over: a chat is asked for, or the one known is used.     *)
Preflight(i) ==
    /\ At(i, "begin")
    /\ IF i \in aborted
       THEN Leave(i)
       ELSE /\ IF op[i].group = NoGroup
               THEN Proceed(i, "create", shown)
               ELSE Proceed(i, "question", shown \cup {<<i, "user">>})
            /\ UNCHANGED <<database, used>>

(* getChatGroupId: the chat exists; unless the submission was stopped, the   *)
(* running fetch of the list is cancelled, the list extended and asked for   *)
(* again, and the chat selected.  The question is shown at once.             *)
WithGroup(i) == IF listed.loaded
                THEN Loaded(listed.has \cup {i}, listed.seen) ELSE listed

(* Faulty variant of Relist: a running fetch of the list is not cancelled. *)
RelistJoins == IF mounted THEN Again(listing) ELSE Idle

Relist == IF mounted THEN Asked ELSE Idle

Created(i) ==
    /\ At(i, "create")
    /\ groups' = groups \cup {i}
    /\ IF i \in aborted
       THEN Finish(i, shown)
       ELSE /\ op' = [op EXCEPT ![i] = [pc |-> "question", group |-> i]]
            /\ Commit(shown \cup {<<i, "user">>}, generating, i, FALSE,
                      WithGroup(i), data)
            /\ listing' = Relist
            /\ UNCHANGED <<aborted, active, mounted, request>>
    /\ UNCHANGED <<saved, used>>

(* A call of the database or of the app fails.                               *)
Event == events < MaxEvents /\ events' = events + 1
Fails == Event /\ faults' = TRUE

(* Faulty variant of FailEarly: the question that was not stored is passed over. *)
FailEarlyIgnored(i) ==
    /\ op[i].pc \in {"create", "question", "context"}
    /\ Fails
    /\ IF At(i, "question") THEN Proceed(i, "context", shown)
                            ELSE Finish(i, shown)
    /\ UNCHANGED database

(* Before the stream a failure ends the submission without a word.           *)
FailEarly(i) ==
    /\ op[i].pc \in {"create", "question", "context"}
    /\ Fails
    /\ Finish(i, shown)
    /\ UNCHANGED database

QuestionSaved(i) ==
    /\ At(i, "question")
    /\ saved' = saved \cup {<<i, "user">>}
    /\ IF i \in aborted THEN Finish(i, shown) ELSE Proceed(i, "context", shown)
    /\ UNCHANGED <<groups, used>>

(* The note, the connection, the model and the history: stopped meanwhile,   *)
(* the submission ends before the stream is opened.                          *)
Context(i) ==
    /\ At(i, "context")
    /\ IF i \in aborted THEN Leave(i)
       ELSE Proceed(i, "stream", shown) /\ UNCHANGED <<database, used>>

(* Faulty variant of Chunk: a stopped submission still updates its message. *)
ChunkUnchecked(i) ==
    /\ At(i, "stream")
    /\ <<i, "answer">> \notin shown
    /\ Proceed(i, "stream", shown \cup {<<i, "answer">>})
    /\ UNCHANGED <<database, used>>

(* The throttled update of the message under way: nothing once stopped.      *)
Chunk(i) ==
    /\ At(i, "stream")
    /\ i \notin aborted
    /\ <<i, "answer">> \notin shown
    /\ Proceed(i, "stream", shown \cup {<<i, "answer">>})
    /\ UNCHANGED <<database, used>>

(* The stream ends: stopped; with an answer, shown before it is stored; or   *)
(* with an error or nothing, in which case the message under way may be      *)
(* taken back and the failure is told.                                       *)
Stopped(i) ==
    /\ At(i, "stream")
    /\ i \in aborted
    /\ Leave(i)

(* Faulty variant of Answered: the signal is not read after the stream. *)
AnsweredUnchecked(i) ==
    /\ At(i, "stream")
    /\ Proceed(i, "answer", shown \cup {<<i, "answer">>})
    /\ UNCHANGED <<database, used>>

Answered(i) ==
    /\ At(i, "stream")
    /\ i \notin aborted
    /\ Proceed(i, "answer", shown \cup {<<i, "answer">>})
    /\ UNCHANGED <<database, used>>

(* Faulty variant of Tell: an empty answer is passed over. *)
TellNothing(i, base) == Finish(i, base)

Tell(i, base) == Proceed(i, "report", base \cup {<<i, "failure">>})

StreamFails(i) ==
    /\ op[i].pc \in {"context", "stream"}
    /\ i \notin aborted
    /\ \E base \in {shown, shown \ {<<i, "answer">>}} : Tell(i, base)
    /\ UNCHANGED <<database, used>>

AnswerSaved(i) ==
    /\ At(i, "answer")
    /\ saved' = saved \cup {<<i, "answer">>}
    /\ Finish(i, shown)
    /\ UNCHANGED <<groups, used>>

AnswerLost(i) ==
    /\ At(i, "answer")
    /\ Fails
    /\ IF i \in aborted THEN Finish(i, shown) ELSE Tell(i, shown)
    /\ UNCHANGED database

ReportSaved(i) ==
    /\ At(i, "report")
    /\ Finish(i, shown)
    /\ \/ saved' = saved \cup {<<i, "failure">>} /\ UNCHANGED <<groups, used>>
       \/ Fails /\ UNCHANGED database

Step(i) ==
    \/ Preflight(i) \/ Created(i) \/ FailEarly(i) \/ QuestionSaved(i)
    \/ Context(i) \/ Stopped(i) \/ Answered(i) \/ StreamFails(i)
    \/ AnswerSaved(i) \/ AnswerLost(i) \/ ReportSaved(i)

-----------------------------------------------------------------------------
(* The user.                                                                 *)

(* Faulty variant of Abort: aborts without looking for a controller. *)
AbortUnchecked == aborted' = aborted \cup {active}

Abort == aborted' = aborted \cup ({active} \ {NoOp})

(* Stop is offered while the flag is set.  It aborts, and leaves the claim   *)
(* to the submission.                                                        *)
Stop ==
    /\ mounted /\ generating
    /\ active \notin aborted
    /\ Abort
    /\ UNCHANGED <<op, active, store, database, panel, fetches, used>>

Moves == Event /\ UNCHANGED faults

(* The panel's own button remembers the request as handled and leaves it;    *)
(* the shortcut's is consumed.                                               *)
NewChat ==
    /\ mounted
    /\ Moves
    /\ Abort
    /\ Commit({}, FALSE, NoGroup, TRUE, listed, data)
    /\ request' \in BOOLEAN
    /\ UNCHANGED <<op, active, database, mounted, listing>>

(* A chat chosen from the history.                                           *)
Select(g) ==
    /\ mounted
    /\ g \in listed.has \ {current}
    /\ Moves
    /\ Commit(shown, generating, g, newChat, listed, data)
    /\ UNCHANGED <<work, database, mounted, request, listing>>

(* The user leaves the note for another page, and comes back: the queries go *)
(* with the panel, the submission stays.  A New Chat request still kept is   *)
(* applied by the panel that opens.                                          *)
Close ==
    /\ mounted
    /\ mounted' = FALSE
    /\ listed' = NotLoaded /\ data' = NotLoaded
    /\ listing' = Idle /\ loading' = Idle
    /\ UNCHANGED <<current, newChat, request, previous, work, store, database, used>>

Open ==
    /\ ~mounted
    /\ mounted' = TRUE
    /\ listing' = Asked
    /\ request' = FALSE
    /\ IF request
       THEN /\ Abort
            /\ shown' = {} /\ generating' = FALSE /\ previous' = FALSE
            /\ current' = NoGroup /\ newChat' = TRUE
            /\ loading' = Idle
       ELSE /\ previous' = generating
            /\ loading' = IF current = NoGroup THEN Idle ELSE Asked
            /\ UNCHANGED <<aborted, store, current, newChat>>
    /\ UNCHANGED <<listed, data, op, active, database, used>>

(* The window is focused again: what is shown is fetched once more.          *)
Focus ==
    /\ mounted
    /\ Moves
    /\ listing' = Again(listing)
    /\ loading' = IF current = NoGroup THEN loading ELSE Again(loading)
    /\ UNCHANGED <<panel, work, store, database>>

-----------------------------------------------------------------------------
(* The queries: the database is read, the result arrives.                    *)

ReadList ==
    /\ listing.st = "asked"
    /\ listing' = [st |-> "read", got |-> Loaded(groups, saved)]
    /\ UNCHANGED <<loading, panel, work, store, database, used>>

ReadMessages ==
    /\ loading.st = "asked"
    /\ loading' = [st |-> "read", got |-> Loaded(Held(current), {})]
    /\ UNCHANGED <<listing, panel, work, store, database, used>>

(* An unchanged result is no change to the effects. *)
ListArrives ==
    /\ listing.st = "read"
    /\ listing' = Idle
    /\ IF listing.got = listed
       THEN UNCHANGED <<loading, panel, store>>
       ELSE Commit(shown, generating, current, newChat, listing.got, data)
            /\ UNCHANGED <<mounted, request>>
    /\ UNCHANGED <<work, database, used>>

MessagesArrive ==
    /\ loading.st = "read"
    /\ IF loading.got = data
       THEN loading' = Idle /\ UNCHANGED <<panel, store>>
       ELSE Commit(shown, generating, current, newChat, listed, loading.got)
            /\ UNCHANGED <<mounted, request>>
    /\ UNCHANGED <<listing, work, database, used>>

Queries == ReadList \/ ReadMessages \/ ListArrives \/ MessagesArrive

-----------------------------------------------------------------------------
Next ==
    \/ \E i \in Ops : Submit(i) \/ Step(i) \/ Chunk(i)
    \/ Stop \/ NewChat \/ (\E g \in Groups : Select(g)) \/ Close \/ Open \/ Focus
    \/ Queries

Spec == Init /\ [][Next]_vars

(* Every call returns and every stream ends, so that the submission under    *)
(* way takes its next step: streams of cloud providers within 120 seconds, of *)
(* other endpoints by assumption.  Nothing is asked of the user or the queries.*)
FairSpec == Spec /\ WF_vars(\E i \in Ops : Step(i))

-----------------------------------------------------------------------------
Stages == {"new", "begin", "create", "question", "context", "stream", "answer",
           "report", "done"}
Caches(S) == [loaded : BOOLEAN, has : SUBSET S, seen : SUBSET Messages]
Fetches(S) == [st : {"idle", "asked", "read"}, got : Caches(S)]

TypeOK ==
    /\ op \in [Ops -> [pc : Stages, group : Groups \cup {NoGroup}]]
    /\ aborted \subseteq Ops
    /\ active \in Ops \cup {NoOp}
    /\ groups \subseteq Groups
    /\ saved \subseteq Messages
    /\ generating \in BOOLEAN
    /\ shown \subseteq Messages
    /\ current \in Groups \cup {NoGroup}
    /\ newChat \in BOOLEAN /\ request \in BOOLEAN /\ mounted \in BOOLEAN /\ previous \in BOOLEAN
    /\ listed \in Caches(Groups) /\ data \in Caches(Messages)
    /\ listing \in Fetches(Groups) /\ loading \in Fetches(Messages)
    /\ events \in 0 .. MaxEvents /\ faults \in BOOLEAN

(* A submission under way holds the note's claim, also after New Chat has    *)
(* cleared the flag, so that there is never a second; and the flag is only   *)
(* set for a submission that has not been dismissed by New Chat.             *)
Running == {i \in Ops : op[i].pc \notin {"new", "done"}}
OneSubmission ==
    /\ Running = {active} \ {NoOp}
    /\ generating => active # NoOp

(* A new chat shows nothing of the submission it put an end to, wherever     *)
(* that one was, nor of the chats before it.                                 *)
NewChatIsEmpty == newChat /\ current = NoGroup => shown = {}

(* An answer in the database follows a question in the database.             *)
AnswersHaveQuestions ==
    \A i \in Ops : {<<i, "answer">>, <<i, "failure">>} \cap saved # {}
                     => <<i, "user">> \in saved

(* A stopped submission adds nothing: nothing to the panel except what the   *)
(* database holds, and nothing to the database except what was on its way.   *)
StoppedStaysSilent ==
    [][\A i \in aborted, r \in {"user", "answer", "failure"} :
         /\ <<i, r>> \in saved' \ saved =>
              At(i, CASE r = "user" -> "question" [] r = "answer" -> "answer"
                      [] r = "failure" -> "report")
         /\ <<i, r>> \in shown' \ shown => <<i, r>> \in saved]_vars

(* A selected chat is only replaced by the user, or by the chat of a         *)
(* submission: a list read before that chat existed does not take it away.   *)
SelectionStays ==
    [][current # NoGroup /\ current' # current
         => \/ current' = NoGroup /\ newChat'
            \/ \E g \in Groups : Select(g)
            \/ \E i \in Ops : Created(i)]_vars

(* Every submission ends with an answer or an error in the database, unless  *)
(* it was stopped or a call failed.                                          *)
EverySubmissionEnds ==
    \A i \in Ops : At(i, "begin") ~>
        /\ At(i, "done")
        /\ \/ saved \cap {<<i, "answer">>, <<i, "failure">>} # {}
           \/ i \in aborted
           \/ faults

(* The parts of the inductive invariant.  What the queries hold has been     *)
(* saved; the selected chat is known to every list, also to one on its way.  *)
CachesAreSaved ==
    /\ data.has \subseteq saved
    /\ loading.got.has \subseteq saved

SelectionIsListed ==
    /\ listed.has \subseteq groups
    /\ listed.loaded => current \in listed.has \cup {NoGroup}
    /\ current \in groups \cup {NoGroup}
    /\ listing.st = "read" =>
         /\ current \in listing.got.has \cup {NoGroup}
         /\ listed.has \subseteq listing.got.has
         /\ listing.got.has \subseteq groups

(* Past its question a submission has stored it. *)
QuestionsAreSaved ==
    \A i \in Ops : op[i].pc \in {"context", "stream", "answer", "report"}
                     => <<i, "user">> \in saved

(* In a new chat the submission under way is new too, unless it is aborted. *)
NewChatIsCreated ==
    newChat /\ current = NoGroup =>
      \A i \in Running \ aborted :
        op[i].pc \in {"begin", "create"} /\ op[i].group = NoGroup

IInv ==
    /\ TypeOK /\ OneSubmission /\ AnswersHaveQuestions /\ QuestionsAreSaved
    /\ CachesAreSaved /\ SelectionIsListed /\ NewChatIsEmpty /\ NewChatIsCreated

(* A new chat is begun when the user asks for one.  Does NOT hold: Open may  *)
(* apply a request of the button again.                                      *)
NewChatOnce == [][~newChat /\ newChat' => NewChat]_vars

(* An answer that is stored and shown in the selected chat stays there until *)
(* the user goes elsewhere.  Does NOT hold: messages read before the answer  *)
(* was stored may arrive after the run that leaves the messages alone.       *)
FinalAnswerStays ==
    [][\A i \in Ops :
         /\ <<i, "answer">> \in shown \cap saved
         /\ op[i].group = current /\ current' = current
         => <<i, "answer">> \in shown']_vars
=============================================================================
