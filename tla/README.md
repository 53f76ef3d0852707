# TLA+ models of Typr

Typr is a desktop note taker (a Tauri application) that records a meeting,
streams the audio to a speech model, stores the transcript in a local database
and has a language model write a summary when the recording is over. This
directory holds TLA+ modules of the parts of it that are concurrent, stateful
and hard to test, TLC configurations that check them, and TLAPS proofs about
all of them. Paths below are relative to the root of the repository.

## The system: parts, state, interaction

| Part | Where | State | Operations | Status |
|---|---|---|---|---|
| Recording session | `plugins/listener/src/{fsm,completion,events,ext}.rs` | the state machine (inactive, running active, running paused), the pipeline (audio tasks, transcript task, watch and mute channels), the published status, the completion verdict | start, stop, pause, resume, mute, microphone change, reconnect, completion | **modelled** (`RecordingSession`), audio data left out |
| Watchdog policy | `plugins/listener/src/policy.rs` | last warning, triggered flags | evaluate | planned (`Watchdog`); a free choice of the session model today |
| Turn merge | `fsm.rs` 2580-2680 | per-turn progress | merge of cumulative turns | planned (`TurnMerge`) |
| Streaming provider client | `plugins/listener/src/client.rs` | provider sessions, rollover | open, roll over, drain | planned (`AaiRollover`) |
| WebSocket transport | `crates/ws/src/client.rs` | two socket halves | connect with retry, send, keep-alive, close | planned (`WsStream`) |
| Meeting end detection | `plugins/notification/src/call_end.rs` | bound call, deadline, permit | observe, associate, stop | **modelled** (`CallEnd`) |
| Call recognition | `crates/detect/src/call` | none | scan | an input of `CallEnd`: platform code |
| Summary worker | `apps/desktop/src/contexts/background-enhance.tsx` | rows being summarised | poll, claim, generate, save | **modelled** (`SummaryWorker`), prompts and streaming left out |
| Knowledge jobs | `crates/db-user/src/project_knowledge_jobs_ops.rs`, `apps/desktop/src/lib/project-{knowledge,knowledge-jobs,briefs}.ts`, `components/projects/project-knowledge-job-runner.tsx` | job rows, digests, synthesis, brief, what each window runs | enqueue, claim, run, retry, release, reclaim, mark | **modelled** (`KnowledgeJobs`), texts and prompts left out |
| Chat beside a note | `apps/desktop/src/components/right-panel` (`useChatLogic`, `useChatQueries`, `chat-generation`, `chat-view`), `stores/useChatState.ts` | submissions, their claim on the note, the panel, two cached queries | submit, stop, new chat, select, refetch | **modelled** (`Chat`), the editing of selections and the floating surface left out |
| Persistence of note edits | `packages/utils/src/stores/session.ts` | pending edits, the chain of writes | edit, flush, write, acknowledge, refresh | **modelled** (`NoteStore`) |
| Meeting prompts | `plugins/notification/src/lifecycle.rs` | recent signals, session mark | decide, mark | planned (`MeetingLifecycle`) |
| Local speech servers | `plugins/local-stt` | loaded model, running servers | start, stop, serve | planned (`NemotronServe`) |
| Others | configuration, calendars, connectors, MCP server, editor | | | not modelled: I/O, layout or stored settings without a protocol |

How they interact: the interface sends commands to the session through the
listener plugin, which locks `SharedState` and holds the lock across every
await of the handler. The session spawns audio tasks and one transcript task
per pipeline. The transcript task does not take the lock: it shares the
published status, the session-state watch and two flags with the handler, and
writes the words of the note to the database. A stream that ends by accident
spawns a reconnect coordinator, which sleeps and then takes the lock; a
watchdog spawns a task that takes the lock and stops. Stopping drains the
transcript task and only then publishes the completion columns of the row
(`record_end`, `needs_enhance`), which the summary worker polls.

Beside the session, meeting end detection polls the published status and the
calls on the desktop and stops the recording whose call is over; it shares with
its stop tasks a permit that it can revoke while they queue on the listener
lock. The summary worker runs in each window and shares nothing with the other
windows but the rows of the database. So do the runners of knowledge jobs: a
table with a unique index on the keys of active jobs is all that keeps them
apart. The chat and the note store live in one window; what is concurrent in
them is their own past, promises that resume after the user has gone on, and
queries that answer with what was true when they were asked.

What is hard here: tasks that outlive the pipeline they belong to, delayed
tasks keyed only by the note's id, two owners of one status, failure in the
middle of a rebuild, retries on top of retries under a lock, completion that
must come after the last write, stops that wait behind the lock while the
reason for them goes away, summaries of a row that changed meanwhile, jobs that
are taken from a window which still runs them, and answers, lists and
acknowledgements that arrive after the question has changed. What makes each
part correct:

- Recording session: a recording that lost transcript in any of its pipelines
  is never queued for a summary; nothing is appended to a completed row; no
  task is lost in a rebuild; an inactive session stays so; the lock is always
  released and a reconnect always reaches a verdict.
- Meeting end detection: an automatic stop that takes effect is justified by
  everything observed since the call was bound, it is the only one, and it hits
  that recording and not the next; a call that stays over does stop it.
- Summary worker: completed recordings stay queued until their own summary is
  stored, one worker at a time, never over what the user wrote, and the queue
  drains.
- Knowledge jobs: jobs of one key are never active twice, none is left Running
  by a window that is still there, none is tried for ever, no brief is left
  Building; after the last edit the brief comes to rest on the sources.
- Chat: one submission at a time, whatever the flag in the panel says; one that
  was stopped adds nothing, to the panel or to the database; a new chat is
  empty; every submission ends with an answer or an error that is stored.
- Note store: an edit is pending until it is in the row, carried by a write
  while it is pending, not sent again once a write of it was answered, never
  written after a newer one, and reaches the row.
- To be stated for the planned parts: every word of the meeting is emitted
  exactly once over a rollover (`AaiRollover`) and over revised turns
  (`TurnMerge`); no stop without its warning (`Watchdog`); a close is clean
  only if everything was sent and acknowledged (`WsStream`).

## Modules

`RecordingSession.tla` is the core. One action is one stretch of code between
two awaits at which another task may do something that matters.

| State | Code |
|---|---|
| `state`, `session`, `recordingStarted`, `failed` | the statig state, `session_id`, `recording_started`, `recording_completion.failed` |
| `task`, `tasksUp`, `streaming` | `transcript_task`, `tasks.is_some()`, `is_streaming_stt` |
| `handler` | who holds the lock of `SharedState` and at which await: `closing`, `awaiting`, `completing` (a stop), `closing` to `verifying` (a rebuild), `restarting`, `resetting` (the fallback), `judging` (a coordinator) |
| `status`, `watch`, `muted` | `pipeline_status`, `session_state_tx`, `mic_muted_tx` and `speaker_muted_tx` |
| `monitors`, `coords`, `autoStops` | transcript tasks, reconnect coordinators, stop tasks of the watchdog |
| `rows` | `record_start`, `record_end`, `needs_enhance` and "at least five words" of the sessions table |
| `gap` | history only: the current recording lost transcript |

Actions: `StartSucceeds`, `StartFails`, `StartOther`, `Stop`, `Pause`, `Resume`,
`MicChange`, `Mute` (commands); `CloseInput`, `Join`, `DrainTimesOut`,
`CompleteStop`, `Detach`, `Rebuild`, `Verified`, `NotVerified`, `Discard`,
`Restart` (the handler); `Announce`, `Abandon`, `Reconnect`, `Judge`, `GiveUp`
(coordinators); `ConnectSucceeds`, `MarkActive`, `StreamFails`, `WordsStored`,
`WordsLost`, `WatchdogFires`, `StreamEnds` (transcript tasks); `Crash`.

What the audio and the words are is data and left out; words matter only as
"stored" or "lost". A transcript task that connects, reads a chunk, stores words and
returns takes these steps in any order the code allows, against every step of
the handler. The names `Monitors` and `Coordinators` are reused when a task is
joined or ends.

`RecordingContract.tla` is the abstract specification: what readers of a row
may rely on (at most one note is recorded; a row is closed when its recording
ends; it is queued only if nothing was lost). `RecordingRefinement.tla` maps
the session onto it: `Recorded` (`session_id`, or the note of the recovery that
is falling back), `gap`, and the two columns. Every action of the session is a
step of the contract or invisible in it:

| Contract | Session |
|---|---|
| `Begin` | `StartSucceeds` |
| `BeginFails` | `StartFails` after the row was opened |
| `Lose` | a transcript task that returns with losses or too early (`StreamFails`, `StreamEnds`), or is aborted before it returned (`DrainTimesOut`, `Detach`, `Discard`) |
| `Finish` | `CompleteStop` that writes the row |
| `Vanish` | `Crash`; `CompleteStop` whose write fails; `Restart` or `Judge` at the end of a recovery whose last setup failed |
| stutter | everything else |

`ListenerContract.tla` is the other half, for those who follow the published
status, as meeting end detection does: the status names one note from the
beginning of a recording to its end (`shown`), and is not `live` when it
begins. `Shown` and `ShownLive` of `RecordingRefinement` read it off
`status`: a status that is inactive, or that a recovery left without a note,
names none.

| Contract | Session |
|---|---|
| `Begins` | `StartSucceeds` |
| `Ends` | `Stop`, `StartOther`, `WatchdogStop`, `Crash`; the recovery's `Restart` whose setup failed after the teardown and that lost the note |
| `PhaseChanges` | whatever moves the phase between live (active, paused, reconnecting) and not |
| stutter | everything else, also pauses and reconnects, which stay live |

`CallEnd.tla` models `call_end.rs` with its polling task, its stop tasks and
the listener it talks to.

| State | Code |
|---|---|
| `ctl`, `valid` | `Controller` with the service's `bound_source`; the permits (`Arc<AtomicBool>`) that still read true |
| `poll` | the 1 s interval task: where it awaits, what it read, and whether `revision` is still as read |
| `stops` | tasks inside `stop_session_if_matching`, queued on the listener lock or back from it |
| `rec`, `runs` | the listener as seen through its status: note, start instant, live |
| `calls`, `tcc` | what a scan finds; the permission of the system |
| `quiet`, `asked` | history only: how long the bound call was observed as ended; the run the user bound it in |

Actions: `SetEnabled`, `PollStatus`, `Associate`, `UserStop` (commands of the
interface); `TickBegins`, `ReadPipeline`, `SyncRecording`, `TakeSnapshot`,
`ScanCalls`, `ScanFails`, `Apply` (the poll, one action per await or lock);
`HandleStop`, `FinishStop` (a stop task); `RecordingBegins`, `PhaseChanges`,
`RecordingEnds` (the listener: `ListenerContract`, and an instant for each
run); `CallChanges`, `PermissionChanges`, `Elapse` (the world).

What the listener may do here is what `RecordingSession` is proved to do, see
below. Two remarks on the join. `run` stands for `started_at`, which
`set_pipeline_phase` sets with the first phase and clears with Inactive. And
`Matches` leaves out the third condition of `stop_session_if_matching`, that
the state is a running one, since `StatusNamesRecording` shows that it follows
from the other two. One reading is not kept apart: a running session whose
recovery lost its note shows no note with a `started_at`; to `CallEnd` that is
no recording, where the code would once more reset a controller that is empty.

`SummaryWorker.tla` models `background-enhance.tsx` with every writer of the
row it works on.

| State | Code |
|---|---|
| `rows` | words, `enhanced_memo_html`, the words of the generated summary, title, `record_start`, `record_end`, `needs_enhance` |
| `live` | whether the listener is setting up or recording the note |
| `workers`, `inFlight` | the loop of each mounted worker with the row it read and its `retryAfter`; the set shared by the main window |
| `titles` | title generations that nobody awaits |
| `owed` | history only: the transcript completed and not yet summarised |

Actions: `Poll`, `NextNote`, `Read`, `Clear`, `Claim`, `GenerateFails`,
`RetryOver`, `SaveRecording`, `SaveImport`, `LoopEnds` (a worker); `TitleFails`,
`TitleRecording`, `TitleRead`, `TitleWrite` (a title); `Begin`, `SetupFails`,
`Started`, `Append`, `Complete` (the listener's SQL); `EditSummary`,
`EditTitle` (the user); `Crash`.

`SummaryContract.tla` is what they promise together to a reader of the row: the
recording goes as `RecordingContract` says (of which it takes an instance), its
transcript grows while it goes on, and a queued note gets, once, the summary of
the transcript it is queued with. `SummaryRefinement.tla` maps the rows onto it.
So the listener half of `SummaryWorker` and `RecordingSession` implement the
same contract.

`KnowledgeJobs.tla` models one project: its sources, what is compiled from
them, and the queue through which every window works.

| State | Code |
|---|---|
| `source`, `digests`, `synthesis`, `brief`, `cited` | the texts of the sources; the tables of digests, syntheses, briefs and the sources a brief cites, each as the texts it was made from |
| `jobs` | `project_knowledge_jobs`: status and attempts, several rows for a key of which one may be active |
| `work` | `runProjectKnowledgeJob` per window and job: what it awaits, the job as it was claimed, the sources and the brief it read |
| `asks`, `timers` | `markProjectBriefNeedsRefresh` and `enqueueProjectBriefRefreshJob` under way; the five-second timer of `project-brief-refresh-scheduler.ts` |
| `open`, `lost` | which windows run; history: the jobs that a closed window left |

Actions: `ClaimDigest`, `ClaimSynthesis`, `ClaimBrief`, `ClaimAgain` (the
poller, with the first read of the job); `DigestStore`, `SynthesisRead`,
`SynthesisStore`, `BriefCards`, `BriefStore`, `BriefCite` (a job after each
await); `Edit`, `Mark`, `Look`, `WriteBack`, `AutoRefresh`, `Request` (what asks
for a brief); `Close`, `Mount` (a window, with `reclaimStaleJobs`).

A hash of a text is the text and a fingerprint the texts it was made of: two
texts never collide. Reads that one `Promise.all` or one run of enqueuing makes
are one step, and so are claiming and the first read. Which queued job is the
oldest is left open, a retry may start at once. Left out: pollers that overlap
themselves, chunks of long sources, the records of refreshes, the choice of a
provider, errors of the database.

`Chat.tla` models one note, the panel in the sidebar, in Ask mode (editing is
off in this build: `lib/features.ts:6`).

| State | Code |
|---|---|
| `op`, `aborted` | the async body of each submission between its awaits, with the chat it writes to; its `AbortController` |
| `active`, `generating` | the note's claim in `chat-generation.ts`; the flag of the store, which the button shows |
| `shown`, `current`, `newChat`, `request`, `mounted` | messages and selection of the panel, the pending new chat, the request kept by the button, whether the panel is open |
| `groups`, `saved` | the chats and messages of the database |
| `listed`, `data`, `listing`, `loading` | the two cached queries and their fetches under way, each read and then delivered |
| `previous` | `prevIsGenerating` of the effect that copies the cache to the panel |

Actions: `Submit`, `Preflight`, `Created`, `QuestionSaved`, `Context`, `Chunk`,
`Stopped`, `Answered`, `AnswerSaved`, `AnswerLost`, `StreamFails`,
`ReportSaved`, `FailEarly` (a submission); `Stop`, `NewChat`, `Select`, `Close`,
`Open`, `Focus` (the user); `ReadList`, `ReadMessages`, `ListArrives`,
`MessagesArrive` (the queries). The two effects are part of every action that
changes what they depend on (`Commit`).

Left out: message texts and parts, tools, the floating surface and its own
panel, selections. The fall-back stream of a provider that fails is part of the
end of the stream, the animation frame of an update part of `Chunk`; a call that
the debounce rejects changes nothing; the latest chat is any chat of the list.

`NoteStore.tla` models one store. A revision number stands for a text.

| State | Code |
|---|---|
| `note`, `pending`, `due` | `session`, `pendingUpdates`, the timer of `debouncedFlush` |
| `queue`, `sent`, `stage` | the promise chain `writes`: each write with the edits it closed over, what the first one sent, where it awaits |
| `row`, `fetched` | the columns of the database; a row that `refresh` (or `insert` of a note already open) has read |
| `latest`, `known` | history only: the last edit of each field, and the last one whose write was answered for |

Actions: `Edit` (typed, or forced as restored and generated texts are), `Flush`,
`FlushNow`, `Start`, `Stored`, `Refused`, `Unread`, `Acknowledge`, `ReadRow`, `ShowRow`. A write
fails before its update (`Refused`) or after it, when
`update_session_note_fields` cannot read the row again for its answer
(`Unread`): then the edit is in the row and stays pending. Other writers of the
row are left out, `row` is what this store made of it.
`showRaw` and the listener told after a write are left out: nothing of the
edits depends on them.

The `MC` modules instantiate these for TLC, and each has its proofs in a module
of its own: `RecordingTypeProofs`, `RecordingSafetyProofs` and
`RecordingRefinementProofs`, `CallEndProofs`, `SummaryProofs`,
`KnowledgeJobsProofs`, `ChatProofs`, `NoteStoreProofs`.

## What the runs check

| Run | Instance | What it shows |
|---|---|---|
| `recording_safety` | one note, two task names, one coordinator, one muteable input, 2 attempts, 1 retry, all setup failures | types, `SummaryOnlyAfterFullDrain`, `ClosedRowIsFinal`, `NoOrphanMonitor`, `InactiveIsQuiet`, `NoRevival` |
| `recording_contract` | two notes, 1 attempt, no retry, setups fail at the look-up | `Implements`: `RecordingContract` and `ListenerContract` across two recordings |
| `recording_liveness` | one note, one task name, 2 attempts, 1 retry, all setup failures | `HandlerReturns`, `CoordinatorEnds`, `ReconnectSettles` |
| `call_end` | one note recorded twice, one call, two permits, grace of one step | `AutomaticStopIsJustified`, `StopsOnce`, `ScanIsOfBoundCall`, `StopsOnlyItsRecording`, `EndedCallStops` |
| `summary_recordings` | one note recorded twice, two windows and a remount, two edits | `RecordedWorkIsDurable`, `OneConsumer`, `EditsSurvive`, `Implements` (`SummaryContract`) |
| `summary_liveness` | two notes, recordings and imports | `QueueDrains` |
| `knowledge_windows` | two windows, one source with two texts, two rows for a key, slow jobs, one edit, one window closed, one failure | `OneActivePerKey`, `RunningIsExecuted`, `BuildingIsBuilt` |
| `knowledge_settles` | one window, one source with two texts, two edits, two failures | `AttemptsBounded`, `PageSettles` |
| `chat_submissions` | one past chat, two submissions, one failure, new chat, selection or refetch | `OneSubmission`, `NewChatIsEmpty`, `AnswersHaveQuestions`, `StoppedStaysSilent`, `SelectionStays`, `EverySubmissionEnds` |
| `note_store` | two fields, four edits, one failed write, one refresh, flushes chained up to two | `EditsAreCarried`, `LastEditIsKept`, `WritesGoForward`, `EditsReachTheRow` |

The first run of each module also checks its `TypeOK`. Two more runs end in a
counterexample, each a disagreement between the code and its own comments or
docs (`findings` of PROJECT.json quotes them):

- `paused_is_silent`: a microphone change while paused builds a pipeline whose
  watch reads active, so audio is processed in a paused session, where the loop's
  comment has it stopped completely, for privacy.
- `brief_is_served`: a source goes from one text to another and back while the
  synthesis of the first is being made: the new request finds a job of its key
  running and queues none, but that job has read the other text. The brief that
  waits for the synthesis of the sources as they are is released and claimed
  again without end, and the page takes it for a refresh under way.

### What does not hold, and is not among the runs

These are stated in the modules, with a comment that says so. Each is what a
reader would expect of the code, and TLC refutes each on the instance given here
(put the name into a configuration of the module in place of its properties):

| Property | Instance | Counterexample |
|---|---|---|
| `StopEndsReconnects` (`RecordingSession`) | that of `recording_safety` | a coordinator that sleeps over a Stop and a Start of the same note rebuilds the pipeline of the new recording |
| `FailedMeansDead` (`RecordingSession`) | that of `recording_safety` | a coordinator judges the phase before the task that connected has published Active; at the last attempt a live stream is published, and stays, Failed |
| `ReportedMuteIsReal` (`RecordingSession`) | that of `recording_safety` | a rebuild opens muted inputs and goes on reporting them as disabled |
| `RecordedWorkIsDurable` (`SummaryWorker`), with imports | that of `summary_liveness` with one note, a window `other` beside `main`, `Kinds = {"import"}` | the worker writes an imported row back as a whole, over a recording that began since it was read, which is then never summarised |
| `CurrentIsOfItsSources` (`KnowledgeJobs`) | that of `knowledge_windows` with one window, one row for a key, no slow jobs, three edits, none closed | a request has read the sources and the brief that fits them; before it writes that brief back as Current with their fingerprint, a whole brief job stores and cites another, and what is written back is not made of what it is marked with (`project-briefs.ts:514-554`) |
| `NewChatOnce` (`Chat`) | `MaxOps` 1, `MaxEvents` 2 | the button leaves its request behind; closed and opened again, the panel applies it once more, aborts the running answer and deselects its chat |
| `WrittenOnce` (`NoteStore`) | that of `note_store` | a write updates the row and fails to read it again (`sessions_recording_ops.rs:74`), so the next flush writes the same edit once more; whatever another writer, the summary or the title, stored in that field meanwhile is overwritten by the older edit |
| `FinalAnswerStays` (`Chat`) | that of `chat_submissions` | messages read before the answer was stored arrive after it: the answer leaves the panel until the next fetch |

### Bounds, and why they are enough

- Sessions. Every guard compares a session with itself or with the current one;
  one note covers Stop and Start of the same note, two cover a task of one note
  that meets the other.
- Monitors. Two: the task of a pipeline and that of its successor. A third
  would need an orphan, and `NoOrphanMonitor` (proved for any number) says
  there is none. For that reason one name, reused, is enough where safety is not
  the question (`recording_liveness`).
- Coordinators. One, which may belong to the current or to an earlier recording
  of the note. Two that coexist take turns under the lock and are not run; the
  theorems hold for any number of them.
- `MaxAttempts` and `MaxRetries` are 3 and 1 in the code
  (`STREAM_RECONNECT_DELAYS_SECS`, `MAX_RETRIES`). Retries are as in the code
  where retries matter; of the three attempts two are kept, an attempt that is
  followed by another and a last one, which is all the coordinator tells apart.
- `SetupFaults` names where a setup fails: before the session is set, before
  the channels are replaced, or after. The contract run keeps the first only,
  for the size of the state space; the proof of `RefinesContract` has no such
  bound.
- `Grace` is 120 seconds of one-second polls in the code. One step lets the
  countdown end at once, two let it be interrupted between its beginning and
  its end. `Permits` bounds how many stop tasks and controllers hold a permit.
- `MaxRuns` 2 lets a late summary or stop meet the next recording of its note.
  `MaxWords` 2 distinguishes the transcripts of two recordings, `MaxEdits` 2 an
  edit made before from one made after the row was read. Workers: two mounts of
  one window, which share `inFlight`, and one of another, which does not.
- KnowledgeJobs. Two windows are a job's owner and the one that takes it over;
  two texts of one source make a digest stale, wrong or right again; a second
  source would only add digests, which nothing compares with each other. Two
  rows of a key are one that a slow runner will still write and the one that is
  active. `MaxAttempts` is 3 in the code; 2 keeps a try that may be repeated and
  a last one (`brief_is_served` has 3).
- Chat. `MaxOps` 2 lets a submission meet what is left of the one before it,
  `MaxEvents` 1 puts one failure, new chat, selection or refetch at any of their
  awaits. `Past` has one chat: one that is not the submission's.
- NoteStore. Two fields and four edits: an edit that is overtaken in its own
  field, one of another field that is not, and one after the acknowledgement.
  One failure, before the update or after it. `MaxQueue` bounds the flushes at
  will; forced edits chain further writes.
- Every one of these bounds is a constant of the theorems, which hold for all
  its values.

### Fairness

- Session: the handler that holds the lock is weakly fair, for each of its
  awaits ends or times out. `SharedState` is a FIFO mutex, so a coordinator gets
  it even if other handlers keep taking it: its steps are strongly fair. A
  websocket connects or gives up (weak fairness), and a task that has connected
  gets to publish Active unless it is aborted first, which cannot befall every
  one of them (strong fairness). Nothing is assumed of the user, of connected
  streams, of watchdogs or of the microphones, except where a property names it
  (`ReconnectSettles`: the microphones stop changing).
- CallEnd: the interval ticks, a spawned stop gets the lock and time passes.
- SummaryWorker: timers fire and every await of a worker or title ends, as
  generations have time limits. `QueueDrains` assumes that, from some time on,
  generations succeed, the application runs and the notes are left alone.
- KnowledgeJobs: the poller of an open window claims some job (every two
  seconds), and what a job awaits answers (weak fairness on claiming and on
  running, per window). Timers fire and requests go on; an edit while a request
  is under way postpones the next, not for ever (strong fairness of `Mark`);
  the page of the project is open and asks by itself whenever it may (strong
  fairness of `AutoRefresh`). `PageSettles` assumes that from some time on no
  window is closed and none has left a job behind.
- Chat: some submission goes on if one can (weak fairness): a stream ends or
  fails. The code sees to that for the cloud providers, whose requests are given
  120 seconds (`plugins/sse/src/ext.rs:50`); a local or custom endpoint is asked
  through the HTTP plugin without a limit (`packages/utils/src/fetch.ts:47`), and
  there it is an assumption on the endpoint. Nothing is asked of the user or of
  the queries, so an answer is stored even if the panel is never opened again.
- NoteStore: the debounce elapses, and the database answers or refuses (weak
  fairness of `Flush` and `Write`).

## What is proved

The proofs assume of the constants what each module states of them
(`ConstantsAssumption`, `CallEndAssumption`, `NoNoteAssumption` and so on: the
null values are not elements, bounds are natural numbers, there are finitely
many windows), so they hold for any number of notes, tasks, windows, permits,
submissions, attempts and edits. Unless said otherwise they have the form Init
=> `IInv`, `IInv` is kept by every action, `IInv` implies the property; TLC
checked each `IInv` first.

- `Typing` (`RecordingTypeProofs`): `TypeOK`, with one step for each action.
- `Invariance` (`RecordingSafetyProofs`): the inductive invariant `IInv`. None
  of the safety properties is inductive by itself: that a queued row lost
  nothing depends on what the stop handler knows at its last step, which depends
  on what every rebuild before it recorded. `IInv` therefore adds
  `HandlerShape` (where a handler may be and what it holds there),
  `PhaseShape` (published phase and state agree about inactivity), `TaskShape`
  (a name is in use exactly while it serves a session) and, at its heart,
  `LossIsKnown`: while a note is bound to the pipeline its row is open, and
  whatever was lost of it is in `failed` already or in the outcome of the one
  task that nobody read yet. Draining moves it from the second place to the
  first, and completion reads the first. One lemma for each conjunct, one step
  for each action.
- `OnlyDrainedIsSummarized`, `ClosedIsFinal`, `NoOrphans`,
  `InactiveHoldsNothing`, `InactiveStays`: the five safety properties of
  `recording_safety` follow from it.
- `RefinesContract` (`RecordingRefinementProofs`): `Spec => Implements`, both
  contracts. `RefinesRowContract` needs one more invariant, `OneNote` (the
  transcript task belongs to the note that is being recorded). Lemmas
  `RowsKept`, `RowReopened` and `RowCompleted` say what a row update is in the
  contract; `ByStutter`, `ByLoss` and `ByVanishing` turn a class of actions into
  its step; `RefinementStep` takes the actions one by one.
  `RefinesStatusContract` needs `StatusNote`: while a session runs the status
  names the note it is bound to, also across a fallback, which tears the session
  down and binds it anew. Hence `StatusNamesRecording`: who holds the lock and
  finds the status naming a note finds that note running.
- `CallEndInvariance` (`CallEndProofs`) and from it `CallEndTyping`,
  `CallEndIsJustified`, `CallEndStopsOnce`, `CallEndScansBoundCall` and, as an
  action property, `CallEndStopsItsRecording`. A queued stop knows its permit and its
  recording, not why it was asked for; `IInv` keeps the reason:
  `PermitIsCurrent` (the only permit that is ever valid is the controller's),
  `RequestIsKnown` (the stop that holds it is the one the controller remembers,
  and alone), `CountdownIsHonest` (the countdown is never ahead of the time the
  call was seen ended), `RunsAreKnown` (the user bound a call in the run the
  controller knows) and `ScanIsFresh` (an unchanged revision means the call that
  was scanned is still bound).
- `CallEndCoversListener` and `CallEndKeepsListener` join the two: every step of
  `ListenerContract`, taken in any state of the service, the poll and the stop
  tasks, is a step of the listener of `CallEnd` while runs are left, and that
  listener takes no other. With `RefinesStatusContract`, what is proved of
  automatic stops rests on no assumption about the recording session but that
  each run has an instant of its own.
- `SummaryInvariance` (`SummaryProofs`) and from it `SummaryTyping`, for
  recordings and imports, and without imports `SummaryDurability`,
  `SummaryOneConsumer` and `SummaryKeepsEdits`. The parts of `IInv`:
  `OneIsLive`; `MarksAreOfRecordings` (a mark stands on a recording that is over,
  what is owed is the transcript under the mark); `WorkIsOfRecordings` (a worker
  or a title never holds the snapshot of a row it could write back as a whole);
  `ConsumersAreInFlight` (who reads or generates is of the main window, in
  flight, and alone with its note: the look at the set and the entry into it are
  one step, without an await between them). With imports the second and third
  fail, and so does the theorem, see above.
- `SummaryRefinesContract` (`SummaryProofs`), without imports: the workers of all
  windows, the titles and the user add nothing to `RecordingContract` but that a
  mark is taken, once, with the summary of the transcript it stands for; no
  write of a snapshot opens, closes or queues a note. What a recording lost is
  decided before its row is written, so `lossy` is mapped to FALSE and whether
  completion queues the note is left to the listener.
- `KnowledgeInvariance` (`KnowledgeJobsProofs`) and from it `KnowledgeTyping`,
  `KnowledgeOnePerKey`, `KnowledgeRunningIsExecuted` and
  `KnowledgeBuildingIsBuilt`, which are inductive together with `WorkHasRead`.
  A late runner writes a row by its id whatever became of it; what is to be
  shown is that such a write never makes active a row beside another of its key
  (`Rejected`: the unique index), and never leaves Running one that nobody
  executes. Lemmas say once what queuing, beginning and ending a job do.
- `KnowledgeAttempts`: `AttemptsBounded`, from `AttemptsCounted`, which is
  inductive relative to the types. For each job the executors are at most one
  more than the windows that were opened again (a reclaimed job may still run
  where it was taken from), and its attempts together with the executors that
  would yet queue it again stay within the limit and these windows: an attempt
  beyond the limit is paid by an executor that ends. Giving an attempt back while
  a brief waits (`releaseJob`) is what makes this a count and not a guard. Where
  no job outlasts the five minutes after which it is reclaimed, nothing is added
  to the limit.
- `ChatInvariance` (`ChatProofs`) and from it `ChatTyping`, `ChatOneSubmission`,
  `ChatNewIsEmpty`, `ChatAnswersHaveQuestions` and the action properties
  `ChatStopIsFinal` and `ChatSelectionStays`. `CachesAreSaved` and
  `SelectionIsListed` say how old the queries' answers may be (what they hold
  was stored; the selected chat is on the list, also on one under way, which is
  why the code cancels the fetch before it extends the list);
  `QuestionsAreSaved` and `NewChatIsCreated` where a submission may be.
- `NoteInvariance` (`NoteStoreProofs`) and from it `NoteTyping`,
  `NoteKeepsLastEdit`, `NoteCarriesEdits` and `NoteWritesForward`. `Numbered`,
  `PendingIsAhead` and `WriteIsCurrent` tie the write under way to what is
  pending: it carries the pending edit of a field or none, and no edit that was
  answered for. After a failed write the row may hold what is still pending,
  so being written once is not part of it (`WrittenOnce`, see above).

Only model-checked: the liveness properties (`HandlerReturns`,
`CoordinatorEnds`, `ReconnectSettles`, `EndedCallStops`, `QueueDrains`,
`PageSettles`, `EverySubmissionEnds`, `EditsReachTheRow`), since fairness and
ENABLED are beyond the proof system. Every invariant and action property of the
passing runs is proved.

## What is not modelled

- Audio: capture, echo cancellation, resampling, encoding, and the timeline of
  sample counters that gives a rebuilt stream its origin. These are data; the
  session model keeps whether the audio tasks run and what their channels say.
- The merge of revised turns, the watchdog's thresholds and the provider
  rollover inside a stream: planned, see below. In the session model the stream
  may deliver, lose or end at any time and the watchdog may fire at any time,
  which covers whatever they decide.
- The editor of the transcript, which writes a whole row back
  (`transcript-view.tsx`), and the limit of ten rows of the worker's query:
  listed as hazards.
- What an editor does with an older text that a refresh shows, and edits that
  are lost because a window closes within the 50 ms of the debounce.
- The rest of the interface and of the chat: prompts, tools, message parts, the
  floating surface, the editing of selections.
- Platform code that recognises calls, calendars, connectors, settings, the MCP
  server, the local language model and the React views: reads, layout or stored
  values without a protocol between concurrent parties.

## Plan

In this order, the most valuable first:

1. `Watchdog`, a step function of elapsed times, and its composition with the
   clocks of the transcript task (pause, rebuild): no inactivity stop without a
   warning before it, none right after a pause.
2. `AaiRollover`: sessions of the provider client with acceptance ranges.
   Abstract specification: a single stream that emits every word of the meeting
   once.
3. `TurnMerge`, a fold over revised turns checked against a reference (the
   words of the last version of each turn), below `AaiRollover`.
4. `WsStream`: the two halves of a socket; abstract specification: a clean end
   means all input was sent and acknowledged. `RecordingSession` uses it as the
   stream that drains.
5. `NemotronServe` and `MeetingLifecycle`.

Compositions worth having: the planned provider client as the stream of the
transcript task, whose losses are free choices today.

Proofs worth having next: that the queue of `KnowledgeJobs` implements an
abstract one in which each key has at most one active job, and the invariants
of the contracts themselves (a queued row is closed and lost nothing), which
then hold of whatever implements them.

Runs are few on purpose: one for each question. When a planned module brings a
question of its own, smaller runs of one module are merged.
