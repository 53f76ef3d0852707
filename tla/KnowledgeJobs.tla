----------------------------- MODULE KnowledgeJobs -----------------------------
(***************************************************************************)
(* The compiled knowledge of a project: digests of its sources, a          *)
(* synthesis of the digests, and the brief that is written from both.      *)
(* Every window queues jobs in one table (lib/project-knowledge-jobs.ts)   *)
(* and runs a poller that claims them                                      *)
(* (components/projects/project-knowledge-job-runner.tsx); what a job does *)
(* is in lib/project-knowledge.ts and lib/project-briefs.ts, the table in  *)
(* crates/db-user/src/project_knowledge_jobs_ops.rs.                       *)
(*                                                                         *)
(* One project.  A hash of a text is the text, a fingerprint the contents  *)
(* of the sources.  Jobs do not carry what they are about to read: each    *)
(* reads the sources, then asks a model for seconds or minutes, then       *)
(* writes, while the user edits, another window works on another job, or   *)
(* a window is closed.                                                     *)
(***************************************************************************)
EXTENDS Integers, FiniteSets

CONSTANTS
  Windows,       \* windows of the application
  Sources,       \* notes and files of the project
  Texts,         \* what a source may say
  NoText,        \* a source that is excluded, empty or not indexed
  NoSnapshot,    \* no contents read
  Copies,        \* rows kept of the jobs with one dedupe key
  MaxAttempts,   \* PROJECT_KNOWLEDGE_JOB_MAX_ATTEMPTS, 3 in the code
  SlowJobs,      \* whether a job may run for more than five minutes
  MaxEdits,      \* bound: changes of a source
  MaxCloses,     \* bound: windows closed
  MaxFaults      \* bound: calls to the model that fail

ASSUME KnowledgeAssumption ==
  /\ IsFiniteSet(Windows)
  /\ NoText \notin Texts
  /\ MaxAttempts \in Nat \ {0}
  /\ SlowJobs \in BOOLEAN
  /\ {MaxEdits, MaxCloses, MaxFaults} \subseteq Nat

VARIABLES
  source,     \* what each source says now
  digests,    \* project_source_digests: the text each was made from
  synthesis,  \* the synthesis row: its fingerprint, and what it was made from
  brief,      \* the brief row
  cited,      \* project_brief_sources: the contents the brief cites
  jobs,       \* project_knowledge_jobs
  work,       \* runProjectKnowledgeJob, per window and job
  asks,       \* the request for a brief that each window is making
  timers,     \* windows with a pending refresh of an edited note
  open,       \* the windows that are open
  lost,       \* history: jobs whose window closed while they ran
  used        \* edits, closed windows and faults so far

vars == <<source, digests, synthesis, brief, cited, jobs, work, asks, timers,
          open, lost, used>>

Contents == Texts \cup {NoText}
Snapshots == [Sources -> Contents]
Readable(snap) == \E s \in Sources : snap[s] # NoText

(* Dedupe keys, and the rows that may hold them.                           *)
Keys == {[type |-> "digest", about |-> <<s, t>>] : s \in Sources, t \in Texts}
          \cup [type : {"synthesis", "brief"}, about : Snapshots]
JobIds == Keys \X Copies

Row == [status : {"Finished", "Queued", "Running"}, attempts : Nat]
NoRow == [status |-> "Finished", attempts |-> 0]

Brief == [status : {"None", "Building", "Current", "NeedsRefresh", "Failed"},
          fp : Snapshots \cup {NoSnapshot}, of : Snapshots \cup {NoSnapshot}]
NoBrief == [status |-> "None", fp |-> NoSnapshot, of |-> NoSnapshot]

Work == [pc : {"no", "read", "generate", "cite"}, attempts : Nat,
         mat : Snapshots \cup {NoSnapshot}, was : Brief]
NoWork == [pc |-> "no", attempts |-> 0, mat |-> NoSnapshot,
           was |-> NoBrief]

Ask == [pc : {"no", "look", "mark", "ask"},
        fp : Snapshots \cup {NoSnapshot}, was : Brief]
NoAsk == [pc |-> "no", fp |-> NoSnapshot, was |-> NoBrief]

Init ==
  /\ source = [s \in Sources |-> NoText]
  /\ digests = [s \in Sources |-> NoText]
  /\ synthesis = NoSnapshot
  /\ brief = NoBrief
  /\ cited = NoSnapshot
  /\ jobs = [j \in JobIds |-> NoRow]
  /\ work = [w \in Windows |-> [j \in JobIds |-> NoWork]]
  /\ asks = [w \in Windows |-> NoAsk]
  /\ timers = {}
  /\ open = Windows
  /\ lost = {}
  /\ used = [edits |-> 0, closes |-> 0, faults |-> 0]

-----------------------------------------------------------------------------
(* The table of jobs.                                                      *)

Active(j) == jobs[j].status # "Finished"
Busy(w, j) == work[w][j].pc # "no"
Executed(j) == \E w \in Windows : Busy(w, j)
Free(j) == ~Active(j) /\ ~Executed(j)

(* get_active_project_knowledge_job, and the unique index on the key of    *)
(* the rows that are Queued or Running.                                    *)
ActiveKey(k) == \E c \in Copies : Active(<<k, c>>)

(* Rows that are finished and that no runner will write again are          *)
(* forgotten: the next job with the key takes their place.                 *)
RowFor(k) == <<k, CHOOSE c \in Copies : Free(<<k, c>>)>>
CanEnqueue(ks) == \A k \in ks : ActiveKey(k) \/ \E c \in Copies : Free(<<k, c>>)
Enqueue(ks) ==
  jobs' = [j \in JobIds |->
    IF j[1] \in ks /\ ~ActiveKey(j[1]) /\ j = RowFor(j[1])
    THEN [status |-> "Queued", attempts |-> 0] ELSE jobs[j]]

(* The digests that getProjectSourceDigestReadiness finds missing or stale.*)
Issues == {s \in Sources : source[s] # NoText /\ digests[s] # source[s]}
DigestKeys == {[type |-> "digest", about |-> <<s, source[s]>>] : s \in Issues}

(* A window that is not blocked by a synthesis or a brief, and that runs   *)
(* fewer than two digests, takes a queued job, and the job begins.  A job  *)
(* the window is running already is left as the claim made it.             *)
Type(j) == j[1].type
Takes(w, j) ==
  /\ w \in open
  /\ jobs[j].status = "Queued"
  /\ \A i \in JobIds : Busy(w, i) => Type(i) = "digest"
  /\ ~\E i1, i2 \in JobIds : i1 # i2 /\ Busy(w, i1) /\ Busy(w, i2)

Claimed(j) == [status |-> "Running", attempts |-> jobs[j].attempts + 1]
Start(w, j, pc, mat, was) ==
  /\ jobs' = [jobs EXCEPT ![j] = Claimed(j)]
  /\ work' = [work EXCEPT ![w][j] =
       [pc |-> pc, attempts |-> jobs[j].attempts + 1, mat |-> mat, was |-> was]]

ClaimAgain(w, j) ==
  /\ Takes(w, j) /\ Busy(w, j)
  /\ jobs' = [jobs EXCEPT ![j] = Claimed(j)]
  /\ UNCHANGED <<source, digests, synthesis, brief, cited, work, asks, timers,
                 open, lost, used>>

(* A job that ends as soon as it has begun: complete, failed, or released  *)
(* with its attempt given back while the digests that are missing are      *)
(* queued.                                                                 *)
CompleteAtOnce(j) ==
  jobs' = [jobs EXCEPT ![j] =
    IF Executed(j) THEN [Claimed(j) EXCEPT !.status = "Finished"] ELSE NoRow]
FailAtOnce(j) ==
  jobs' = [jobs EXCEPT ![j] =
    IF jobs[j].attempts + 1 < MaxAttempts
    THEN [Claimed(j) EXCEPT !.status = "Queued"]
    ELSE IF Executed(j) THEN [Claimed(j) EXCEPT !.status = "Finished"] ELSE NoRow]

(* Faulty variant of Release: what the job waits for is not queued.        *)
ReleaseOnly == UNCHANGED jobs

Release == CanEnqueue(DigestKeys) /\ Enqueue(DigestKeys)

(* Faulty variant of Rejected: no unique index.                            *)
RejectedNever(j, status) == FALSE

(* The last update of a job, by id alone, and the end of its execution.    *)
(* A row that would become active beside another with its key is not       *)
(* changed: the unique index rejects the update.                           *)
Rejected(j, status) ==
  /\ status = "Queued"
  /\ \E c \in Copies : c # j[2] /\ Active(<<j[1], c>>)
EndAs(w, j, status, attempts) ==
  LET others == \E v \in Windows \ {w} : Busy(v, j)
  IN /\ jobs' = [jobs EXCEPT ![j] =
          IF Rejected(j, status) THEN @
          ELSE IF status = "Finished" /\ ~others THEN NoRow
          ELSE [status |-> status, attempts |-> attempts]]
     /\ work' = [work EXCEPT ![w][j] = NoWork]

Complete(w, j) == EndAs(w, j, "Finished", jobs[j].attempts)

(* Faulty variant of Fail: the last attempt is not recorded as failed.     *)
FailForgotten(w, j) ==
  IF work[w][j].attempts < MaxAttempts THEN EndAs(w, j, "Queued", jobs[j].attempts)
  ELSE work' = [work EXCEPT ![w][j] = NoWork] /\ UNCHANGED jobs

(* Faulty variant of Fail: one attempt too many.                           *)
FailLate(w, j) ==
  EndAs(w, j, IF work[w][j].attempts <= MaxAttempts THEN "Queued" ELSE "Finished",
        jobs[j].attempts)

(* shouldRetryProjectKnowledgeJob on the job as it was claimed.            *)
Fail(w, j) ==
  EndAs(w, j, IF work[w][j].attempts < MaxAttempts THEN "Queued" ELSE "Finished",
        jobs[j].attempts)

At(w, j, type, pc) ==
  w \in open /\ Type(j) = type /\ work[w][j].pc = pc

Fault == used.faults < MaxFaults /\ used' = [used EXCEPT !.faults = @ + 1]

-----------------------------------------------------------------------------
(* A digest job: ensureProjectSourceDigestForSource.                       *)

ClaimDigest(w, j) ==
  LET s == j[1].about[1]
  IN /\ Takes(w, j) /\ ~Busy(w, j) /\ Type(j) = "digest"
     /\ \/ source[s] = NoText /\ FailAtOnce(j) /\ UNCHANGED work
        \/ /\ source[s] # NoText /\ digests[s] = source[s]
           /\ CompleteAtOnce(j) /\ UNCHANGED work
        \/ /\ source[s] # NoText /\ digests[s] # source[s]
           /\ Start(w, j, "generate", source, NoBrief)
     /\ UNCHANGED <<source, digests, synthesis, brief, cited, asks, timers,
                    open, lost, used>>

DigestStore(w, j) ==
  LET s == j[1].about[1]
  IN /\ At(w, j, "digest", "generate")
     /\ \/ /\ digests' = [digests EXCEPT ![s] = work[w][j].mat[s]]
           /\ Complete(w, j) /\ UNCHANGED used
        \/ Fault /\ Fail(w, j) /\ UNCHANGED digests
     /\ UNCHANGED <<source, synthesis, brief, cited, asks, timers, open, lost>>

-----------------------------------------------------------------------------
(* A synthesis job: the digests, then                                      *)
(* buildAndUpsertProjectKnowledgeSynthesis.                                *)

ClaimSynthesis(w, j) ==
  /\ Takes(w, j) /\ ~Busy(w, j) /\ Type(j) = "synthesis"
  /\ \/ Issues # {} /\ Release /\ UNCHANGED work
     \/ Issues = {} /\ Start(w, j, "read", NoSnapshot, NoBrief)
  /\ UNCHANGED <<source, digests, synthesis, brief, cited, asks, timers, open,
                 lost, used>>

SynthesisRead(w, j) ==
  /\ At(w, j, "synthesis", "read")
  /\ \/ (~Readable(source) \/ Issues # {}) /\ Fail(w, j)
     \/ /\ Readable(source) /\ Issues = {}
        /\ work' = [work EXCEPT ![w][j].pc = "generate", ![w][j].mat = source]
        /\ UNCHANGED jobs
  /\ UNCHANGED <<source, digests, synthesis, brief, cited, asks, timers, open,
                 lost, used>>

SynthesisStore(w, j) ==
  /\ At(w, j, "synthesis", "generate")
  /\ synthesis' = work[w][j].mat
  /\ Complete(w, j)
  /\ UNCHANGED <<source, digests, brief, cited, asks, timers, open, lost, used>>

-----------------------------------------------------------------------------
(* A brief job: refreshProjectBrief once the synthesis is of the sources   *)
(* as they are.                                                            *)

ClaimBrief(w, j) ==
  /\ Takes(w, j) /\ ~Busy(w, j) /\ Type(j) = "brief"
  /\ \/ synthesis # source /\ Release /\ UNCHANGED work
     \/ synthesis = source /\ Start(w, j, "read", NoSnapshot, brief)
  /\ UNCHANGED <<source, digests, synthesis, brief, cited, asks, timers, open,
                 lost, used>>

(* The cards and the synthesis are read again: the brief is Building, or   *)
(* it Failed before there was anything to build.                           *)
BriefCards(w, j) ==
  LET was == work[w][j].was
      ready == Readable(source) /\ Issues = {} /\ synthesis = source
  IN /\ At(w, j, "brief", "read")
     /\ \/ /\ ready
           /\ brief' = [status |-> "Building", fp |-> source, of |-> was.of]
           /\ work' = [work EXCEPT ![w][j].pc = "generate", ![w][j].mat = source]
           /\ UNCHANGED jobs
        \/ /\ ~ready
           /\ brief' = IF was.status # "None" \/ Readable(source)
                       THEN [status |-> "Failed", fp |-> source, of |-> was.of]
                       ELSE brief
           /\ Fail(w, j)
     /\ UNCHANGED <<source, digests, synthesis, cited, asks, timers, open, lost,
                    used>>

(* Faulty variant of BriefFails: the brief stays as it is.                 *)
BriefFailsSilently(w, j) == Fail(w, j) /\ UNCHANGED brief

BriefFails(w, j) ==
  /\ brief' = [status |-> "Failed", fp |-> work[w][j].mat,
                of |-> work[w][j].was.of]
  /\ Fail(w, j)

BriefStore(w, j) ==
  LET mat == work[w][j].mat
  IN /\ At(w, j, "brief", "generate")
     /\ \/ /\ brief' = [status |-> "Current", fp |-> mat, of |-> mat]
           /\ work' = [work EXCEPT ![w][j].pc = "cite"]
           /\ UNCHANGED <<jobs, used>>
        \/ Fault /\ BriefFails(w, j)
     /\ UNCHANGED <<source, digests, synthesis, cited, asks, timers, open, lost>>

BriefCite(w, j) ==
  /\ At(w, j, "brief", "cite")
  /\ cited' = work[w][j].mat
  /\ Complete(w, j)
  /\ UNCHANGED <<source, digests, synthesis, brief, asks, timers, open, lost,
                 used>>

-----------------------------------------------------------------------------
(* What asks for a brief: an edit, through a timer of five seconds, or the *)
(* project page.                                                           *)

Edit(w) ==
  /\ w \in open /\ used.edits < MaxEdits
  /\ \E s \in Sources, t \in Contents :
       t # source[s] /\ source' = [source EXCEPT ![s] = t]
  /\ timers' = timers \cup {w}
  /\ used' = [used EXCEPT !.edits = @ + 1]
  /\ UNCHANGED <<digests, synthesis, brief, cited, jobs, work, asks, open, lost>>

(* markProjectBriefNeedsRefresh and getLatestProjectBrief read the brief   *)
(* and the sources, ...                                                    *)
Settled == brief.status \in {"Current", "NeedsRefresh"} /\ Readable(source)

Mark(w) ==
  /\ w \in open /\ w \in timers /\ asks[w].pc = "no"
  /\ timers' = timers \ {w}
  /\ asks' = [asks EXCEPT ![w] =
       IF Settled THEN [pc |-> "mark", fp |-> source, was |-> brief]
       ELSE [NoAsk EXCEPT !.pc = "ask"]]
  /\ UNCHANGED <<source, digests, synthesis, brief, cited, jobs, work, open,
                 lost, used>>

Look(w) ==
  /\ w \in open /\ asks[w].pc = "no"
  /\ Settled /\ brief.fp # source
  /\ asks' = [asks EXCEPT ![w] = [pc |-> "look", fp |-> source, was |-> brief]]
  /\ UNCHANGED <<source, digests, synthesis, brief, cited, jobs, work, timers,
                 open, lost, used>>

(* ... then, when the fingerprints differ, what the brief cites, and they  *)
(* write the row they have read back.                                      *)
Marked(ask) ==
  IF ask.was.fp = ask.fp THEN brief
  ELSE IF cited = ask.fp
       THEN [ask.was EXCEPT !.status = "Current", !.fp = ask.fp]
  ELSE IF ask.pc = "mark" /\ ask.was.status # "NeedsRefresh"
       THEN [ask.was EXCEPT !.status = "NeedsRefresh"]
  ELSE brief

WriteBack(w) ==
  /\ w \in open /\ asks[w].pc \in {"look", "mark"}
  /\ brief' = Marked(asks[w])
  /\ asks' = [asks EXCEPT ![w] =
       IF asks[w].pc = "look" THEN NoAsk ELSE [NoAsk EXCEPT !.pc = "ask"]]
  /\ UNCHANGED <<source, digests, synthesis, cited, jobs, work, timers, open,
                 lost, used>>

(* The page refreshes a brief that is missing, marked or of other sources  *)
(* by itself, unless a job is active or the brief is being built.          *)
NeedsBrief ==
  /\ Readable(source)
  /\ \A j \in JobIds : ~Active(j)
  /\ \/ brief.status \in {"None", "NeedsRefresh"}
     \/ brief.status # "Building" /\ brief.fp # source

AutoRefresh(w) ==
  /\ w \in open /\ asks[w].pc = "no" /\ NeedsBrief
  /\ asks' = [asks EXCEPT ![w].pc = "ask"]
  /\ UNCHANGED <<source, digests, synthesis, brief, cited, jobs, work, timers,
                 open, lost, used>>

(* enqueueProjectBriefRefreshJob.                                          *)
AskedKeys ==
  DigestKeys \cup [type : {"synthesis", "brief"}, about : {source}]

Request(w) ==
  /\ w \in open /\ asks[w].pc = "ask"
  /\ \/ ~Readable(source) /\ UNCHANGED jobs
     \/ Readable(source) /\ CanEnqueue(AskedKeys) /\ Enqueue(AskedKeys)
  /\ asks' = [asks EXCEPT ![w] = NoAsk]
  /\ UNCHANGED <<source, digests, synthesis, brief, cited, work, timers, open,
                 lost, used>>

-----------------------------------------------------------------------------
(* A window closes, with everything it was doing, and is opened again.     *)

(* Faulty variant of Stops: timers outlive their window.                   *)
StopsAsking(w) ==
  asks' = [asks EXCEPT ![w] = NoAsk] /\ UNCHANGED timers

Stops(w) ==
  asks' = [asks EXCEPT ![w] = NoAsk] /\ timers' = timers \ {w}

Close(w) ==
  /\ w \in open /\ used.closes < MaxCloses
  /\ open' = open \ {w}
  /\ lost' = lost \cup {j \in JobIds : /\ Busy(w, j)
                                  /\ \A v \in Windows \ {w} : ~Busy(v, j)}
  /\ work' = [work EXCEPT ![w] = [j \in JobIds |-> NoWork]]
  /\ Stops(w)
  /\ used' = [used EXCEPT !.closes = @ + 1]
  /\ UNCHANGED <<source, digests, synthesis, brief, cited, jobs>>

(* reclaimStaleJobs: the jobs that have been Running for five minutes.     *)
Reclaimed(j) ==
  IF jobs[j].attempts < MaxAttempts THEN [jobs[j] EXCEPT !.status = "Queued"]
  ELSE IF Executed(j) THEN [jobs[j] EXCEPT !.status = "Finished"]
  ELSE NoRow

Mount(w) ==
  /\ w \notin open
  /\ open' = open \cup {w}
  /\ \E stale \in SUBSET {j \in JobIds : jobs[j].status = "Running"} :
       /\ SlowJobs \/ \A j \in stale : ~Executed(j)
       /\ jobs' = [j \in JobIds |-> IF j \in stale THEN Reclaimed(j) ELSE jobs[j]]
       /\ lost' = lost \ stale
  /\ UNCHANGED <<source, digests, synthesis, brief, cited, work, asks, timers,
                 used>>

-----------------------------------------------------------------------------
Claim(w, j) ==
  \/ ClaimAgain(w, j)
  \/ ClaimDigest(w, j) \/ ClaimSynthesis(w, j) \/ ClaimBrief(w, j)

Run(w, j) ==
  \/ DigestStore(w, j)
  \/ SynthesisRead(w, j) \/ SynthesisStore(w, j)
  \/ BriefCards(w, j) \/ BriefStore(w, j) \/ BriefCite(w, j)

Next ==
  \/ \E w \in Windows : \/ Edit(w) \/ Mark(w) \/ Look(w) \/ WriteBack(w)
                        \/ AutoRefresh(w) \/ Request(w)
                        \/ Close(w) \/ Mount(w)
  \/ \E w \in Windows, j \in JobIds : Claim(w, j) \/ Run(w, j)

Spec == Init /\ [][Next]_vars

(* The pollers tick every two seconds and take the oldest job first, what  *)
(* a job awaits answers, timers fire, and the page of the project is open. *)
Fairness ==
  \A w \in Windows :
    /\ WF_vars(\E j \in JobIds : Claim(w, j)) /\ WF_vars(\E j \in JobIds : Run(w, j))
    /\ SF_vars(Mark(w)) /\ WF_vars(WriteBack(w)) /\ WF_vars(Request(w))
    /\ SF_vars(AutoRefresh(w))

FairSpec == Spec /\ Fairness

-----------------------------------------------------------------------------
(* Every variable keeps its shape; a closed window has no timer.           *)
TypeOK ==
  /\ source \in Snapshots
  /\ digests \in [Sources -> Contents]
  /\ synthesis \in Snapshots \cup {NoSnapshot}
  /\ brief \in Brief
  /\ cited \in Snapshots \cup {NoSnapshot}
  /\ jobs \in [JobIds -> Row]
  /\ work \in [Windows -> [JobIds -> Work]]
  /\ asks \in [Windows -> Ask]
  /\ timers \subseteq open
  /\ open \subseteq Windows
  /\ lost \subseteq JobIds
  /\ used \in [edits : 0..MaxEdits, closes : 0..MaxCloses, faults : 0..MaxFaults]

(* Two jobs with one dedupe key are never queued or running at once,       *)
(* whatever a runner writes that finished after its job was reclaimed.     *)
OneActivePerKey ==
  \A i, j \in JobIds : i[1] = j[1] /\ Active(i) /\ Active(j) => i = j

(* A job that is Running, and so keeps others with its key from being      *)
(* queued, is being executed, or its window was closed.                    *)
RunningIsExecuted ==
  \A j \in JobIds : jobs[j].status = "Running" => Executed(j) \/ j \in lost

Built ==
  \E w \in Windows, j \in JobIds : At(w, j, "brief", "generate")

(* A brief that says Building, which no page refreshes, is being written,  *)
(* by some window, unless a window was closed.                             *)
BuildingIsBuilt == brief.status = "Building" => used.closes > 0 \/ Built

(* The parts of the inductive invariant: what a model is asked about has   *)
(* been read.                                                              *)
WorkHasRead ==
  \A w \in Windows, j \in JobIds :
    work[w][j].pc \in {"generate", "cite"} => work[w][j].mat \in Snapshots

IInv ==
  /\ TypeOK /\ WorkHasRead
  /\ OneActivePerKey /\ RunningIsExecuted /\ BuildingIsBuilt

(* Every job is executed by at most one window, and one more for each time *)
(* that a window was opened and found a slow job to reclaim.               *)
Executors(j) == {w \in Windows : Busy(w, j)}
Reopened == IF SlowJobs THEN used.closes - Cardinality(Windows \ open) ELSE 0
One(condition) == IF condition THEN 1 ELSE 0

ExecutorsAreKnown ==
  \A j \in JobIds :
    Cardinality(Executors(j)) <= Reopened + One(jobs[j].status = "Running")

(* Beyond the limit, every attempt made or to be made takes up one of those*)
(* executors, which were claimed below the limit and so queue again.       *)
Retriers(j) == {w \in Executors(j) : work[w][j].attempts < MaxAttempts}

RetriesAreKnown ==
  \A j \in JobIds :
    jobs[j].attempts >= MaxAttempts =>
      jobs[j].attempts + Cardinality(Retriers(j)) + One(jobs[j].status = "Queued")
        <= MaxAttempts + Reopened

AttemptsCounted == Reopened \in Nat /\ ExecutorsAreKnown /\ RetriesAreKnown

(* No job runs more often than its attempts allow, though waiting for what *)
(* it depends on gives an attempt back; but for one run more each time that*)
(* a window was opened while jobs ran for so long that it reclaimed one:   *)
(* the run that was thought dead queues the job again.                     *)
AttemptsBounded ==
  \A j \in JobIds : jobs[j].attempts <= MaxAttempts + Reopened

Undisturbed ==
  open = Windows /\ lost = {} /\ (brief.status = "Building" => Built)

Unserved ==
  /\ timers = {} /\ \A w \in Windows : asks[w].pc \in {"no", "look"}
  /\ \A j \in JobIds : ~Executed(j) /\ (Active(j) => Type(j) = "brief")
  /\ \E j \in JobIds : Active(j)
  /\ Readable(source) /\ synthesis # source

Rests ==
  Readable(source) => brief.fp = source /\ brief.status \in {"Current", "Failed"}

(* Once the user stops editing, with the page of the project open and      *)
(* nothing left behind by a closed window, the brief comes to rest on the  *)
(* sources as they are, or its job waits for a synthesis nobody queued     *)
(* (BriefIsServed): no job runs for ever, none is forgotten, and no brief  *)
(* stays Building or marked.                                               *)
PageSettles == <>[]Undisturbed => <>[](Rests \/ Unserved)

(* docs/project-knowledge.md:11: the brief "is rebuilt from current        *)
(* compiled digests".  So a brief job, and a page that shows it as         *)
(* refreshing, never waits when nothing is left that could make the        *)
(* synthesis it needs.                                                     *)
BriefIsServed == ~Unserved

(* A brief that says Current was written from the sources whose fingerprint*)
(* it carries.  Does not hold: a request read the brief and the sources, a *)
(* whole brief job then wrote and cited another one, and the request, which*)
(* now finds its sources cited, stores the brief that it had read as the   *)
(* Current one of these sources (normalizeLegacyProjectBriefFingerprint).  *)
CurrentIsOfItsSources == brief.status = "Current" => brief.of = brief.fp
=============================================================================
