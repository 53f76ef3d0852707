----------------------------- MODULE SummaryWorker -----------------------------
(***************************************************************************)
(* Writing the summaries of finished recordings and of imports:            *)
(* apps/desktop/src/contexts/background-enhance.tsx beside the other       *)
(* writers of the row, crates/db-user/src/sessions_recording_ops.rs.       *)
(*                                                                         *)
(* A worker polls the rows that are marked needs_enhance, reads one again, *)
(* generates a summary from what it read, which takes up to two minutes,   *)
(* and stores it.  A recording stays marked until a compare-and-set stores *)
(* its summary.  An import is unmarked first, and stored as a whole row.   *)
(* Meanwhile the user edits and records, and other windows poll.           *)
(***************************************************************************)
EXTENDS Naturals

CONSTANTS
  Notes,         \* the notes
  Instances,     \* mounted workers, of every window
  InMain,        \* those of the main window: a worker and its remount
  Youtube,       \* notes whose title is generated even if they have one
  Kinds,         \* what notes begin as: new ones, or imports with a mark
  MaxWords,      \* bound: how often the transcript grows; 0: under five words
  MaxRuns,       \* bound: recordings
  MaxEdits       \* bound: edits of summaries by the user

ASSUME SummaryAssumption ==
  /\ InMain \subseteq Instances
  /\ Youtube \subseteq Notes
  /\ Kinds \subseteq {"new", "import"}
  /\ {MaxWords, MaxRuns, MaxEdits} \subseteq Nat

VARIABLES
  rows,      \* the sessions table
  live,      \* what the listener does with a note
  workers,   \* the processing loop of each instance, and its retryAfter
  inFlight,  \* recordingSummariesInFlight of the main window
  titles,    \* title generations that nobody awaits
  runs,      \* recordings that ended: the instants of record_end
  edits,     \* edits of summaries so far
  owed       \* history: the transcript that was completed without a summary

vars == <<rows, live, workers, inFlight, titles, runs, edits, owed>>

(* Contents of enhanced_memo_html: nothing, one of the user's edits, or    *)
(* generated text.                                                         *)
NoHtml == 0
Edited == 1..MaxEdits
Generated == MaxEdits + 1

Rows == [words : 0..MaxWords, html : 0..Generated, auto : 0..MaxWords,
         title : {"", "user", "generated"}, start : BOOLEAN,
         end : 0..MaxRuns, needs : BOOLEAN]
NewRow == [words |-> 0, html |-> NoHtml, auto |-> 0, title |-> "",
           start |-> FALSE, end |-> 0, needs |-> FALSE]

Enough(r) == r.words > 0

(* What list_sessions returns for NeedsEnhance.                            *)
Listed(r) == r.needs /\ (r.start => r.end # 0 /\ Enough(r))

Job == [note : Notes, start : BOOLEAN]
Worker == [pc : {"idle", "looping", "reading", "clearing", "claiming",
                 "generating"},
           queue : SUBSET Job, note : Notes, row : Rows, retry : SUBSET Notes]
Title == [note : Notes, row : Rows, pc : {"generating", "writing"}]

IdleWorker(n) ==
  [pc |-> "idle", queue |-> {}, note |-> n, row |-> NewRow, retry |-> {}]

Init ==
  /\ rows \in [Notes -> UNION {
       IF k = "new" THEN {NewRow}
       ELSE {[NewRow EXCEPT !.needs = TRUE, !.words = w] :
               w \in 0..(IF MaxWords = 0 THEN 0 ELSE 1)} : k \in Kinds}]
  /\ live = [n \in Notes |-> "no"]
  /\ \E n \in Notes : workers = [i \in Instances |-> IdleWorker(n)]
  /\ inFlight = {}
  /\ titles = {}
  /\ runs = 0
  /\ edits = 0
  /\ owed = [n \in Notes |-> 0]

-----------------------------------------------------------------------------
(* The processing loop of instance i: pollAndProcess and processSession.   *)

Goto(i, pc) == workers' = [workers EXCEPT ![i].pc = pc]

Poll(i) ==
  LET pending == {n \in Notes \ workers[i].retry : Listed(rows[n])}
  IN /\ workers[i].pc = "idle" /\ pending # {}
     /\ workers' = [workers EXCEPT
          ![i].pc = "looping",
          ![i].queue = {[note |-> n, start |-> rows[n].start] : n \in pending}]
     /\ UNCHANGED <<rows, live, inFlight, titles, runs, edits, owed>>

LoopEnds(i) ==
  /\ workers[i].pc = "looping" /\ workers[i].queue = {}
  /\ Goto(i, "idle")
  /\ UNCHANGED <<rows, live, inFlight, titles, runs, edits, owed>>

(* Faulty variant of Skipped: recordings are not kept to one instance.     *)
SkippedRetryOnly(i, q) ==
  \/ q.note \in workers[i].retry
  \/ q.start /\ i \notin InMain

(* A listed note that is waiting for its retry, is another instance's, or  *)
(* is a recording seen by a window that is not the main one.               *)
Skipped(i, q) ==
  \/ q.note \in workers[i].retry
  \/ q.start /\ (i \in InMain => q.note \in inFlight)

NextNote(i) ==
  /\ workers[i].pc = "looping"
  /\ \E q \in workers[i].queue :
       /\ workers' = [workers EXCEPT
            ![i].queue = @ \ {q},
            ![i].pc = IF Skipped(i, q) THEN "looping" ELSE "reading",
            ![i].note = IF Skipped(i, q) THEN @ ELSE q.note]
       /\ inFlight' = IF q.start /\ ~Skipped(i, q) THEN inFlight \cup {q.note}
                                                   ELSE inFlight
  /\ UNCHANGED <<rows, live, titles, runs, edits, owed>>

(* Faulty variant of Leave: a failure keeps its mark.                      *)
LeaveMarked(i, retry) ==
  /\ workers' = [workers EXCEPT ![i].pc = "looping", ![i].retry = retry]
  /\ inFlight' = IF i \in InMain /\ retry = workers[i].retry
                   THEN inFlight \ {workers[i].note} ELSE inFlight

(* processSession is over, one way or the other.                           *)
Leave(i, retry) ==
  /\ workers' = [workers EXCEPT ![i].pc = "looping", ![i].retry = retry]
  /\ inFlight' = IF i \in InMain THEN inFlight \ {workers[i].note} ELSE inFlight

(* The fresh read decides what is done.                                    *)
Read(i) ==
  LET r == rows[workers[i].note]
  IN /\ workers[i].pc = "reading"
     /\ IF Listed(r)
          THEN /\ workers' = [workers EXCEPT
                    ![i].row = r,
                    ![i].pc = IF r.start THEN "generating"
                              ELSE IF Enough(r) THEN "claiming" ELSE "clearing"]
               /\ UNCHANGED inFlight
          ELSE Leave(i, workers[i].retry)
     /\ UNCHANGED <<rows, live, titles, runs, edits, owed>>

(* upsert_session writes every column.                                     *)
Upsert(n, r) == rows' = [rows EXCEPT ![n] = r]

(* An import with too few words is given up.                               *)
Clear(i) ==
  /\ workers[i].pc = "clearing"
  /\ Upsert(workers[i].note, [workers[i].row EXCEPT !.needs = FALSE])
  /\ Leave(i, workers[i].retry)
  /\ UNCHANGED <<live, titles, runs, edits, owed>>

Claim(i) ==
  /\ workers[i].pc = "claiming"
  /\ Upsert(workers[i].note, [workers[i].row EXCEPT !.needs = FALSE])
  /\ Goto(i, "generating")
  /\ UNCHANGED <<live, inFlight, titles, runs, edits, owed>>

(* An error, a timeout or an incomplete stream: recordings are retried.    *)
GenerateFails(i) ==
  LET w == workers[i]
  IN /\ w.pc = "generating"
     /\ Leave(i, IF w.row.start THEN w.retry \cup {w.note} ELSE w.retry)
     /\ UNCHANGED <<rows, live, titles, runs, edits, owed>>

(* Sixty seconds are over.                                                 *)
RetryOver(i) ==
  /\ \E n \in workers[i].retry :
       workers' = [workers EXCEPT ![i].retry = @ \ {n}]
  /\ UNCHANGED <<rows, live, inFlight, titles, runs, edits, owed>>

(* Faulty variant of Saved: the mark alone decides.                        *)
SavedIfMarked(r, snap) ==
  IF r.needs
    THEN [r EXCEPT !.auto = snap.words, !.needs = FALSE,
                   !.html = IF @ = snap.html THEN Generated ELSE @]
    ELSE r

(* Faulty variant of Saved: the two parameters of the texts are swapped.   *)
SavedSwapped(r, snap) ==
  IF r.needs /\ r.words = snap.words /\ r.end = snap.end
    THEN [r EXCEPT !.auto = Generated, !.needs = FALSE, !.html = snap.words]
    ELSE r

(* Faulty variant of Saved: the summary replaces whatever is there.        *)
SavedOverEdits(r, snap) ==
  IF r.needs /\ r.words = snap.words /\ r.end = snap.end
    THEN [r EXCEPT !.auto = snap.words, !.needs = FALSE, !.html = Generated]
    ELSE r

(* save_recording_summary: a compare-and-set on the transcript, the end of *)
(* the recording and the mark, which leaves the user's text alone.         *)
Saved(r, snap) ==
  IF r.needs /\ r.words = snap.words /\ r.end = snap.end
    THEN [r EXCEPT !.auto = snap.words, !.needs = FALSE,
                   !.html = IF @ = snap.html THEN Generated ELSE @]
    ELSE r

WantsTitle(n, r) == r.title = "" \/ n \in Youtube

TitleOf(n, r) ==
  IF WantsTitle(n, r)
    THEN titles \cup {[note |-> n, row |-> r, pc |-> "generating"]}
    ELSE titles

(* The summary of a recording is stored, or found to be of another state.  *)
SaveRecording(i) ==
  LET w == workers[i]
      new == Saved(rows[w.note], w.row)
      done == new # rows[w.note]
  IN /\ w.pc = "generating" /\ w.row.start
     /\ rows' = [rows EXCEPT ![w.note] = new]
     /\ titles' = IF done THEN TitleOf(w.note, w.row) ELSE titles
     /\ owed' = [owed EXCEPT ![w.note] = IF done /\ w.row.words = @ THEN 0 ELSE @]
     /\ Leave(i, IF done THEN w.retry \ {w.note} ELSE w.retry)
     /\ UNCHANGED <<live, runs, edits>>

(* The summary of an import is stored with the row it was read from.       *)
SaveImport(i) ==
  LET w == workers[i]
  IN /\ w.pc = "generating" /\ ~w.row.start
     /\ Upsert(w.note, [w.row EXCEPT !.auto = w.row.words, !.html = Generated,
                                     !.needs = FALSE])
     /\ titles' = TitleOf(w.note, w.row)
     /\ Leave(i, w.retry \ {w.note})
     /\ UNCHANGED <<live, runs, edits, owed>>

-----------------------------------------------------------------------------
(* generateTitleForSession, which nobody awaits.                           *)
DropTitle(t) == titles' = titles \ {t}

TitleFails(t) ==
  /\ t.pc = "generating"
  /\ DropTitle(t)
  /\ UNCHANGED <<rows, live, workers, inFlight, runs, edits, owed>>

(* Faulty variant of Titled: the row is written back as it was read.       *)
TitledRow(r, snap) ==
  IF r.end = snap.end /\ r.title = snap.title
    THEN [snap EXCEPT !.title = "generated"] ELSE r

(* save_recording_title.                                                   *)
Titled(r, snap) ==
  IF r.end = snap.end /\ r.title = snap.title
    THEN [r EXCEPT !.title = "generated"] ELSE r

TitleRecording(t) ==
  /\ t.pc = "generating" /\ t.row.start
  /\ Upsert(t.note, Titled(rows[t.note], t.row))
  /\ DropTitle(t)
  /\ UNCHANGED <<live, workers, inFlight, runs, edits, owed>>

(* The row of an import is read again, then written as a whole.            *)
TitleRead(t) ==
  /\ t.pc = "generating" /\ ~t.row.start
  /\ titles' = (titles \ {t}) \cup {[t EXCEPT !.row = rows[t.note],
                                              !.pc = "writing"]}
  /\ UNCHANGED <<rows, live, workers, inFlight, runs, edits, owed>>

TitleWrite(t) ==
  /\ t.pc = "writing"
  /\ Upsert(t.note, [t.row EXCEPT !.title = "generated"])
  /\ DropTitle(t)
  /\ UNCHANGED <<live, workers, inFlight, runs, edits, owed>>

-----------------------------------------------------------------------------
(* The listener, as far as it writes the row.                              *)

(* begin_recording, before the setup.                                      *)
Begin(n) ==
  /\ \A m \in Notes : live[m] = "no"
  /\ runs < MaxRuns
  /\ live' = [live EXCEPT ![n] = "setup"]
  /\ rows' = [rows EXCEPT ![n].end = 0, ![n].needs = FALSE]
  /\ owed' = [owed EXCEPT ![n] = 0]
  /\ UNCHANGED <<workers, inFlight, titles, runs, edits>>

SetupFails(n) ==
  /\ live[n] = "setup"
  /\ live' = [live EXCEPT ![n] = "no"]
  /\ UNCHANGED <<rows, workers, inFlight, titles, runs, edits, owed>>

(* mark_recording_started, after the setup.                                *)
Started(n) ==
  /\ live[n] = "setup"
  /\ live' = [live EXCEPT ![n] = "on"]
  /\ rows' = [rows EXCEPT ![n].start = TRUE, ![n].end = 0, ![n].needs = FALSE]
  /\ UNCHANGED <<workers, inFlight, titles, runs, edits, owed>>

(* append_session_words.                                                   *)
Append(n) ==
  /\ live[n] = "on" /\ rows[n].words < MaxWords
  /\ rows' = [rows EXCEPT ![n].words = @ + 1]
  /\ UNCHANGED <<live, workers, inFlight, titles, runs, edits, owed>>

(* complete_recording, of a transcript that is whole or not.               *)
Complete(n, finalized) ==
  LET r == rows[n]
      queued == finalized /\ Enough(r)
  IN /\ live[n] = "on"
     /\ live' = [live EXCEPT ![n] = "no"]
     /\ runs' = runs + 1
     /\ rows' = [rows EXCEPT ![n] =
          IF r.start /\ r.end = 0
            THEN [r EXCEPT !.end = runs', !.needs = queued] ELSE r]
     /\ owed' = [owed EXCEPT ![n] = IF queued THEN r.words ELSE 0]
     /\ UNCHANGED <<workers, inFlight, titles, edits>>

(* update_session_note_fields: the user's edits, one column each.          *)
EditSummary(n) ==
  /\ edits < MaxEdits
  /\ edits' = edits + 1
  /\ rows' = [rows EXCEPT ![n].html = edits']
  /\ UNCHANGED <<live, workers, inFlight, titles, runs, owed>>

EditTitle(n) ==
  /\ rows[n].title # "user"
  /\ rows' = [rows EXCEPT ![n].title = "user"]
  /\ UNCHANGED <<live, workers, inFlight, titles, runs, edits, owed>>

(* The application is closed or crashes, and starts again.                 *)
Crash ==
  /\ workers' = [i \in Instances |-> IdleWorker(workers[i].note)]
  /\ inFlight' = {}
  /\ titles' = {}
  /\ live' = [n \in Notes |-> "no"]
  /\ UNCHANGED <<rows, runs, edits, owed>>

Work(i) ==
  \/ Poll(i) \/ LoopEnds(i) \/ NextNote(i) \/ Read(i)
  \/ Clear(i) \/ Claim(i) \/ GenerateFails(i) \/ SaveRecording(i)
  \/ SaveImport(i)

GenerateTitle(t) ==
  TitleFails(t) \/ TitleRecording(t) \/ TitleRead(t) \/ TitleWrite(t)

Record(n) ==
  \/ Begin(n) \/ SetupFails(n) \/ Started(n) \/ Append(n)
  \/ \E finalized \in BOOLEAN : Complete(n, finalized)

Next ==
  \/ \E i \in Instances : Work(i) \/ RetryOver(i)
  \/ \E t \in titles : GenerateTitle(t)
  \/ \E n \in Notes : Record(n) \/ EditSummary(n) \/ EditTitle(n)
  \/ Crash

Spec == Init /\ [][Next]_vars

(* Timers fire and every await of a worker or a title is over some time:   *)
(* generations have time limits.  Nothing is assumed of the user.          *)
Fairness ==
  /\ \A i \in Instances : WF_vars(Work(i)) /\ WF_vars(RetryOver(i))
  /\ WF_vars(\E t \in titles : GenerateTitle(t))

FairSpec == Spec /\ Fairness

-----------------------------------------------------------------------------
(* Type invariant of the rows, the workers and the title generations.      *)
TypeOK ==
  /\ rows \in [Notes -> Rows]
  /\ live \in [Notes -> {"no", "setup", "on"}]
  /\ workers \in [Instances -> Worker]
  /\ inFlight \in SUBSET Notes
  /\ titles \in SUBSET Title
  /\ runs \in 0..MaxRuns
  /\ edits \in 0..MaxEdits
  /\ owed \in [Notes -> 0..MaxWords]

(* A recording that was completed with a whole transcript stays queued, by *)
(* exactly that transcript, until a summary of it is stored or the note is *)
(* recorded again: over failures, crashes, other windows and summaries of  *)
(* earlier recordings of the note that come late.                          *)
RecordedWorkIsDurable ==
  \A n \in Notes : owed[n] # 0 =>
    /\ Listed(rows[n]) /\ rows[n].start
    /\ rows[n].words = owed[n]

(* No two workers summarise a recording at the same time, across windows   *)
(* and remounts of a window.                                               *)
OneConsumer ==
  \A i, j \in Instances :
    i # j /\ {workers[i].pc, workers[j].pc} = {"generating"}
          /\ workers[i].row.start /\ workers[j].row.start
      => workers[i].note # workers[j].note

(* What the user wrote is never replaced by generated text, unless the     *)
(* summary was generated from a row that already contained it.             *)
EditsSurvive ==
  [][\A n \in Notes :
       /\ rows[n].html \in Edited /\ rows'[n].html # rows[n].html =>
            \/ EditSummary(n)
            \/ \E i \in Instances :
                 SaveRecording(i) /\ workers[i].note = n
                   /\ workers[i].row.html = rows[n].html
       /\ rows[n].title = "user" /\ rows'[n].title # "user" =>
            n \in Youtube]_vars

(* What may keep a row listed.                                             *)
Disturbance ==
  \/ Crash
  \/ \E i \in Instances : GenerateFails(i)
  \/ \E n \in Notes : Record(n)

(* The queue is worked off: no row stays listed for ever once generations  *)
(* succeed, the application keeps running and the note is left alone.      *)
QueueDrains ==
  <>[][~Disturbance]_vars => \A n \in Notes : []<>~Listed(rows[n])

(* The parts of the inductive invariant.  One note is live at a time, and   *)
(* its recording is within the bound.                                      *)
OneIsLive ==
  \A m, n \in Notes :
    live[m] # "no" => runs < MaxRuns /\ (live[n] # "no" => m = n)

(* Without imports: a mark is of a recording that is over, and the one     *)
(* that is live has not ended.                                             *)
MarksAreOfRecordings ==
  \A n \in Notes :
    /\ rows[n].needs => Listed(rows[n]) /\ rows[n].start /\ live[n] = "no"
    /\ live[n] = "on" => rows[n].start /\ rows[n].end = 0
    /\ owed[n] # 0 => rows[n].needs /\ rows[n].words = owed[n]

(* Without imports: workers and titles only ever see recordings, and a     *)
(* title is generated where the user gave none.                            *)
WorkIsOfRecordings ==
  /\ \A i \in Instances :
       /\ \A q \in workers[i].queue : q.start
       /\ workers[i].pc \notin {"clearing", "claiming"}
       /\ workers[i].pc = "generating" => workers[i].row.start
  /\ \A t \in titles :
       t.row.start /\ t.pc = "generating" /\ WantsTitle(t.note, t.row)

Consuming(i) == workers[i].pc \in {"reading", "generating"}

(* Without imports: who reads or summarises a note is a worker of the main *)
(* window, holds the note in flight, and is alone with it.                 *)
ConsumersAreInFlight ==
  \A i, j \in Instances :
    Consuming(i) =>
      /\ i \in InMain /\ workers[i].note \in inFlight
      /\ Consuming(j) /\ i # j => workers[i].note # workers[j].note

IInv ==
  /\ TypeOK
  /\ OneIsLive
  /\ Kinds = {"new"} =>
       MarksAreOfRecordings /\ WorkIsOfRecordings /\ ConsumersAreInFlight
=============================================================================
