---------------------------- MODULE SummaryProofs ----------------------------
(* Proofs about the workers that summarise finished recordings, for any      *)
(* notes, windows, transcripts, recordings and edits.  The inductive         *)
(* invariant is IInv of SummaryWorker.  What is proved beside types is about *)
(* recordings: with imports, which are written as whole rows, the durability *)
(* of a recording does not hold.                                             *)
EXTENDS SummaryRefinement, TLAPS

NewOnly == MarksAreOfRecordings /\ WorkIsOfRecordings /\ ConsumersAreInFlight

WorkersTyped == workers \in [Instances -> Worker]

(* Nothing but the worker of instance i changes. *)
OnlyWorker(i) == \A j \in Instances \ {i} : workers'[j] = workers[j]

(* Nothing but the row of note n changes. *)
OnlyRow(n) == \A m \in Notes \ {n} : rows'[m] = rows[m]

LEMMA Elements ==
  ASSUME TypeOK
  PROVE  /\ \A n \in Notes : /\ rows[n] \in Rows
                             /\ rows[n].words \in 0..MaxWords
                             /\ rows[n].end \in 0..MaxRuns
                             /\ rows[n].needs \in BOOLEAN
                             /\ rows[n].start \in BOOLEAN
                             /\ live[n] \in {"no", "setup", "on"}
                             /\ owed[n] \in 0..MaxWords
         /\ \A i \in Instances : /\ workers[i] \in Worker
                                 /\ workers[i].row \in Rows
                                 /\ workers[i].note \in Notes
                                 /\ workers[i].queue \in SUBSET Job
                                 /\ workers[i].retry \in SUBSET Notes
                                 /\ workers[i].row.words \in 0..MaxWords
                                 /\ workers[i].row.start \in BOOLEAN
         /\ \A t \in titles : /\ t \in Title /\ t.note \in Notes
                              /\ t.row \in Rows
         /\ runs \in Nat /\ edits \in Nat /\ MaxRuns \in Nat
         /\ MaxWords \in Nat /\ MaxEdits \in Nat
<1>1. MaxRuns \in Nat /\ MaxWords \in Nat /\ MaxEdits \in Nat
  BY SummaryAssumption
<1>2. runs \in Nat /\ edits \in Nat
  BY <1>1 DEF TypeOK
<1>3. ASSUME NEW r \in Rows
      PROVE  /\ r.words \in 0..MaxWords /\ r.end \in 0..MaxRuns
             /\ r.needs \in BOOLEAN /\ r.start \in BOOLEAN
  BY DEF Rows
<1>4. ASSUME NEW n \in Notes
      PROVE  /\ rows[n] \in Rows /\ live[n] \in {"no", "setup", "on"}
             /\ owed[n] \in 0..MaxWords
  BY DEF TypeOK
<1>5. ASSUME NEW i \in Instances
      PROVE  /\ workers[i] \in Worker /\ workers[i].row \in Rows
             /\ workers[i].note \in Notes /\ workers[i].queue \in SUBSET Job
             /\ workers[i].retry \in SUBSET Notes
  BY DEF TypeOK, Worker
<1>6. ASSUME NEW t \in titles
      PROVE  t \in Title /\ t.note \in Notes /\ t.row \in Rows
  BY DEF TypeOK, Title
<1>7. QED
  BY <1>1, <1>2, <1>3, <1>4, <1>5, <1>6

LEMMA Shapes ==
  /\ NewRow \in Rows /\ NewRow.needs = FALSE
  /\ \A n \in Notes : /\ IdleWorker(n) \in Worker
                      /\ IdleWorker(n).pc = "idle" /\ IdleWorker(n).queue = {}
                      /\ IdleWorker(n).note = n
<1>1. NewRow \in Rows /\ NewRow.needs = FALSE
  BY SummaryAssumption DEF NewRow, Rows, NoHtml, Generated
<1>2. QED
  BY <1>1 DEF IdleWorker, Worker

-----------------------------------------------------------------------------
(* What the operations do to one row and to one worker.                      *)

LEMMA RowsKept ==
  ASSUME TypeOK, NEW n \in Notes, NEW r \in Rows, rows' = [rows EXCEPT ![n] = r]
  PROVE  rows' \in [Notes -> Rows] /\ rows'[n] = r /\ OnlyRow(n)
BY DEF TypeOK, OnlyRow

LEMMA WorkerKept ==
  ASSUME TypeOK, NEW i \in Instances, NEW w \in Worker,
         workers' = [workers EXCEPT ![i] = w]
  PROVE  WorkersTyped' /\ workers'[i] = w /\ OnlyWorker(i)
BY DEF TypeOK, WorkersTyped, OnlyWorker

LEMMA LeaveKeeps ==
  ASSUME TypeOK, NEW i \in Instances, NEW retry \in SUBSET Notes, Leave(i, retry)
  PROVE  /\ WorkersTyped' /\ OnlyWorker(i) /\ inFlight' \in SUBSET Notes
         /\ workers'[i].pc = "looping" /\ workers'[i].queue = workers[i].queue
         /\ inFlight' = IF i \in InMain THEN inFlight \ {workers[i].note}
                                        ELSE inFlight
<1> DEFINE w == [workers[i] EXCEPT !.pc = "looping", !.retry = retry]
<1>1. w \in Worker /\ w.pc = "looping" /\ w.queue = workers[i].queue
  BY Elements DEF Worker
<1>2. workers' = [workers EXCEPT ![i] = w]
  BY DEF Leave, TypeOK
<1> HIDE DEF w
<1>3. inFlight' = IF i \in InMain THEN inFlight \ {workers[i].note} ELSE inFlight
  BY DEF Leave
<1>4. QED
  BY <1>1, <1>2, <1>3, WorkerKept DEF TypeOK

LEMMA GotoKeeps ==
  ASSUME TypeOK, NEW i \in Instances, NEW pc \in {"idle", "generating"}, Goto(i, pc)
  PROVE  /\ WorkersTyped' /\ OnlyWorker(i) /\ workers'[i].pc = pc
         /\ workers'[i].queue = workers[i].queue
<1> DEFINE w == [workers[i] EXCEPT !.pc = pc]
<1>1. w \in Worker /\ w.pc = pc /\ w.queue = workers[i].queue
  BY Elements DEF Worker
<1>2. workers' = [workers EXCEPT ![i] = w]
  BY DEF Goto, TypeOK
<1> HIDE DEF w
<1>3. QED
  BY <1>1, <1>2, WorkerKept

LEMMA StartedKeeps ==
  ASSUME NEW r \in Rows
  PROVE  LET new == [r EXCEPT !.start = TRUE, !.end = 0, !.needs = FALSE]
         IN  /\ new \in Rows /\ new.start = TRUE /\ new.end = 0
             /\ new.needs = FALSE
<1>1. 0 \in 0..MaxRuns
  BY SummaryAssumption
<1>2. QED
  BY <1>1 DEF Rows

LEMMA EndedKeeps ==
  ASSUME NEW r \in Rows, NEW end \in 0..MaxRuns, NEW needs \in BOOLEAN
  PROVE  LET new == [r EXCEPT !.end = end, !.needs = needs]
         IN  /\ new \in Rows /\ new.start = r.start /\ new.end = end
             /\ new.needs = needs /\ new.words = r.words
BY DEF Rows

(* The compare-and-set changes a marked row only, and only to unmark it.     *)
LEMMA SavedKeeps ==
  ASSUME NEW r \in Rows, NEW snap \in Rows
  PROVE  /\ Saved(r, snap) \in Rows
         /\ Saved(r, snap).words = r.words /\ Saved(r, snap).start = r.start
         /\ Saved(r, snap).end = r.end /\ Saved(r, snap).title = r.title
         /\ Saved(r, snap) # r =>
              /\ Saved(r, snap).needs = FALSE
              /\ r.needs /\ r.words = snap.words /\ r.end = snap.end
              /\ Saved(r, snap).html # r.html => r.html = snap.html
<1>1. CASE r.needs /\ r.words = snap.words /\ r.end = snap.end
  <2> DEFINE new == [r EXCEPT !.auto = snap.words, !.needs = FALSE,
                              !.html = IF @ = snap.html THEN Generated ELSE @]
  <2>1. Saved(r, snap) = new
    BY <1>1 DEF Saved
  <2> DEFINE h == IF r.html = snap.html THEN Generated ELSE r.html
  <2>2. h \in 0..Generated /\ (h # r.html => r.html = snap.html)
    <3>1. Generated \in 0..Generated
      BY SummaryAssumption DEF Generated
    <3>2. r.html \in 0..Generated
      BY DEF Rows
    <3>3. QED
      BY <3>1, <3>2
  <2>3. new = [r EXCEPT !.auto = snap.words, !.needs = FALSE, !.html = h]
    OBVIOUS
  <2> HIDE DEF h
  <2>4. /\ new \in Rows /\ new.words = r.words /\ new.start = r.start
        /\ new.end = r.end /\ new.title = r.title /\ new.needs = FALSE
        /\ new.html = h
    BY <2>2, <2>3 DEF Rows
  <2> HIDE DEF new
  <2>5. QED
    BY <1>1, <2>1, <2>2, <2>4
<1>2. CASE ~(r.needs /\ r.words = snap.words /\ r.end = snap.end)
  BY <1>2 DEF Saved
<1>3. QED
  BY <1>1, <1>2

LEMMA TitledKeeps ==
  ASSUME NEW r \in Rows, NEW snap \in Rows
  PROVE  /\ Titled(r, snap) \in Rows
         /\ Titled(r, snap).words = r.words /\ Titled(r, snap).start = r.start
         /\ Titled(r, snap).end = r.end /\ Titled(r, snap).needs = r.needs
         /\ Titled(r, snap).html = r.html
         /\ Titled(r, snap).title # r.title => r.title = snap.title
BY DEF Titled, Rows

LEMMA TitleOfKeeps ==
  ASSUME TypeOK, NEW n \in Notes, NEW r \in Rows
  PROVE  /\ TitleOf(n, r) \in SUBSET Title
         /\ \A t \in TitleOf(n, r) \ titles :
              t.row = r /\ t.pc = "generating" /\ WantsTitle(t.note, t.row)
BY DEF TypeOK, TitleOf, Title

-----------------------------------------------------------------------------
(* What a step keeps of the parts that are about recordings only.            *)

LEMMA MarksKept ==
  ASSUME MarksAreOfRecordings, UNCHANGED <<rows, live, owed>>
  PROVE  MarksAreOfRecordings'
BY DEF MarksAreOfRecordings, Listed, Enough

(* A worker that reads and generates nothing is in nobody's way.             *)
LEMMA IdleIsSafe ==
  ASSUME TypeOK, NEW i \in Instances, OnlyWorker(i),
         ConsumersAreInFlight, ~Consuming(i)',
         inFlight' \in {inFlight, inFlight \ {workers[i].note}},
         inFlight' # inFlight => Consuming(i)
  PROVE  ConsumersAreInFlight'
<1>1. \A j \in Instances : Consuming(j)' =>
        Consuming(j) /\ j # i /\ workers'[j] = workers[j]
  BY DEF OnlyWorker, Consuming
<1>2. QED
  BY <1>1 DEF ConsumersAreInFlight

(* A worker that goes on with its note.                                      *)
LEMMA ConsumerGoesOn ==
  ASSUME TypeOK, NEW i \in Instances, OnlyWorker(i), Consuming(i),
         workers'[i].note = workers[i].note, ConsumersAreInFlight, inFlight' = inFlight
  PROVE  ConsumersAreInFlight'
<1>1. \A j \in Instances : workers'[j].note = workers[j].note
                           /\ (Consuming(j)' => Consuming(j))
  BY DEF OnlyWorker, Consuming
<1>2. QED
  BY <1>1 DEF ConsumersAreInFlight

LEMMA WorkKept ==
  ASSUME TypeOK, NEW i \in Instances, OnlyWorker(i), WorkIsOfRecordings,
         \A q \in workers'[i].queue : q.start,
         workers'[i].pc \notin {"clearing", "claiming"},
         workers'[i].pc = "generating" => workers'[i].row.start,
         \A t \in titles' \ titles :
           t.row.start /\ t.pc = "generating" /\ WantsTitle(t.note, t.row)
  PROVE  WorkIsOfRecordings'
<1>1. \A j \in Instances :
        /\ \A q \in workers'[j].queue : q.start
        /\ workers'[j].pc \notin {"clearing", "claiming"}
        /\ workers'[j].pc = "generating" => workers'[j].row.start
  BY DEF WorkIsOfRecordings, OnlyWorker
<1>2. \A t \in titles' :
        t.row.start /\ t.pc = "generating" /\ WantsTitle(t.note, t.row)
  BY DEF WorkIsOfRecordings
<1>3. QED
  BY <1>1, <1>2 DEF WorkIsOfRecordings, WantsTitle

-----------------------------------------------------------------------------
(* The steps of a worker.                                                    *)

LEMMA NobodyElse ==
  ASSUME OneIsLive, UNCHANGED <<live, runs>>
  PROVE  OneIsLive'
BY DEF OneIsLive

LEMMA PollKeeps ==
  ASSUME TypeOK, OneIsLive, NEW i \in Instances, Poll(i)
  PROVE  TypeOK' /\ OneIsLive' /\ (NewOnly => NewOnly')
<1> DEFINE pending == {n \in Notes \ workers[i].retry : Listed(rows[n])}
           queue == {[note |-> n, start |-> rows[n].start] : n \in pending}
           w == [workers[i] EXCEPT !.pc = "looping", !.queue = queue]
<1>1. /\ UNCHANGED <<rows, live, inFlight, titles, runs, edits, owed>>
      /\ workers[i].pc = "idle" /\ workers' = [workers EXCEPT ![i] = w]
  BY DEF Poll, TypeOK
<1>2. queue \subseteq Job
  BY Elements DEF Job
<1>3. MarksAreOfRecordings => \A q \in queue : q.start
  BY DEF MarksAreOfRecordings, Listed
<1> HIDE DEF queue
<1>4. w \in Worker /\ w.pc = "looping" /\ w.queue = queue
  BY <1>2, Elements DEF Worker
<1> HIDE DEF w
<1>5. WorkersTyped' /\ workers'[i] = w /\ OnlyWorker(i)
  BY <1>1, <1>4, WorkerKept
<1>6. TypeOK' /\ OneIsLive'
  BY <1>1, <1>5, NobodyElse DEF TypeOK, WorkersTyped
<1>7. ASSUME NewOnly PROVE NewOnly'
  <2>1. MarksAreOfRecordings'
    BY <1>1, <1>7, MarksKept DEF NewOnly
  <2>2. WorkIsOfRecordings'
    BY <1>1, <1>3, <1>4, <1>5, <1>7, WorkKept DEF NewOnly
  <2>3. ConsumersAreInFlight'
    BY <1>1, <1>4, <1>5, <1>7, IdleIsSafe DEF NewOnly, Consuming
  <2>4. QED
    BY <2>1, <2>2, <2>3 DEF NewOnly
<1>8. QED
  BY <1>6, <1>7

LEMMA LoopEndsKeeps ==
  ASSUME TypeOK, OneIsLive, NEW i \in Instances, LoopEnds(i)
  PROVE  TypeOK' /\ OneIsLive' /\ (NewOnly => NewOnly')
<1>1. /\ UNCHANGED <<rows, live, inFlight, titles, runs, edits, owed>>
      /\ workers[i].pc = "looping" /\ workers[i].queue = {} /\ Goto(i, "idle")
  BY DEF LoopEnds
<1>2. /\ WorkersTyped' /\ OnlyWorker(i) /\ workers'[i].pc = "idle"
      /\ workers'[i].queue = workers[i].queue
  BY <1>1, GotoKeeps
<1>3. TypeOK' /\ OneIsLive'
  BY <1>1, <1>2, NobodyElse DEF TypeOK, WorkersTyped
<1>4. ASSUME NewOnly PROVE NewOnly'
  <2>1. MarksAreOfRecordings'
    BY <1>1, <1>4, MarksKept DEF NewOnly
  <2>2. WorkIsOfRecordings'
    BY <1>1, <1>2, <1>4, WorkKept DEF NewOnly
  <2>3. ConsumersAreInFlight'
    BY <1>1, <1>2, <1>4, IdleIsSafe DEF NewOnly, Consuming
  <2>4. QED
    BY <2>1, <2>2, <2>3 DEF NewOnly
<1>5. QED
  BY <1>3, <1>4

LEMMA NextNoteKeeps ==
  ASSUME TypeOK, OneIsLive, NEW i \in Instances, NextNote(i)
  PROVE  TypeOK' /\ OneIsLive' /\ (NewOnly => NewOnly')
<1>1. /\ UNCHANGED <<rows, live, titles, runs, edits, owed>>
      /\ workers[i].pc = "looping"
  BY DEF NextNote
<1>2. PICK q \in workers[i].queue :
        /\ workers' = [workers EXCEPT
             ![i].queue = @ \ {q},
             ![i].pc = IF Skipped(i, q) THEN "looping" ELSE "reading",
             ![i].note = IF Skipped(i, q) THEN @ ELSE q.note]
        /\ inFlight' = IF q.start /\ ~Skipped(i, q) THEN inFlight \cup {q.note}
                                                    ELSE inFlight
  BY DEF NextNote
<1>3. q.note \in Notes /\ workers[i].queue \in SUBSET Job /\ workers[i].note \in Notes
  BY Elements DEF Job
<1> DEFINE queue == workers[i].queue \ {q}
           pc == IF Skipped(i, q) THEN "looping" ELSE "reading"
           note == IF Skipped(i, q) THEN workers[i].note ELSE q.note
           w == [workers[i] EXCEPT !.queue = queue, !.pc = pc, !.note = note]
<1>4. workers' = [workers EXCEPT ![i] = w]
  BY <1>2 DEF TypeOK
<1>5. queue \subseteq Job /\ pc \in {"looping", "reading"} /\ note \in Notes
      /\ queue \subseteq workers[i].queue
  BY <1>3
<1> HIDE DEF queue, pc, note
<1>6. w \in Worker /\ w.pc = pc /\ w.queue = queue /\ w.note = note
  BY <1>5, Elements DEF Worker
<1> HIDE DEF w
<1>7. WorkersTyped' /\ workers'[i] = w /\ OnlyWorker(i)
  BY <1>4, <1>6, WorkerKept
<1>8. inFlight' \in SUBSET Notes /\ inFlight \subseteq inFlight'
  BY <1>2, <1>3 DEF TypeOK
<1>9. TypeOK' /\ OneIsLive'
  BY <1>1, <1>7, <1>8, NobodyElse DEF TypeOK, WorkersTyped
<1>10. ASSUME NewOnly PROVE NewOnly'
  <2>1. MarksAreOfRecordings'
    BY <1>1, <1>10, MarksKept DEF NewOnly
  <2>2. q.start
    BY <1>10 DEF NewOnly, WorkIsOfRecordings
  <2>3. WorkIsOfRecordings'
    <3>1. \A p \in workers'[i].queue : p.start
      BY <1>5, <1>6, <1>7, <1>10 DEF NewOnly, WorkIsOfRecordings
    <3>2. QED
      BY <1>1, <1>5, <1>6, <1>7, <1>10, <3>1, WorkKept DEF NewOnly
  <2>4. CASE Skipped(i, q)
    <3>1. inFlight' = inFlight /\ ~Consuming(i)'
      BY <1>2, <1>6, <1>7, <2>4 DEF pc, Consuming
    <3>2. ConsumersAreInFlight'
      BY <1>7, <1>10, <3>1, IdleIsSafe DEF NewOnly
    <3>3. QED
      BY <2>1, <2>3, <3>2 DEF NewOnly
  <2>5. CASE ~Skipped(i, q)
    <3>1. i \in InMain /\ q.note \notin inFlight
      BY <2>2, <2>5 DEF Skipped
    <3>2. inFlight' = inFlight \cup {q.note} /\ workers'[i].note = q.note
      BY <1>2, <1>6, <1>7, <2>2, <2>5 DEF note
    <3>3. \A j \in Instances \ {i} :
            workers'[j] = workers[j] /\ (Consuming(j)' => Consuming(j))
      BY <1>7 DEF OnlyWorker, Consuming
    <3>4. \A j \in Instances \ {i} : Consuming(j) =>
            j \in InMain /\ workers[j].note \in inFlight
      BY <1>10 DEF NewOnly, ConsumersAreInFlight
    <3>5. \A j, k \in Instances \ {i} : Consuming(j) /\ Consuming(k) /\ j # k
            => workers[j].note # workers[k].note
      BY <1>10 DEF NewOnly, ConsumersAreInFlight
    <3>6. ConsumersAreInFlight'
      BY <3>1, <3>2, <3>3, <3>4, <3>5 DEF ConsumersAreInFlight
    <3>7. QED
      BY <2>1, <2>3, <3>6 DEF NewOnly
  <2>6. QED
    BY <2>4, <2>5
<1>11. QED
  BY <1>9, <1>10

(* A worker that is through with its note.                                   *)
LEMMA LeaveIsSafe ==
  ASSUME TypeOK, NewOnly, NEW i \in Instances, NEW retry \in SUBSET Notes,
         Leave(i, retry), Consuming(i)
  PROVE  ConsumersAreInFlight'
<1>1. /\ OnlyWorker(i) /\ workers'[i].pc = "looping"
      /\ inFlight' \in {inFlight, inFlight \ {workers[i].note}}
  BY LeaveKeeps
<1>2. QED
  BY <1>1, IdleIsSafe DEF NewOnly, Consuming

LEMMA ReadKeeps ==
  ASSUME TypeOK, OneIsLive, NEW i \in Instances, Read(i)
  PROVE  TypeOK' /\ OneIsLive' /\ (NewOnly => NewOnly')
<1> DEFINE r == rows[workers[i].note]
<1>1. /\ UNCHANGED <<rows, live, titles, runs, edits, owed>>
      /\ workers[i].pc = "reading" /\ Consuming(i)
  BY DEF Read, Consuming
<1>2. CASE Listed(r)
  <2> DEFINE pc == IF r.start THEN "generating"
                   ELSE IF Enough(r) THEN "claiming" ELSE "clearing"
             w == [workers[i] EXCEPT !.row = r, !.pc = pc]
  <2>1. inFlight' = inFlight /\ workers' = [workers EXCEPT ![i] = w]
    BY <1>2 DEF Read, TypeOK
  <2>2. r \in Rows /\ pc \in {"generating", "claiming", "clearing"}
    BY Elements
  <2>3. NewOnly => r.start /\ pc = "generating"
    BY <1>2, Elements DEF NewOnly, MarksAreOfRecordings, Listed
  <2> HIDE DEF r, pc
  <2>4. /\ w \in Worker /\ w.pc = pc /\ w.queue = workers[i].queue
        /\ w.note = workers[i].note /\ w.row = r
    BY <2>2, Elements DEF Worker
  <2> HIDE DEF w
  <2>5. WorkersTyped' /\ workers'[i] = w /\ OnlyWorker(i)
    BY <2>1, <2>4, WorkerKept
  <2>6. TypeOK' /\ OneIsLive'
    BY <1>1, <2>1, <2>5, NobodyElse DEF TypeOK, WorkersTyped
  <2>7. ASSUME NewOnly PROVE NewOnly'
    <3>1. MarksAreOfRecordings'
      BY <1>1, <2>7, MarksKept DEF NewOnly
    <3>2. WorkIsOfRecordings'
      BY <1>1, <2>3, <2>4, <2>5, <2>7, WorkKept DEF NewOnly, WorkIsOfRecordings
    <3>3. ConsumersAreInFlight'
      BY <1>1, <2>1, <2>4, <2>5, <2>7, ConsumerGoesOn DEF NewOnly
    <3>4. QED
      BY <3>1, <3>2, <3>3 DEF NewOnly
  <2>8. QED
    BY <2>6, <2>7
<1>3. CASE ~Listed(r)
  <2>1. Leave(i, workers[i].retry) /\ workers[i].retry \in SUBSET Notes
    BY <1>3, Elements DEF Read
  <2>2. /\ WorkersTyped' /\ OnlyWorker(i) /\ inFlight' \in SUBSET Notes
        /\ workers'[i].pc = "looping" /\ workers'[i].queue = workers[i].queue
    BY <2>1, LeaveKeeps
  <2>3. TypeOK' /\ OneIsLive'
    BY <1>1, <2>2, NobodyElse DEF TypeOK, WorkersTyped
  <2>4. ASSUME NewOnly PROVE NewOnly'
    <3>1. MarksAreOfRecordings'
      BY <1>1, <2>4, MarksKept DEF NewOnly
    <3>2. WorkIsOfRecordings'
      BY <1>1, <2>2, <2>4, WorkKept DEF NewOnly, WorkIsOfRecordings
    <3>3. ConsumersAreInFlight'
      BY <1>1, <2>1, <2>4, LeaveIsSafe
    <3>4. QED
      BY <3>1, <3>2, <3>3 DEF NewOnly
  <2>5. QED
    BY <2>3, <2>4
<1>4. QED
  BY <1>2, <1>3

(* A whole row is written: only imports are.                                 *)
LEMMA ClearKeeps ==
  ASSUME TypeOK, OneIsLive, NEW i \in Instances, Clear(i)
  PROVE  TypeOK' /\ OneIsLive' /\ (NewOnly => NewOnly')
<1>1. /\ UNCHANGED <<live, titles, runs, edits, owed>>
      /\ workers[i].pc = "clearing" /\ Leave(i, workers[i].retry)
      /\ Upsert(workers[i].note, [workers[i].row EXCEPT !.needs = FALSE])
  BY DEF Clear
<1>2. [workers[i].row EXCEPT !.needs = FALSE] \in Rows
  BY Elements DEF Rows
<1>3. rows' \in [Notes -> Rows]
  BY <1>1, <1>2, Elements, RowsKept DEF Upsert
<1>4. WorkersTyped' /\ inFlight' \in SUBSET Notes
  BY <1>1, Elements, LeaveKeeps
<1>5. TypeOK' /\ OneIsLive'
  BY <1>1, <1>3, <1>4, NobodyElse DEF TypeOK, WorkersTyped
<1>6. ~NewOnly
  BY <1>1 DEF NewOnly, WorkIsOfRecordings
<1>7. QED
  BY <1>5, <1>6

LEMMA ClaimKeeps ==
  ASSUME TypeOK, OneIsLive, NEW i \in Instances, Claim(i)
  PROVE  TypeOK' /\ OneIsLive' /\ (NewOnly => NewOnly')
<1>1. /\ UNCHANGED <<live, inFlight, titles, runs, edits, owed>>
      /\ workers[i].pc = "claiming" /\ Goto(i, "generating")
      /\ Upsert(workers[i].note, [workers[i].row EXCEPT !.needs = FALSE])
  BY DEF Claim
<1>2. [workers[i].row EXCEPT !.needs = FALSE] \in Rows
  BY Elements DEF Rows
<1>3. rows' \in [Notes -> Rows]
  BY <1>1, <1>2, Elements, RowsKept DEF Upsert
<1>4. WorkersTyped'
  BY <1>1, GotoKeeps
<1>5. TypeOK' /\ OneIsLive'
  BY <1>1, <1>3, <1>4, NobodyElse DEF TypeOK, WorkersTyped
<1>6. ~NewOnly
  BY <1>1 DEF NewOnly, WorkIsOfRecordings
<1>7. QED
  BY <1>5, <1>6

LEMMA SaveImportKeeps ==
  ASSUME TypeOK, OneIsLive, NEW i \in Instances, SaveImport(i)
  PROVE  TypeOK' /\ OneIsLive' /\ (NewOnly => NewOnly')
<1> DEFINE w == workers[i]
           r == [w.row EXCEPT !.auto = w.row.words, !.html = Generated,
                              !.needs = FALSE]
<1>1. /\ UNCHANGED <<live, runs, edits, owed>>
      /\ w.pc = "generating" /\ ~w.row.start /\ Upsert(w.note, r)
      /\ titles' = TitleOf(w.note, w.row) /\ Leave(i, w.retry \ {w.note})
  BY DEF SaveImport
<1>2. w.row \in Rows /\ w.note \in Notes /\ w.retry \ {w.note} \in SUBSET Notes
  BY Elements
<1>3. r \in Rows
  <2>1. Generated \in 0..Generated
    BY SummaryAssumption DEF Generated
  <2>2. QED
    BY <1>2, <2>1 DEF Rows
<1> HIDE DEF r
<1>4. rows' \in [Notes -> Rows]
  BY <1>1, <1>2, <1>3, RowsKept DEF Upsert
<1>5. WorkersTyped' /\ inFlight' \in SUBSET Notes
  BY <1>1, <1>2, LeaveKeeps
<1>6. titles' \in SUBSET Title
  BY <1>1, <1>2, TitleOfKeeps
<1>7. TypeOK' /\ OneIsLive'
  BY <1>1, <1>4, <1>5, <1>6, NobodyElse DEF TypeOK, WorkersTyped
<1>8. ~NewOnly
  BY <1>1 DEF NewOnly, WorkIsOfRecordings
<1>9. QED
  BY <1>7, <1>8

LEMMA GenerateFailsKeeps ==
  ASSUME TypeOK, OneIsLive, NEW i \in Instances, GenerateFails(i)
  PROVE  TypeOK' /\ OneIsLive' /\ (NewOnly => NewOnly')
<1> DEFINE w == workers[i]
           retry == IF w.row.start THEN w.retry \cup {w.note} ELSE w.retry
<1>1. /\ UNCHANGED <<rows, live, titles, runs, edits, owed>>
      /\ w.pc = "generating" /\ Consuming(i) /\ Leave(i, retry)
  BY DEF GenerateFails, Consuming
<1>2. retry \in SUBSET Notes
  BY Elements
<1> HIDE DEF retry
<1>3. /\ WorkersTyped' /\ OnlyWorker(i) /\ inFlight' \in SUBSET Notes
      /\ workers'[i].pc = "looping" /\ workers'[i].queue = workers[i].queue
  BY <1>1, <1>2, LeaveKeeps
<1>4. TypeOK' /\ OneIsLive'
  BY <1>1, <1>3, NobodyElse DEF TypeOK, WorkersTyped
<1>5. ASSUME NewOnly PROVE NewOnly'
  <2>1. MarksAreOfRecordings'
    BY <1>1, <1>5, MarksKept DEF NewOnly
  <2>2. WorkIsOfRecordings'
    BY <1>1, <1>3, <1>5, WorkKept DEF NewOnly, WorkIsOfRecordings
  <2>3. ConsumersAreInFlight'
    BY <1>1, <1>2, <1>5, LeaveIsSafe
  <2>4. QED
    BY <2>1, <2>2, <2>3 DEF NewOnly
<1>6. QED
  BY <1>4, <1>5

LEMMA RetryOverKeeps ==
  ASSUME TypeOK, OneIsLive, NEW i \in Instances, RetryOver(i)
  PROVE  TypeOK' /\ OneIsLive' /\ (NewOnly => NewOnly')
<1>1. UNCHANGED <<rows, live, inFlight, titles, runs, edits, owed>>
  BY DEF RetryOver
<1>2. PICK n \in workers[i].retry : workers' = [workers EXCEPT ![i].retry = @ \ {n}]
  BY DEF RetryOver
<1> DEFINE w == [workers[i] EXCEPT !.retry = @ \ {n}]
<1>3. /\ w \in Worker /\ w.pc = workers[i].pc /\ w.queue = workers[i].queue
      /\ w.note = workers[i].note /\ w.row = workers[i].row
  BY Elements DEF Worker
<1>4. workers' = [workers EXCEPT ![i] = w]
  BY <1>2 DEF TypeOK
<1> HIDE DEF w
<1>5. WorkersTyped' /\ workers'[i] = w /\ OnlyWorker(i)
  BY <1>3, <1>4, WorkerKept
<1>6. TypeOK' /\ OneIsLive'
  BY <1>1, <1>5, NobodyElse DEF TypeOK, WorkersTyped
<1>7. ASSUME NewOnly PROVE NewOnly'
  <2>1. MarksAreOfRecordings'
    BY <1>1, <1>7, MarksKept DEF NewOnly
  <2>2. WorkIsOfRecordings'
    BY <1>1, <1>3, <1>5, <1>7, WorkKept DEF NewOnly, WorkIsOfRecordings
  <2>3. ConsumersAreInFlight'
    <3>1. CASE Consuming(i)
      BY <1>1, <1>3, <1>5, <1>7, <3>1, ConsumerGoesOn DEF NewOnly
    <3>2. CASE ~Consuming(i)
      <4>1. ~Consuming(i)'
        BY <1>3, <1>5, <3>2 DEF Consuming
      <4>2. QED
        BY <1>1, <1>5, <1>7, <4>1, IdleIsSafe DEF NewOnly
    <3>3. QED
      BY <3>1, <3>2
  <2>4. QED
    BY <2>1, <2>2, <2>3 DEF NewOnly
<1>8. QED
  BY <1>6, <1>7

(* The summary of a recording: if it is stored, the transcript that was owed *)
(* a summary is the one it was generated from.                               *)
LEMMA SaveRecordingKeeps ==
  ASSUME TypeOK, OneIsLive, NEW i \in Instances, SaveRecording(i)
  PROVE  TypeOK' /\ OneIsLive' /\ (NewOnly => NewOnly')
<1> DEFINE w == workers[i]
           old == rows[w.note]
           new == Saved(old, w.row)
           done == new # old
           retry == IF done THEN w.retry \ {w.note} ELSE w.retry
<1>1. /\ UNCHANGED <<live, runs, edits>>
      /\ w.pc = "generating" /\ Consuming(i) /\ w.row.start
      /\ rows' = [rows EXCEPT ![w.note] = new]
      /\ titles' = IF done THEN TitleOf(w.note, w.row) ELSE titles
      /\ owed' = [owed EXCEPT ![w.note] = IF done /\ w.row.words = @ THEN 0 ELSE @]
      /\ Leave(i, retry)
  BY DEF SaveRecording, Consuming
<1>2. /\ w.row \in Rows /\ w.note \in Notes /\ retry \in SUBSET Notes /\ old \in Rows
      /\ w.queue \in SUBSET Job
  BY Elements
<1>3. /\ new \in Rows /\ new.words = old.words /\ new.start = old.start
      /\ new.end = old.end
      /\ done => new.needs = FALSE /\ old.needs /\ old.words = w.row.words
  BY <1>2, SavedKeeps
<1> HIDE DEF new, retry
<1>4. rows' \in [Notes -> Rows] /\ rows'[w.note] = new /\ OnlyRow(w.note)
  BY <1>1, <1>2, <1>3, RowsKept
<1>5. /\ WorkersTyped' /\ OnlyWorker(i) /\ inFlight' \in SUBSET Notes
      /\ workers'[i].pc = "looping" /\ workers'[i].queue = workers[i].queue
  BY <1>1, <1>2, LeaveKeeps
<1>6. /\ titles' \in SUBSET Title
      /\ \A t \in titles' \ titles :
           t.row = w.row /\ t.pc = "generating" /\ WantsTitle(t.note, t.row)
  BY <1>1, <1>2, TitleOfKeeps DEF TypeOK
<1>7. /\ owed' \in [Notes -> 0..MaxWords]
      /\ \A n \in Notes \ {w.note} : owed'[n] = owed[n]
      /\ owed'[w.note] = IF done /\ w.row.words = owed[w.note] THEN 0 ELSE owed[w.note]
  BY <1>1, <1>2, SummaryAssumption DEF TypeOK
<1>8. TypeOK' /\ OneIsLive'
  BY <1>1, <1>4, <1>5, <1>6, <1>7, NobodyElse DEF TypeOK, WorkersTyped
<1>9. ASSUME NewOnly PROVE NewOnly'
  <2>1. MarksAreOfRecordings'
    <3>1. SUFFICES ASSUME NEW n \in Notes
                   PROVE  /\ rows'[n].needs => Listed(rows'[n]) /\ rows'[n].start /\ live'[n] = "no"
                          /\ live'[n] = "on" => rows'[n].start /\ rows'[n].end = 0
                          /\ owed'[n] # 0 => rows'[n].needs /\ rows'[n].words = owed'[n]
      BY DEF MarksAreOfRecordings, Listed, Enough
    <3>2. CASE n # w.note
      BY <1>1, <1>4, <1>7, <1>9, <3>2 DEF OnlyRow, NewOnly, MarksAreOfRecordings
    <3>3. CASE n = w.note /\ done
      BY <1>1, <1>3, <1>4, <1>7, <1>9, <3>3 DEF NewOnly, MarksAreOfRecordings
    <3>4. CASE n = w.note /\ ~done
      BY <1>1, <1>4, <1>7, <1>9, <3>4 DEF NewOnly, MarksAreOfRecordings
    <3>5. QED
      BY <3>2, <3>3, <3>4
  <2>2. WorkIsOfRecordings'
    BY <1>1, <1>5, <1>6, <1>9, WorkKept DEF NewOnly, WorkIsOfRecordings
  <2>3. ConsumersAreInFlight'
    BY <1>1, <1>2, <1>9, LeaveIsSafe
  <2>4. QED
    BY <2>1, <2>2, <2>3 DEF NewOnly
<1>10. QED
  BY <1>8, <1>9

-----------------------------------------------------------------------------
(* Titles, the listener and the user: the workers stand still.               *)

LEMMA OthersKept ==
  ASSUME WorkIsOfRecordings, ConsumersAreInFlight,
         UNCHANGED <<workers, inFlight>>, titles' \subseteq titles
  PROVE  WorkIsOfRecordings' /\ ConsumersAreInFlight'
<1>1. WorkIsOfRecordings'
  BY DEF WorkIsOfRecordings, WantsTitle
<1>2. ConsumersAreInFlight'
  BY DEF ConsumersAreInFlight, Consuming
<1>3. QED
  BY <1>1, <1>2

(* A row changes in columns that say nothing about its recording.            *)
LEMMA MarksKeptBy ==
  ASSUME MarksAreOfRecordings, NEW n \in Notes, OnlyRow(n),
         rows'[n].words = rows[n].words, rows'[n].start = rows[n].start,
         rows'[n].end = rows[n].end, rows'[n].needs = rows[n].needs,
         UNCHANGED <<live, owed>>
  PROVE  MarksAreOfRecordings'
<1>1. SUFFICES ASSUME NEW m \in Notes
               PROVE  /\ rows'[m].needs => /\ Listed(rows'[m]) /\ rows'[m].start
                                           /\ live'[m] = "no"
                      /\ live'[m] = "on" => rows'[m].start /\ rows'[m].end = 0
                      /\ owed'[m] # 0 => rows'[m].needs /\ rows'[m].words = owed'[m]
  BY DEF MarksAreOfRecordings, Listed, Enough
<1>2. /\ rows[m].needs => Listed(rows[m]) /\ rows[m].start /\ live[m] = "no"
      /\ live[m] = "on" => rows[m].start /\ rows[m].end = 0
      /\ owed[m] # 0 => rows[m].needs /\ rows[m].words = owed[m]
  BY DEF MarksAreOfRecordings
<1>3. CASE m = n
  BY <1>2, <1>3 DEF Listed, Enough
<1>4. CASE m # n
  BY <1>2, <1>4 DEF OnlyRow
<1>5. QED
  BY <1>3, <1>4

LEMMA TitleKeeps ==
  ASSUME TypeOK, OneIsLive, NEW t \in titles, GenerateTitle(t)
  PROVE  TypeOK' /\ OneIsLive' /\ (NewOnly => NewOnly')
<1>1. /\ UNCHANGED <<live, workers, inFlight, runs, edits, owed>>
      /\ t \in Title /\ t.note \in Notes /\ t.row \in Rows
  BY Elements DEF GenerateTitle, TitleFails, TitleRecording, TitleRead, TitleWrite
<1>2. CASE TitleFails(t)
  <2>1. titles' \subseteq titles /\ rows' = rows
    BY <1>2 DEF TitleFails, DropTitle
  <2>2. QED
    BY <1>1, <2>1, NobodyElse, OthersKept, MarksKept DEF TypeOK, NewOnly
<1>3. CASE TitleRecording(t)
  <2> DEFINE r == Titled(rows[t.note], t.row)
  <2>1. titles' \subseteq titles /\ rows' = [rows EXCEPT ![t.note] = r]
    BY <1>3 DEF TitleRecording, DropTitle, Upsert
  <2>2. /\ r \in Rows /\ r.words = rows[t.note].words /\ r.start = rows[t.note].start
        /\ r.end = rows[t.note].end /\ r.needs = rows[t.note].needs
    BY <1>1, Elements, TitledKeeps
  <2> HIDE DEF r
  <2>3. rows' \in [Notes -> Rows] /\ rows'[t.note] = r /\ OnlyRow(t.note)
    BY <1>1, <2>1, <2>2, RowsKept
  <2>4. TypeOK' /\ OneIsLive'
    BY <1>1, <2>1, <2>3, NobodyElse DEF TypeOK
  <2>5. ASSUME NewOnly PROVE NewOnly'
    BY <1>1, <2>1, <2>2, <2>3, <2>5, OthersKept, MarksKeptBy DEF NewOnly
  <2>6. QED
    BY <2>4, <2>5
<1>4. CASE TitleRead(t)
  <2> DEFINE u == [t EXCEPT !.row = rows[t.note], !.pc = "writing"]
  <2>1. titles' = (titles \ {t}) \cup {u} /\ rows' = rows /\ ~t.row.start
    BY <1>4 DEF TitleRead
  <2>2. u \in Title
    BY <1>1, Elements DEF Title
  <2> HIDE DEF u
  <2>3. TypeOK' /\ OneIsLive'
    BY <1>1, <2>1, <2>2, NobodyElse DEF TypeOK
  <2>4. ~NewOnly
    BY <2>1 DEF NewOnly, WorkIsOfRecordings
  <2>5. QED
    BY <2>3, <2>4
<1>5. CASE TitleWrite(t)
  <2> DEFINE r == [t.row EXCEPT !.title = "generated"]
  <2>1. /\ titles' \subseteq titles /\ rows' = [rows EXCEPT ![t.note] = r]
        /\ t.pc = "writing"
    BY <1>5 DEF TitleWrite, DropTitle, Upsert
  <2>2. r \in Rows
    BY <1>1 DEF Rows
  <2> HIDE DEF r
  <2>3. rows' \in [Notes -> Rows]
    BY <1>1, <2>1, <2>2, RowsKept
  <2>4. TypeOK' /\ OneIsLive'
    BY <1>1, <2>1, <2>3, NobodyElse DEF TypeOK
  <2>5. ~NewOnly
    BY <2>1 DEF NewOnly, WorkIsOfRecordings
  <2>6. QED
    BY <2>4, <2>5
<1>6. QED
  BY <1>2, <1>3, <1>4, <1>5 DEF GenerateTitle

(* The edits of the user.                                                    *)
LEMMA EditKeeps ==
  ASSUME TypeOK, OneIsLive, NEW n \in Notes, EditSummary(n) \/ EditTitle(n)
  PROVE  TypeOK' /\ OneIsLive' /\ (NewOnly => NewOnly')
<1>1. /\ UNCHANGED <<live, workers, inFlight, titles, runs, owed>>
      /\ edits' \in 0..MaxEdits
  BY SummaryAssumption, Elements DEF EditSummary, EditTitle, TypeOK
<1>2. PICK r \in Rows :
        /\ rows' = [rows EXCEPT ![n] = r]
        /\ r.words = rows[n].words /\ r.start = rows[n].start
        /\ r.end = rows[n].end /\ r.needs = rows[n].needs
  <2>1. CASE EditSummary(n)
    <3> DEFINE r == [rows[n] EXCEPT !.html = edits']
    <3>1. edits' \in 0..Generated
      BY <1>1, SummaryAssumption DEF Generated
    <3>2. /\ r \in Rows
          /\ r.words = rows[n].words /\ r.start = rows[n].start
          /\ r.end = rows[n].end /\ r.needs = rows[n].needs
      BY <3>1, Elements DEF Rows
    <3>3. rows' = [rows EXCEPT ![n] = r]
      BY <2>1 DEF EditSummary, TypeOK
    <3>4. QED
      BY <3>2, <3>3
  <2>2. CASE EditTitle(n)
    <3> DEFINE r == [rows[n] EXCEPT !.title = "user"]
    <3>1. /\ r \in Rows
          /\ r.words = rows[n].words /\ r.start = rows[n].start
          /\ r.end = rows[n].end /\ r.needs = rows[n].needs
      BY Elements DEF Rows
    <3>2. rows' = [rows EXCEPT ![n] = r]
      BY <2>2 DEF EditTitle, TypeOK
    <3>3. QED
      BY <3>1, <3>2
  <2>3. QED
    BY <2>1, <2>2
<1>3. rows' \in [Notes -> Rows] /\ rows'[n] = r /\ OnlyRow(n)
  BY <1>2, RowsKept
<1>4. TypeOK' /\ OneIsLive'
  BY <1>1, <1>3, NobodyElse DEF TypeOK
<1>5. ASSUME NewOnly PROVE NewOnly'
  BY <1>1, <1>2, <1>3, <1>5, OthersKept, MarksKeptBy DEF NewOnly
<1>6. QED
  BY <1>4, <1>5

LEMMA CrashKeeps ==
  ASSUME TypeOK, OneIsLive, Crash
  PROVE  TypeOK' /\ OneIsLive' /\ (NewOnly => NewOnly')
<1>1. /\ UNCHANGED <<rows, runs, edits, owed>> /\ inFlight' = {} /\ titles' = {}
      /\ live' = [n \in Notes |-> "no"]
  BY DEF Crash
<1>2. /\ WorkersTyped'
      /\ \A i \in Instances : workers'[i].pc = "idle" /\ workers'[i].queue = {}
  BY Elements, Shapes DEF Crash, WorkersTyped
<1>3. TypeOK' /\ OneIsLive'
  BY <1>1, <1>2 DEF TypeOK, WorkersTyped, OneIsLive
<1>4. NewOnly => MarksAreOfRecordings'
  BY <1>1 DEF NewOnly, MarksAreOfRecordings, Listed, Enough
<1>5. WorkIsOfRecordings' /\ ConsumersAreInFlight'
  BY <1>1, <1>2 DEF WorkIsOfRecordings, ConsumersAreInFlight, Consuming
<1>6. QED
  BY <1>3, <1>4, <1>5 DEF NewOnly

(* The listener.  A recording that starts takes the mark, and what was owed, *)
(* away; its completion marks the transcript that is owed a summary.         *)
LEMMA RecordKeeps ==
  ASSUME TypeOK, OneIsLive, NEW n \in Notes, Record(n)
  PROVE  TypeOK' /\ OneIsLive' /\ (NewOnly => NewOnly')
<1>1. UNCHANGED <<workers, inFlight, titles, edits>>
  BY DEF Record, Begin, SetupFails, Started, Append, Complete
<1>2. NewOnly => WorkIsOfRecordings' /\ ConsumersAreInFlight'
  BY <1>1, OthersKept DEF NewOnly
<1>3. ASSUME rows' \in [Notes -> Rows], live' \in [Notes -> {"no", "setup", "on"}],
             runs' \in 0..MaxRuns, owed' \in [Notes -> 0..MaxWords]
      PROVE  TypeOK'
  BY <1>1, <1>3 DEF TypeOK
<1>4. SUFFICES TypeOK' /\ OneIsLive' /\ (NewOnly => MarksAreOfRecordings')
  BY <1>2 DEF NewOnly
<1>5. CASE Begin(n)
  <2> DEFINE r == [rows[n] EXCEPT !.end = 0, !.needs = FALSE]
  <2>1. /\ \A m \in Notes : live[m] = "no"
        /\ runs < MaxRuns /\ runs' = runs
        /\ live' = [live EXCEPT ![n] = "setup"]
        /\ owed' = [owed EXCEPT ![n] = 0]
        /\ rows' = [rows EXCEPT ![n] = r]
    BY <1>5 DEF Begin, TypeOK
  <2>2. r \in Rows /\ r.needs = FALSE
    <3>1. 0 \in 0..MaxRuns /\ rows[n] \in Rows
      BY Elements
    <3>2. QED
      BY <3>1, EndedKeeps
  <2> HIDE DEF r
  <2>3. rows' \in [Notes -> Rows] /\ rows'[n] = r /\ OnlyRow(n)
    BY <2>1, <2>2, RowsKept
  <2>4. TypeOK'
    BY <1>3, <2>1, <2>3, SummaryAssumption DEF TypeOK
  <2>5. OneIsLive'
    BY <2>1 DEF OneIsLive, TypeOK
  <2>6. NewOnly => MarksAreOfRecordings'
    BY <2>1, <2>2, <2>3 DEF NewOnly, MarksAreOfRecordings, Listed, Enough, OnlyRow, TypeOK
  <2>7. QED
    BY <2>4, <2>5, <2>6
<1>6. CASE SetupFails(n)
  <2>1. /\ UNCHANGED <<rows, runs, owed>> /\ live' = [live EXCEPT ![n] = "no"]
    BY <1>6 DEF SetupFails
  <2>2. TypeOK'
    BY <1>3, <2>1 DEF TypeOK
  <2>3. OneIsLive'
    BY <2>1 DEF OneIsLive, TypeOK
  <2>4. NewOnly => MarksAreOfRecordings'
    BY <2>1 DEF NewOnly, MarksAreOfRecordings, Listed, Enough, TypeOK
  <2>5. QED
    BY <2>2, <2>3, <2>4
<1>7. CASE Started(n)
  <2> DEFINE r == [rows[n] EXCEPT !.start = TRUE, !.end = 0, !.needs = FALSE]
  <2>1. /\ live[n] = "setup" /\ UNCHANGED <<runs, owed>>
        /\ live' = [live EXCEPT ![n] = "on"]
        /\ rows' = [rows EXCEPT ![n] = r]
    BY <1>7 DEF Started, TypeOK
  <2>2. r \in Rows /\ r.needs = FALSE /\ r.start = TRUE /\ r.end = 0
    <3>1. 0 \in 0..MaxRuns /\ rows[n] \in Rows
      BY Elements
    <3>2. QED
      BY <3>1, StartedKeeps
  <2> HIDE DEF r
  <2>3. rows' \in [Notes -> Rows] /\ rows'[n] = r /\ OnlyRow(n)
    BY <2>1, <2>2, RowsKept
  <2>4. TypeOK'
    BY <1>3, <2>1, <2>3 DEF TypeOK
  <2>5. OneIsLive'
    BY <2>1 DEF OneIsLive, TypeOK
  <2>6. NewOnly => MarksAreOfRecordings'
    BY <2>1, <2>2, <2>3 DEF NewOnly, MarksAreOfRecordings, Listed, Enough, OnlyRow, TypeOK
  <2>7. QED
    BY <2>4, <2>5, <2>6
<1>8. CASE Append(n)
  <2> DEFINE r == [rows[n] EXCEPT !.words = @ + 1]
  <2>1. /\ live[n] = "on" /\ rows[n].words < MaxWords /\ UNCHANGED <<live, runs, owed>>
        /\ rows' = [rows EXCEPT ![n] = r]
    BY <1>8 DEF Append, TypeOK
  <2>2. rows[n].words + 1 \in 0..MaxWords
    BY <2>1, SummaryAssumption, Elements
  <2>3. /\ r \in Rows /\ r.needs = rows[n].needs /\ r.start = rows[n].start
        /\ r.end = rows[n].end
    BY <2>2, Elements DEF Rows
  <2> HIDE DEF r
  <2>4. rows' \in [Notes -> Rows] /\ rows'[n] = r /\ OnlyRow(n)
    BY <2>1, <2>3, RowsKept
  <2>5. TypeOK'
    BY <1>3, <2>1, <2>4 DEF TypeOK
  <2>6. OneIsLive'
    BY <2>1, NobodyElse
  <2>7. NewOnly => MarksAreOfRecordings'
    BY <2>1, <2>3, <2>4 DEF NewOnly, MarksAreOfRecordings, Listed, Enough, OnlyRow, TypeOK
  <2>8. QED
    BY <2>5, <2>6, <2>7
<1>9. ASSUME NEW finalized \in BOOLEAN, Complete(n, finalized)
      PROVE  TypeOK' /\ OneIsLive' /\ (NewOnly => MarksAreOfRecordings')
  <2> DEFINE queued == finalized /\ Enough(rows[n])
             r == IF rows[n].start /\ rows[n].end = 0
                  THEN [rows[n] EXCEPT !.end = runs', !.needs = queued] ELSE rows[n]
  <2>1. /\ live[n] = "on" /\ live' = [live EXCEPT ![n] = "no"] /\ runs' = runs + 1
        /\ owed' = [owed EXCEPT ![n] = IF queued THEN rows[n].words ELSE 0]
    BY <1>9 DEF Complete
  <2>2. rows' = [rows EXCEPT ![n] = r]
    BY <1>9 DEF Complete
  <2>3. runs < MaxRuns
    BY <2>1 DEF OneIsLive
  <2>4. runs' \in 1..MaxRuns /\ runs' \in 0..MaxRuns
    BY <2>1, <2>3, Elements
  <2>5. queued \in BOOLEAN /\ (queued => rows[n].words > 0)
    BY DEF Enough
  <2>6. PICK end \in 1..MaxRuns : end = runs'
    BY <2>4
  <2>7. /\ r \in Rows /\ r.words = rows[n].words
        /\ rows[n].start /\ rows[n].end = 0 =>
             (r.needs <=> queued) /\ r.end # 0 /\ r.start = TRUE
    <3>1. CASE rows[n].start /\ rows[n].end = 0
      <4>1. r = [rows[n] EXCEPT !.end = end, !.needs = queued]
        BY <2>6, <3>1
      <4>2. rows[n] \in Rows /\ end \in 0..MaxRuns
        BY <2>4, <2>6, Elements
      <4> HIDE DEF queued, r
      <4>3. /\ r \in Rows /\ r.start = rows[n].start /\ r.end = end
            /\ r.needs = queued /\ r.words = rows[n].words
        <5>1. PICK b \in BOOLEAN : b = queued
          BY <2>5
        <5>2. r = [rows[n] EXCEPT !.end = end, !.needs = b]
          BY <4>1, <5>1
        <5> DEFINE new == [rows[n] EXCEPT !.end = end, !.needs = b]
        <5>3. /\ new \in Rows /\ new.start = rows[n].start /\ new.end = end
              /\ new.needs = b /\ new.words = rows[n].words
          BY <4>2 DEF Rows
        <5> HIDE DEF new
        <5>4. r = new
          BY <5>2 DEF new
        <5>5. QED
          BY <5>1, <5>3, <5>4
      <4>4. end # 0
        BY <2>6
      <4>5. r.start = TRUE
        BY <3>1, <4>2, <4>3 DEF Rows
      <4>6. QED
        BY <4>3, <4>4, <4>5
    <3>2. CASE ~(rows[n].start /\ rows[n].end = 0)
      BY <3>2, Elements
    <3>3. QED
      BY <3>1, <3>2
  <2> HIDE DEF r
  <2>8. rows' \in [Notes -> Rows] /\ rows'[n] = r /\ OnlyRow(n)
    BY <2>2, <2>7, RowsKept
  <2>9. /\ owed' \in [Notes -> 0..MaxWords]
        /\ \A m \in Notes \ {n} : owed'[m] = owed[m]
        /\ owed'[n] = IF queued THEN rows[n].words ELSE 0
    BY <2>1, Elements, SummaryAssumption DEF TypeOK
  <2> HIDE DEF queued
  <2>10. TypeOK'
    BY <1>3, <2>1, <2>4, <2>8, <2>9 DEF TypeOK
  <2>11. OneIsLive'
    BY <2>1 DEF OneIsLive, TypeOK
  <2>12. ASSUME NewOnly PROVE MarksAreOfRecordings'
    <3>1. rows[n].start /\ rows[n].end = 0
      BY <2>1, <2>12 DEF NewOnly, MarksAreOfRecordings
    <3>2. SUFFICES ASSUME NEW m \in Notes
                   PROVE  /\ rows'[m].needs => Listed(rows'[m]) /\ rows'[m].start /\ live'[m] = "no"
                          /\ live'[m] = "on" => rows'[m].start /\ rows'[m].end = 0
                          /\ owed'[m] # 0 => rows'[m].needs /\ rows'[m].words = owed'[m]
      BY DEF MarksAreOfRecordings, Listed, Enough
    <3>3. CASE m = n
      BY <2>1, <2>5, <2>7, <2>8, <2>9, <3>1, <3>3 DEF Listed, Enough, TypeOK
    <3>4. CASE m # n
      BY <2>1, <2>8, <2>9, <2>12, <3>4 DEF OnlyRow, NewOnly, MarksAreOfRecordings, TypeOK
    <3>5. QED
      BY <3>3, <3>4
  <2>13. QED
    BY <2>10, <2>11, <2>12
<1>10. QED
  BY <1>5, <1>6, <1>7, <1>8, <1>9 DEF Record

-----------------------------------------------------------------------------
(* The inductive invariant holds.                                            *)

LEMMA InitIInv == Init => IInv
<1> SUFFICES ASSUME Init PROVE IInv
  OBVIOUS
<1>1. ASSUME NEW w \in 0..(IF MaxWords = 0 THEN 0 ELSE 1)
      PROVE  [NewRow EXCEPT !.needs = TRUE, !.words = w] \in Rows
  <2>1. w \in 0..MaxWords
    BY SummaryAssumption
  <2>2. QED
    BY <2>1, Shapes DEF Rows
<1> DEFINE Imports == {[NewRow EXCEPT !.needs = TRUE, !.words = w] :
                          w \in 0..(IF MaxWords = 0 THEN 0 ELSE 1)}
           First(k) == IF k = "new" THEN {NewRow} ELSE Imports
<1>2. rows \in [Notes -> Rows]
  <2>1. rows \in [Notes -> UNION {First(k) : k \in Kinds}]
    BY DEF Init
  <2>2. Imports \subseteq Rows
    BY <1>1
  <2> HIDE DEF Imports
  <2>3. \A k \in Kinds : First(k) \subseteq Rows
    BY <2>2, Shapes
  <2> HIDE DEF First
  <2>4. ASSUME NEW n \in Notes PROVE rows[n] \in Rows
    <3>1. PICK k \in Kinds : rows[n] \in First(k)
      BY <2>1
    <3>2. QED
      BY <2>3, <3>1
  <2>5. rows = [n \in Notes |-> rows[n]]
    BY <2>1
  <2>6. QED
    BY <2>4, <2>5
<1>3. TypeOK
  <2>1. workers \in [Instances -> Worker]
    <3>1. PICK n \in Notes : workers = [i \in Instances |-> IdleWorker(n)]
      BY DEF Init
    <3>2. QED
      BY <3>1, Shapes
  <2>2. runs \in 0..MaxRuns /\ edits \in 0..MaxEdits /\ owed \in [Notes -> 0..MaxWords]
    <3>1. 0 \in 0..MaxRuns /\ 0 \in 0..MaxEdits /\ 0 \in 0..MaxWords
      BY SummaryAssumption
    <3>2. QED
      BY <3>1 DEF Init
  <2>3. live \in [Notes -> {"no", "setup", "on"}] /\ inFlight = {} /\ titles = {}
    BY DEF Init
  <2>4. QED
    BY <1>2, <2>1, <2>2, <2>3 DEF TypeOK
<1>4. OneIsLive
  BY DEF Init, OneIsLive
<1>5. ASSUME Kinds = {"new"} PROVE NewOnly
  <2>1. \A n \in Notes : rows[n] = NewRow
    BY <1>5 DEF Init
  <2>2. MarksAreOfRecordings
    BY <2>1, Shapes DEF Init, MarksAreOfRecordings
  <2>3. /\ titles = {}
        /\ \A i \in Instances : workers[i].pc = "idle" /\ workers[i].queue = {}
    BY Shapes DEF Init
  <2>4. WorkIsOfRecordings /\ ConsumersAreInFlight
    BY <2>3 DEF WorkIsOfRecordings, ConsumersAreInFlight, Consuming
  <2>5. QED
    BY <2>2, <2>4 DEF NewOnly
<1>6. QED
  BY <1>3, <1>4, <1>5 DEF IInv, NewOnly

LEMMA NextIInv == IInv /\ [Next]_vars => IInv'
<1> SUFFICES ASSUME IInv, [Next]_vars PROVE IInv'
  OBVIOUS
<1>1. TypeOK /\ OneIsLive /\ (Kinds = {"new"} => NewOnly)
  BY DEF IInv, NewOnly
<1>2. SUFFICES TypeOK' /\ OneIsLive' /\ (NewOnly => NewOnly')
  BY <1>1 DEF IInv, NewOnly
<1>3. ASSUME NEW i \in Instances, Work(i) \/ RetryOver(i)
      PROVE  TypeOK' /\ OneIsLive' /\ (NewOnly => NewOnly')
  BY <1>1, <1>3, PollKeeps, LoopEndsKeeps, NextNoteKeeps, ReadKeeps, ClearKeeps,
     ClaimKeeps, GenerateFailsKeeps, SaveRecordingKeeps, SaveImportKeeps,
     RetryOverKeeps DEF Work
<1>4. CASE \E t \in titles : GenerateTitle(t)
  BY <1>1, <1>4, TitleKeeps
<1>5. ASSUME NEW n \in Notes, Record(n) \/ EditSummary(n) \/ EditTitle(n)
      PROVE  TypeOK' /\ OneIsLive' /\ (NewOnly => NewOnly')
  BY <1>1, <1>5, RecordKeeps, EditKeeps
<1>6. CASE Crash
  BY <1>1, <1>6, CrashKeeps
<1>7. CASE UNCHANGED vars
  <2>1. TypeOK' /\ OneIsLive'
    BY <1>1, <1>7 DEF vars, TypeOK, OneIsLive
  <2>2. NewOnly => NewOnly'
    BY <1>7, MarksKept, OthersKept DEF vars, NewOnly
  <2>3. QED
    BY <2>1, <2>2
<1>8. QED
  BY <1>3, <1>4, <1>5, <1>6, <1>7 DEF Next

(* The inductive invariant holds in every state: what workers, the in-flight *)
(* marks and the rows are to one another (background-enhance.tsx:206-246).   *)
THEOREM SummaryInvariance == Spec => []IInv
<1>1. QED
  BY InitIInv, NextIInv, PTL DEF Spec

(* The rows, the workers and the title generations have their types,         *)
(* whatever is recorded, imported or edited, in any windows.                 *)
THEOREM SummaryTyping == Spec => []TypeOK
<1>1. IInv => TypeOK
  BY DEF IInv
<1>2. QED
  BY <1>1, SummaryInvariance, PTL

(* Without imports, a recording that was completed with its whole transcript *)
(* stays queued by that transcript until its summary is stored or the note   *)
(* is recorded again (sessions_recording_ops.rs:95-134).                     *)
THEOREM SummaryDurability ==
  ASSUME Kinds = {"new"}
  PROVE  Spec => []RecordedWorkIsDurable
<1>1. IInv => RecordedWorkIsDurable
  BY DEF IInv, MarksAreOfRecordings, RecordedWorkIsDurable
<1>2. QED
  BY <1>1, SummaryInvariance, PTL

(* Without imports, no two workers of any windows or remounts summarise a    *)
(* recording at the same time (background-enhance.tsx:229-240).              *)
THEOREM SummaryOneConsumer ==
  ASSUME Kinds = {"new"}
  PROVE  Spec => []OneConsumer
<1>1. IInv => OneConsumer
  <2>1. SUFFICES ASSUME IInv, NEW i \in Instances, NEW j \in Instances, i # j,
                        {workers[i].pc, workers[j].pc} = {"generating"}
                 PROVE  workers[i].note # workers[j].note
    BY DEF OneConsumer
  <2>2. Consuming(i) /\ Consuming(j)
    BY <2>1 DEF Consuming
  <2>3. QED
    BY <2>1, <2>2 DEF IInv, ConsumersAreInFlight
<1>2. QED
  BY <1>1, SummaryInvariance, PTL

(* One step keeps what the user wrote.                                       *)
KeepsEdits(n) ==
  /\ rows[n].html \in Edited /\ rows'[n].html # rows[n].html =>
       \/ EditSummary(n)
       \/ \E i \in Instances :
            SaveRecording(i) /\ workers[i].note = n
              /\ workers[i].row.html = rows[n].html
  /\ rows[n].title = "user" /\ rows'[n].title # "user" => n \in Youtube

(* A row of which neither text changes. *)
LEMMA SameTexts ==
  ASSUME NEW n \in Notes, rows'[n].html = rows[n].html, rows'[n].title = rows[n].title
  PROVE  KeepsEdits(n)
BY DEF KeepsEdits

LEMMA StepKeepsEdits ==
  ASSUME TypeOK, NewOnly, [Next]_vars, NEW n \in Notes
  PROVE  KeepsEdits(n)
<1>1. CASE rows' = rows
  BY <1>1, SameTexts
<1>2. ASSUME NEW i \in Instances, SaveRecording(i) PROVE KeepsEdits(n)
  <2> DEFINE w == workers[i]
             new == Saved(rows[w.note], w.row)
  <2>1. rows' = [rows EXCEPT ![w.note] = new]
    BY <1>2 DEF SaveRecording
  <2>2. w.row \in Rows /\ w.note \in Notes /\ rows[w.note] \in Rows
    BY Elements
  <2>3. /\ new \in Rows /\ new.title = rows[w.note].title
        /\ new.html # rows[w.note].html => rows[w.note].html = w.row.html
    BY <2>2, SavedKeeps
  <2> HIDE DEF new
  <2>4. rows'[w.note] = new /\ OnlyRow(w.note)
    BY <2>1, <2>2, <2>3, RowsKept
  <2>5. CASE n = w.note
    BY <1>2, <2>3, <2>4, <2>5 DEF KeepsEdits
  <2>6. CASE n # w.note
    BY <2>4, <2>6, SameTexts DEF OnlyRow
  <2>7. QED
    BY <2>5, <2>6
<1>3. ASSUME NEW t \in titles, GenerateTitle(t) PROVE KeepsEdits(n)
  <2>1. /\ t.row.start /\ t.pc = "generating" /\ WantsTitle(t.note, t.row)
        /\ t.note \in Notes /\ t.row \in Rows /\ rows[t.note] \in Rows
    BY Elements DEF NewOnly, WorkIsOfRecordings
  <2>2. CASE TitleFails(t)
    BY <1>1, <2>2 DEF TitleFails
  <2>3. CASE TitleRecording(t)
    <3> DEFINE new == Titled(rows[t.note], t.row)
    <3>1. rows' = [rows EXCEPT ![t.note] = new]
      BY <2>3 DEF TitleRecording, Upsert
    <3>2. /\ new \in Rows /\ new.html = rows[t.note].html
          /\ new.title # rows[t.note].title => rows[t.note].title = t.row.title
      BY <2>1, TitledKeeps
    <3> HIDE DEF new
    <3>3. rows'[t.note] = new /\ OnlyRow(t.note)
      BY <2>1, <3>1, <3>2, RowsKept
    <3>4. CASE n = t.note
      BY <2>1, <3>2, <3>3, <3>4 DEF KeepsEdits, WantsTitle
    <3>5. CASE n # t.note
      BY <3>3, <3>5, SameTexts DEF OnlyRow
    <3>6. QED
      BY <3>4, <3>5
  <2>4. QED
    BY <1>3, <2>1, <2>2, <2>3 DEF GenerateTitle, TitleRead, TitleWrite
<1>4. ASSUME NEW m \in Notes, Record(m) PROVE KeepsEdits(n)
  <2>1. rows'[n].html = rows[n].html /\ rows'[n].title = rows[n].title
    <3>1. rows \in [Notes -> Rows] /\ rows[m] \in Rows /\ rows[n] \in Rows
      BY Elements DEF TypeOK
    <3>2. CASE Begin(m)
      BY <3>1, <3>2 DEF Begin, Rows
    <3>3. CASE SetupFails(m)
      BY <3>1, <3>3 DEF SetupFails
    <3>4. CASE Started(m)
      BY <3>1, <3>4 DEF Started, Rows
    <3>5. CASE Append(m)
      BY <3>1, <3>5 DEF Append, Rows
    <3>6. ASSUME NEW finalized \in BOOLEAN, Complete(m, finalized)
          PROVE  rows'[n].html = rows[n].html /\ rows'[n].title = rows[n].title
      BY <3>1, <3>6 DEF Complete, Rows
    <3>7. QED
      BY <1>4, <3>2, <3>3, <3>4, <3>5, <3>6 DEF Record
  <2>2. QED
    BY <2>1, SameTexts
<1>5. ASSUME NEW m \in Notes, EditSummary(m) PROVE KeepsEdits(n)
  <2>1. /\ rows'[n].title = rows[n].title
        /\ n # m => rows'[n].html = rows[n].html
    BY <1>5 DEF EditSummary, TypeOK, Rows
  <2>2. QED
    BY <1>5, <2>1 DEF KeepsEdits
<1>6. ASSUME NEW m \in Notes, EditTitle(m) PROVE KeepsEdits(n)
  <2>1. /\ rows'[n].html = rows[n].html
        /\ n # m => rows'[n].title = rows[n].title
        /\ n = m => rows'[n].title = "user"
    BY <1>6 DEF EditTitle, TypeOK, Rows
  <2>2. QED
    BY <2>1 DEF KeepsEdits
<1>7. ASSUME NEW i \in Instances, Work(i) \/ RetryOver(i) PROVE KeepsEdits(n)
  <2>1. CASE SaveRecording(i)
    BY <1>2, <2>1
  <2>2. CASE Clear(i) \/ Claim(i)
    BY <2>2 DEF NewOnly, WorkIsOfRecordings, Clear, Claim
  <2>3. CASE SaveImport(i)
    BY <2>3 DEF NewOnly, WorkIsOfRecordings, SaveImport
  <2>4. CASE Poll(i) \/ LoopEnds(i) \/ NextNote(i) \/ Read(i)
    BY <1>1, <2>4 DEF Poll, LoopEnds, NextNote, Read
  <2>5. CASE GenerateFails(i) \/ RetryOver(i)
    BY <1>1, <2>5 DEF GenerateFails, RetryOver
  <2>6. QED
    BY <1>7, <2>1, <2>2, <2>3, <2>4, <2>5 DEF Work
<1>8. CASE Crash \/ UNCHANGED vars
  BY <1>1, <1>8 DEF Crash, vars
<1>9. QED
  BY <1>3, <1>4, <1>5, <1>6, <1>7, <1>8 DEF Next

(* Without imports, generated text replaces what the user wrote only if it   *)
(* was generated from it (sessions_recording_ops.rs:78-134).                 *)
THEOREM SummaryKeepsEdits ==
  ASSUME Kinds = {"new"}
  PROVE  Spec => EditsSurvive
<1>1. IInv => TypeOK /\ NewOnly
  BY DEF IInv, NewOnly
<1>2. IInv /\ [Next]_vars => [\A n \in Notes : KeepsEdits(n)]_vars
  BY <1>1, StepKeepsEdits
<1>3. Spec => [][\A n \in Notes : KeepsEdits(n)]_vars
  BY <1>2, SummaryInvariance, PTL DEF Spec
<1>4. (\A n \in Notes : KeepsEdits(n)) <=>
        \A n \in Notes :
          /\ rows[n].html \in Edited /\ rows'[n].html # rows[n].html =>
               \/ EditSummary(n)
               \/ \E i \in Instances :
                    SaveRecording(i) /\ workers[i].note = n
                      /\ workers[i].row.html = rows[n].html
          /\ rows[n].title = "user" /\ rows'[n].title # "user" => n \in Youtube
  BY DEF KeepsEdits
<1>5. QED
  BY <1>3, <1>4, PTL DEF EditsSurvive
-----------------------------------------------------------------------------
(* SummaryContract.  A step is mapped by what it does to the note that is    *)
(* being recorded and to four columns of one row.                            *)

ContractStep == Contract!Next \/ UNCHANGED Contract!vars

SameColumns(n) ==
  /\ rows'[n].end = rows[n].end /\ rows'[n].needs = rows[n].needs
  /\ rows'[n].words = rows[n].words /\ rows'[n].auto = rows[n].auto

LEMMA RecordedNote ==
  /\ (\A m \in Notes : live[m] # "on") => Recorded = NoNote
  /\ (\A m \in Notes : live'[m] # "on") => Recorded' = NoNote
  /\ \A n \in Notes : (\A m \in Notes : live[m] = "on" <=> m = n) => Recorded = n
  /\ \A n \in Notes : (\A m \in Notes : live'[m] = "on" <=> m = n) => Recorded' = n
  /\ live' = live => Recorded' = Recorded
BY DEF Recorded

LEMMA RecordedIsLive ==
  ASSUME OneIsLive, NEW n \in Notes, live[n] = "on"
  PROVE  Recorded = n /\ Recorded # NoNote /\ \A m \in Notes : live[m] = "on" <=> m = n
BY RecordedNote, NoNoteAssumption DEF OneIsLive

(* What the contract sees when one row changes.                              *)
LEMMA Columns ==
  ASSUME NEW n \in Notes, OnlyRow(n)
  PROVE  /\ Closed' = [Closed EXCEPT ![n] = rows'[n].end # 0]
         /\ Queued' = [Queued EXCEPT ![n] = rows'[n].needs]
         /\ Transcript' = [Transcript EXCEPT ![n] = rows'[n].words]
         /\ Summary' = [Summary EXCEPT ![n] = rows'[n].auto]
<1>1. \A m \in Notes : m # n => rows'[m] = rows[m]
  BY DEF OnlyRow
<1>2. Closed' = [Closed EXCEPT ![n] = rows'[n].end # 0]
  BY <1>1 DEF Closed
<1>3. Queued' = [Queued EXCEPT ![n] = rows'[n].needs]
  BY <1>1 DEF Queued
<1>4. Transcript' = [Transcript EXCEPT ![n] = rows'[n].words]
  BY <1>1 DEF Transcript
<1>5. Summary' = [Summary EXCEPT ![n] = rows'[n].auto]
  BY <1>1 DEF Summary
<1>6. QED
  BY <1>2, <1>3, <1>4, <1>5

(* A column that a changed row keeps.                                        *)
LEMMA ColumnsKept ==
  ASSUME NEW n \in Notes
  PROVE  /\ [Closed EXCEPT ![n] = rows[n].end # 0] = Closed
         /\ [Queued EXCEPT ![n] = rows[n].needs] = Queued
         /\ [Transcript EXCEPT ![n] = rows[n].words] = Transcript
         /\ [Summary EXCEPT ![n] = rows[n].auto] = Summary
BY DEF Closed, Queued, Transcript, Summary

LEMMA ByStutter ==
  ASSUME Recorded' = Recorded, \A n \in Notes : SameColumns(n)
  PROVE  ContractStep
<1>1. UNCHANGED <<Closed, Queued, Transcript, Summary, Lossless>>
  BY DEF SameColumns, Closed, Queued, Transcript, Summary, Lossless
<1>2. QED
  BY <1>1 DEF ContractStep, Contract!vars

LEMMA ByRecording ==
  ASSUME Contract!Recording!Next, UNCHANGED <<Transcript, Summary>>
  PROVE  ContractStep
BY DEF ContractStep, Contract!Next, Contract!Record

(* A row that is begun or started is reopened.                               *)
LEMMA ReopenedColumns ==
  ASSUME NEW n \in Notes, OnlyRow(n),
         rows'[n].end = 0, rows'[n].needs = FALSE,
         rows'[n].words = rows[n].words, rows'[n].auto = rows[n].auto
  PROVE  Contract!Recording!Reopen(n) /\ UNCHANGED <<Transcript, Summary>>
<1>1. Closed' = [Closed EXCEPT ![n] = FALSE]
  <2>1. (rows'[n].end # 0) = FALSE
    OBVIOUS
  <2>2. QED
    BY <2>1, Columns
<1>2. Queued' = [Queued EXCEPT ![n] = FALSE]
  BY Columns
<1>3. UNCHANGED <<Transcript, Summary>>
  BY Columns, ColumnsKept
<1>4. QED
  BY <1>1, <1>2, <1>3 DEF Contract!Recording!Reopen

(* The listener does what the contract of a recording says.                  *)
LEMMA RecordRefines ==
  ASSUME TypeOK, OneIsLive, NewOnly, NEW n \in Notes, Record(n)
  PROVE  ContractStep
<1>1. rows[n] \in Rows /\ Lossless' = Lossless /\ 0 \in 0..MaxRuns
  BY Elements DEF Lossless
<1>2. CASE Begin(n)
  <2> DEFINE r == [rows[n] EXCEPT !.end = 0, !.needs = FALSE]
  <2>1. /\ r \in Rows /\ r.end = 0 /\ r.needs = FALSE
        /\ r.words = rows[n].words /\ r.auto = rows[n].auto
    BY <1>1 DEF Rows
  <2>2. rows' = [rows EXCEPT ![n] = r]
    BY <1>2 DEF Begin, TypeOK
  <2> HIDE DEF r
  <2>3. Contract!Recording!Reopen(n) /\ UNCHANGED <<Transcript, Summary>>
    BY <2>1, <2>2, RowsKept, ReopenedColumns
  <2>4. Recorded = NoNote /\ Recorded' = NoNote
    BY <1>2, RecordedNote DEF Begin, TypeOK
  <2>5. Contract!Recording!BeginFails(n)
    BY <1>1, <2>3, <2>4 DEF Contract!Recording!BeginFails
  <2>6. QED
    BY <2>3, <2>5, ByRecording DEF Contract!Recording!Next
<1>3. CASE SetupFails(n)
  <2>1. live[n] = "setup" /\ \A m \in Notes : live[m] # "on" /\ live'[m] # "on"
    BY <1>3 DEF SetupFails, OneIsLive, TypeOK
  <2>2. Recorded' = Recorded
    BY <2>1, RecordedNote
  <2>3. QED
    BY <1>3, <2>2, ByStutter DEF SetupFails, SameColumns
<1>4. CASE Started(n)
  <2> DEFINE r == [rows[n] EXCEPT !.start = TRUE, !.end = 0, !.needs = FALSE]
  <2>1. /\ r \in Rows /\ r.end = 0 /\ r.needs = FALSE
        /\ r.words = rows[n].words /\ r.auto = rows[n].auto
    BY <1>1 DEF Rows
  <2>2. rows' = [rows EXCEPT ![n] = r]
    BY <1>4 DEF Started, TypeOK
  <2> HIDE DEF r
  <2>3. Contract!Recording!Reopen(n) /\ UNCHANGED <<Transcript, Summary>>
    BY <2>1, <2>2, RowsKept, ReopenedColumns
  <2>4. /\ live[n] = "setup" /\ \A m \in Notes : live[m] # "on"
        /\ \A m \in Notes : live'[m] = "on" <=> m = n
    BY <1>4 DEF Started, OneIsLive, TypeOK
  <2>5. Recorded = NoNote /\ Recorded' = n
    BY <2>4, RecordedNote
  <2>6. Lossless' = [Lossless EXCEPT ![n] = FALSE]
    BY DEF Lossless
  <2>7. Contract!Recording!Begin(n)
    BY <2>3, <2>5, <2>6 DEF Contract!Recording!Begin
  <2>8. QED
    BY <2>3, <2>7, ByRecording DEF Contract!Recording!Next
<1>5. CASE Append(n)
  <2> DEFINE r == [rows[n] EXCEPT !.words = @ + 1]
  <2>1. /\ r \in Rows /\ r.words = rows[n].words + 1
        /\ r.end = rows[n].end /\ r.needs = rows[n].needs /\ r.auto = rows[n].auto
    <3>1. rows[n].words + 1 \in 0..MaxWords
      BY <1>5, Elements DEF Append
    <3>2. QED
      BY <1>1, <3>1 DEF Rows
  <2>2. rows' = [rows EXCEPT ![n] = r]
    BY <1>5 DEF Append, TypeOK
  <2> HIDE DEF r
  <2>3. /\ Transcript' = [Transcript EXCEPT ![n] = Transcript[n] + 1]
        /\ UNCHANGED <<Closed, Queued, Summary>>
    <3>1. Transcript[n] = rows[n].words
      BY DEF Transcript
    <3>2. /\ Transcript' = [Transcript EXCEPT ![n] = rows[n].words + 1]
          /\ Closed' = [Closed EXCEPT ![n] = rows[n].end # 0]
          /\ Queued' = [Queued EXCEPT ![n] = rows[n].needs]
          /\ Summary' = [Summary EXCEPT ![n] = rows[n].auto]
      BY <2>1, <2>2, RowsKept, Columns
    <3>3. QED
      BY <3>1, <3>2, ColumnsKept
  <2>4. Recorded = n /\ Recorded # NoNote /\ Recorded' = n
    BY <1>5, RecordedIsLive, RecordedNote DEF Append
  <2>5. Contract!Grow
    BY <1>1, <2>3, <2>4 DEF Contract!Grow
  <2>6. QED
    BY <2>5 DEF ContractStep, Contract!Next
<1>6. ASSUME NEW finalized \in BOOLEAN, Complete(n, finalized) PROVE ContractStep
  <2> DEFINE enough == finalized /\ Enough(rows[n])
             r == [rows[n] EXCEPT !.end = runs', !.needs = enough]
  <2>1. rows[n].start /\ rows[n].end = 0 /\ live[n] = "on" /\ runs < MaxRuns
    BY <1>6 DEF Complete, NewOnly, MarksAreOfRecordings, OneIsLive
  <2>2. runs' \in 0..MaxRuns /\ runs' # 0
    BY <1>6, <2>1, Elements DEF Complete
  <2>3. /\ r \in Rows /\ r.end = runs' /\ r.needs = enough
        /\ r.words = rows[n].words /\ r.auto = rows[n].auto
    BY <1>1, <2>2 DEF Rows
  <2>4. rows' = [rows EXCEPT ![n] = r]
    BY <1>6, <2>1 DEF Complete
  <2> HIDE DEF r
  <2>5. /\ Closed' = [Closed EXCEPT ![n] = TRUE]
        /\ Queued' = [Queued EXCEPT ![n] = enough]
        /\ UNCHANGED <<Transcript, Summary>>
    <3>1. (rows'[n].end # 0) = TRUE
      BY <2>2, <2>3, <2>4, RowsKept
    <3>2. /\ Transcript' = [Transcript EXCEPT ![n] = rows[n].words]
          /\ Closed' = [Closed EXCEPT ![n] = rows'[n].end # 0]
          /\ Queued' = [Queued EXCEPT ![n] = enough]
          /\ Summary' = [Summary EXCEPT ![n] = rows[n].auto]
      BY <2>3, <2>4, RowsKept, Columns
    <3>3. QED
      BY <3>1, <3>2, ColumnsKept
  <2>6. Recorded = n /\ Recorded # NoNote
    BY <2>1, RecordedIsLive
  <2>7. Recorded' = NoNote
    BY <1>6, <2>1, RecordedIsLive, RecordedNote DEF Complete, TypeOK
  <2>8. ~Lossless[n] /\ enough \in BOOLEAN
    BY DEF Lossless, Enough
  <2> HIDE DEF enough
  <2>9. Contract!Recording!Finish
    BY <1>1, <2>5, <2>6, <2>7, <2>8 DEF Contract!Recording!Finish
  <2>10. QED
    BY <2>5, <2>9, ByRecording DEF Contract!Recording!Next
<1>7. QED
  BY <1>2, <1>3, <1>4, <1>5, <1>6 DEF Record

(* A summary that is stored is that of the transcript under the mark.        *)
LEMMA SaveRefines ==
  ASSUME TypeOK, OneIsLive, NEW i \in Instances, SaveRecording(i)
  PROVE  ContractStep
<1> DEFINE n == workers[i].note
           new == Saved(rows[n], workers[i].row)
<1>1. /\ rows' = [rows EXCEPT ![n] = new] /\ n \in Notes /\ rows[n] \in Rows
      /\ Recorded' = Recorded /\ Lossless' = Lossless
  BY RecordedNote, Elements DEF SaveRecording, Lossless
<1>2. CASE new = rows[n]
  BY <1>1, <1>2, ByStutter DEF SameColumns, TypeOK
<1>3. CASE new # rows[n]
  <2>1. /\ new \in Rows /\ new.end = rows[n].end /\ new.words = rows[n].words
        /\ new.needs = FALSE /\ new.auto = rows[n].words /\ rows[n].needs
    <3>1. /\ new \in Rows /\ new.end = rows[n].end /\ new.words = rows[n].words
          /\ new.needs = FALSE /\ rows[n].needs /\ rows[n].words = workers[i].row.words
          /\ rows[n].end = workers[i].row.end
      <4>1. workers[i].row \in Rows
        BY Elements
      <4>2. QED
        BY <1>1, <1>3, <4>1, SavedKeeps
    <3>2. new.auto = workers[i].row.words
      BY <1>1, <3>1 DEF Saved, Rows
    <3>3. QED
      BY <3>1, <3>2
  <2> HIDE DEF new
  <2>2. /\ Queued[n] /\ Queued' = [Queued EXCEPT ![n] = FALSE]
        /\ Summary' = [Summary EXCEPT ![n] = Transcript[n]]
        /\ UNCHANGED <<Closed, Transcript>>
    <3>1. Queued[n] /\ Transcript[n] = rows[n].words
      BY <1>1, <2>1 DEF Queued, Transcript
    <3>2. /\ Transcript' = [Transcript EXCEPT ![n] = rows[n].words]
          /\ Closed' = [Closed EXCEPT ![n] = rows[n].end # 0]
          /\ Queued' = [Queued EXCEPT ![n] = FALSE]
          /\ Summary' = [Summary EXCEPT ![n] = rows[n].words]
      BY <1>1, <2>1, RowsKept, Columns
    <3>3. QED
      BY <1>1, <3>1, <3>2, ColumnsKept
  <2>3. Contract!Summarize(n)
    BY <1>1, <2>2 DEF Contract!Summarize
  <2>4. QED
    BY <1>1, <2>3 DEF ContractStep, Contract!Next
<1>4. QED
  BY <1>2, <1>3

(* Every step is one of the contract or leaves alone what it speaks of.      *)
LEMMA RefinementStep ==
  ASSUME TypeOK, OneIsLive, NewOnly, [Next]_vars
  PROVE  ContractStep
<1>1. ASSUME rows' = rows, live' = live PROVE ContractStep
  BY <1>1, ByStutter, RecordedNote DEF SameColumns
<1>2. ASSUME NEW i \in Instances, Work(i) \/ RetryOver(i) PROVE ContractStep
  <2>1. CASE SaveRecording(i)
    BY <2>1, SaveRefines
  <2>2. CASE Clear(i) \/ Claim(i) \/ SaveImport(i)
    BY <2>2 DEF NewOnly, WorkIsOfRecordings, Clear, Claim, SaveImport
  <2>3. CASE \/ Poll(i) \/ LoopEnds(i) \/ NextNote(i) \/ Read(i)
             \/ GenerateFails(i) \/ RetryOver(i)
    BY <1>1, <2>3 DEF Poll, LoopEnds, NextNote, Read, GenerateFails, RetryOver
  <2>4. QED
    BY <1>2, <2>1, <2>2, <2>3 DEF Work
<1>3. ASSUME NEW n \in Notes, EditSummary(n) \/ EditTitle(n) PROVE ContractStep
  <2>1. live' = live /\ \A m \in Notes : SameColumns(m)
    <3>1. \A m \in Notes : rows[m] \in Rows
      BY Elements
    <3>2. CASE EditSummary(n)
      BY <3>1, <3>2 DEF EditSummary, SameColumns, TypeOK, Rows
    <3>3. CASE EditTitle(n)
      BY <3>1, <3>3 DEF EditTitle, SameColumns, TypeOK, Rows
    <3>4. QED
      BY <1>3, <3>2, <3>3
  <2>2. QED
    BY <2>1, RecordedNote, ByStutter
<1>4. ASSUME NEW t \in titles, GenerateTitle(t) PROVE ContractStep
  <2>1. t.row.start /\ t.pc = "generating" /\ t.note \in Notes /\ rows[t.note] \in Rows
    BY Elements DEF NewOnly, WorkIsOfRecordings
  <2>2. CASE TitleFails(t)
    BY <1>1, <2>2 DEF TitleFails
  <2>3. CASE TitleRecording(t)
    <3>1. live' = live /\ \A m \in Notes : SameColumns(m)
      BY <2>1, <2>3 DEF TitleRecording, Upsert, Titled, SameColumns, TypeOK, Rows
    <3>2. QED
      BY <3>1, RecordedNote, ByStutter
  <2>4. QED
    BY <1>4, <2>1, <2>2, <2>3 DEF GenerateTitle, TitleRead, TitleWrite
<1>5. CASE Crash
  <2>1. /\ Recorded' = NoNote /\ UNCHANGED rows
        /\ UNCHANGED <<Closed, Queued, Transcript, Summary, Lossless>>
    BY <1>5, RecordedNote
       DEF Crash, Closed, Queued, Transcript, Summary, Lossless
  <2>2. CASE Recorded = NoNote
    BY <2>1, <2>2, ByStutter DEF SameColumns
  <2>3. CASE Recorded # NoNote
    <3>1. Contract!Recording!Vanish
      BY <2>1, <2>3 DEF Contract!Recording!Vanish
    <3>2. QED
      BY <2>1, <3>1, ByRecording DEF Contract!Recording!Next
  <2>4. QED
    BY <2>2, <2>3
<1>6. CASE UNCHANGED vars
  BY <1>1, <1>6 DEF vars
<1>7. QED
  BY <1>2, <1>3, <1>4, <1>5, <1>6, RecordRefines DEF Next

LEMMA RefinementInit ==
  ASSUME Init, Kinds = {"new"}
  PROVE  Contract!Init
<1>1. \A n \in Notes : /\ live[n] = "no" /\ rows[n].words = 0 /\ rows[n].auto = 0
                       /\ rows[n].needs = FALSE /\ (rows[n].end # 0) = FALSE
  <2>1. \A n \in Notes : live[n] = "no" /\ rows[n] = NewRow
    BY DEF Init
  <2>2. /\ NewRow.words = 0 /\ NewRow.auto = 0
        /\ NewRow.needs = FALSE /\ (NewRow.end # 0) = FALSE
    BY DEF NewRow
  <2>3. QED
    BY <2>1, <2>2
<1>2. Recorded = NoNote /\ Lossless = Contract!Recording!Nowhere
  BY <1>1, RecordedNote DEF Lossless, Contract!Recording!Nowhere
<1>3. Closed = Contract!Recording!Nowhere /\ Queued = Contract!Recording!Nowhere
  BY <1>1 DEF Closed, Queued, Contract!Recording!Nowhere
<1>4. Transcript = [n \in Notes |-> 0] /\ Summary = [n \in Notes |-> 0]
  BY <1>1 DEF Transcript, Summary
<1>5. QED
  BY <1>2, <1>3, <1>4 DEF Contract!Init, Contract!Recording!Init

(* Without imports, the workers of any windows, their titles, the user and   *)
(* the listener implement SummaryContract: the listener as RecordingContract *)
(* says, and beside it a mark is only taken with the summary of the          *)
(* transcript it stands for (sessions_recording_ops.rs:108-134).             *)
THEOREM SummaryRefinesContract ==
  ASSUME Kinds = {"new"}
  PROVE  Spec => Implements
<1>1. Init => Contract!Init
  BY RefinementInit
<1>2. IInv => TypeOK /\ OneIsLive /\ NewOnly
  BY DEF IInv, NewOnly
<1>3. IInv /\ [Next]_vars => [Contract!Next]_(Contract!vars)
  BY <1>2, RefinementStep DEF ContractStep
<1>4. QED
  BY <1>1, <1>3, SummaryInvariance, PTL DEF Spec, Implements, Contract!Spec
=============================================================================
