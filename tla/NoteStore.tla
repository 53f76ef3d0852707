------------------------------ MODULE NoteStore ------------------------------
(* The store of one note in a window (packages/utils/src/stores/session.ts): *)
(* the fields the user edits, the edits not yet acknowledged, the writes     *)
(* that carry them to the database one after the other, and the reads which  *)
(* replace the whole note in the store.                                      *)
(*                                                                           *)
(* A revision stands for a text: every edit makes a new one.                 *)
EXTENDS Integers, Sequences

CONSTANTS Fields,      \* the fields of a note the store writes
          MaxRevision, \* bound: edits
          MaxFailures, \* bound: writes that fail
          MaxReads,    \* bound: reads of the row into the store
          MaxQueue     \* bound: writes chained up when one is forced

ASSUME BoundsAssumption ==
    {MaxRevision, MaxFailures, MaxReads, MaxQueue} \subseteq Nat

VARIABLES note,      \* the store: field -> revision shown
          pending,   \* the store: field -> revision not yet acknowledged
          due,       \* the debounce of persistSession is running
          queue,     \* the writes chained up, each with the edits it saw
          sent,      \* the edits of the write under way
          stage,     \* of the first write: waiting, at the database, stored
          row,       \* the database: field -> revision
          fetched,   \* a row read and not yet put into the store
          latest,    \* history: the last edit of each field
          known,     \* history: the last edit of each field acknowledged
          revision, failures, reads

vars == <<note, pending, due, queue, sent, stage, row, fetched, latest, known,
          revision, failures, reads>>

None == 0
Nothing == [f \in Fields |-> None]

Init ==
    /\ note = Nothing /\ row = Nothing
    /\ pending = Nothing /\ latest = Nothing /\ known = Nothing
    /\ due = FALSE
    /\ queue = <<>>
    /\ sent = Nothing
    /\ stage = "waiting"
    /\ fetched = <<>>
    /\ revision = 0 /\ failures = 0 /\ reads = 0

-----------------------------------------------------------------------------
(* Faulty variant of Queued: an empty flush is chained up too. *)
QueuedAlways(edits) == Append(queue, edits)

(* Faulty variant of Queued: a write under way is thought to be enough. *)
QueuedOnce(edits) == IF queue = <<>> THEN <<edits>> ELSE queue

(* A flush takes all the edits pending, if there are any. *)
Queued(edits) == IF edits = Nothing THEN queue ELSE Append(queue, edits)

(* An edit is pending and shown at once.  The typed ones are flushed when    *)
(* the user pauses, restored texts and generated ones immediately.           *)
Edit(f, force) ==
    /\ revision < MaxRevision
    /\ revision' = revision + 1
    /\ note' = [note EXCEPT ![f] = revision']
    /\ pending' = [pending EXCEPT ![f] = revision']
    /\ latest' = [latest EXCEPT ![f] = revision']
    /\ IF force THEN queue' = Queued(pending') /\ UNCHANGED due
                ELSE due' = TRUE /\ UNCHANGED queue
    /\ UNCHANGED <<sent, stage, row, fetched, known, failures, reads>>

Flush ==
    /\ due
    /\ due' = FALSE
    /\ queue' = Queued(pending)
    /\ UNCHANGED <<note, pending, sent, stage, row, fetched, latest,
                   known, revision, failures, reads>>

(* Starting a recording, or the end of a summary, flushes what is pending. *)
FlushNow ==
    /\ pending # Nothing
    /\ Len(queue) < MaxQueue
    /\ queue' = Queued(pending)
    /\ UNCHANGED <<note, pending, due, sent, stage, row, fetched, latest,
                   known, revision, failures, reads>>

(* Faulty variant of Current: the edits are sent as they were seen. *)
CurrentAll(edits) == edits

(* A write leaves out what an earlier one has acknowledged, and what a newer *)
(* edit has replaced.                                                        *)
Current(edits) ==
    [f \in Fields |-> IF pending[f] = edits[f] THEN edits[f] ELSE None]

Start ==
    /\ queue # <<>> /\ stage = "waiting"
    /\ LET edits == Current(Head(queue)) IN
         IF edits = Nothing
         THEN queue' = Tail(queue) /\ UNCHANGED <<sent, stage>>
         ELSE sent' = edits /\ stage' = "sent" /\ UNCHANGED queue
    /\ UNCHANGED <<note, pending, due, row, fetched, latest, known, revision,
                   failures, reads>>

(* update_session_note_fields: the columns that were sent are updated, and   *)
(* then the row is read again for the answer.                                *)
Over(old, edits) ==
    [f \in Fields |-> IF edits[f] # None THEN edits[f] ELSE old[f]]

Stored ==
    /\ stage = "sent"
    /\ stage' = "stored"
    /\ row' = Over(row, sent)
    /\ UNCHANGED <<note, pending, due, queue, sent, fetched, latest, known,
                   revision, failures, reads>>

(* Faulty variant of Acknowledged: a newer edit is cleared as well. *)
AcknowledgedAll == [f \in Fields |-> IF sent[f] # None THEN None ELSE pending[f]]

(* The acknowledgement clears the edits that are still the pending ones. *)
Acknowledged == [f \in Fields |-> IF pending[f] = sent[f] THEN None ELSE pending[f]]

NextWrite == queue' = Tail(queue) /\ stage' = "waiting" /\ sent' = Nothing

Acknowledge ==
    /\ stage = "stored"
    /\ pending' = Acknowledged
    /\ known' = Over(known, sent)
    /\ NextWrite
    /\ UNCHANGED <<note, due, row, fetched, latest, revision, failures,
                   reads>>

(* Faulty variant of Refused: the chain stays broken. *)
RefusedBlocks ==
    /\ stage = "sent"
    /\ failures < MaxFailures
    /\ failures' = failures + 1
    /\ stage' = "broken"
    /\ UNCHANGED <<note, pending, due, queue, sent, row, fetched, latest,
                   known, revision, reads>>

(* A failed write leaves its edits pending for the next flush. *)
Fails ==
    /\ failures < MaxFailures
    /\ failures' = failures + 1
    /\ NextWrite
    /\ UNCHANGED <<note, pending, due, row, fetched, latest, known, revision,
                   reads>>

(* The update fails. *)
Refused == stage = "sent" /\ Fails

(* The update is done, but the row cannot be read again: the store does not  *)
(* learn that its edits are in the row and will write them once more.        *)
Unread == stage = "stored" /\ Fails

(* refresh, and insert of a note already in the store: the row read earlier  *)
(* replaces the note, whatever was edited since.                             *)
ReadRow ==
    /\ fetched = <<>>
    /\ reads < MaxReads
    /\ reads' = reads + 1
    /\ fetched' = <<row>>
    /\ UNCHANGED <<note, pending, due, queue, sent, stage, row, latest,
                   known, revision, failures>>

ShowRow ==
    /\ fetched # <<>>
    /\ note' = Head(fetched)
    /\ fetched' = <<>>
    /\ UNCHANGED <<pending, due, queue, sent, stage, row, latest,
                   known, revision, failures, reads>>

-----------------------------------------------------------------------------
Write == Start \/ Stored \/ Refused \/ Unread \/ Acknowledge

Next ==
    \/ \E f \in Fields, force \in BOOLEAN : Edit(f, force)
    \/ Flush \/ FlushNow \/ Write \/ ReadRow \/ ShowRow

Spec == Init /\ [][Next]_vars

(* The debounce elapses, and the database answers. *)
FairSpec == Spec /\ WF_vars(Flush) /\ WF_vars(Write)

-----------------------------------------------------------------------------
Revisions == [Fields -> 0 .. MaxRevision]

TypeOK ==
    /\ {note, pending, sent, row, latest, known} \subseteq Revisions
    /\ due \in BOOLEAN
    /\ queue \in Seq(Revisions \ {Nothing})
    /\ stage \in {"waiting", "sent", "stored"}
    /\ fetched \in Seq(Revisions) /\ Len(fetched) \in {0, 1}
    /\ revision \in 0 .. MaxRevision
    /\ failures \in 0 .. MaxFailures
    /\ reads \in 0 .. MaxReads

(* An edit that is not acknowledged is carried by a write of the chain, or   *)
(* by the flush that is due, unless a write failed: then it waits for the    *)
(* next edit.                                                  *)
EditsAreCarried ==
    failures = 0 =>
      \A f \in Fields : pending[f] # None =>
        due \/ \E k \in 1 .. Len(queue) : queue[k][f] = pending[f]

(* The last edit of a field is pending or in the row: it is not forgotten    *)
(* because a write of an older one was acknowledged, or another left it out. *)
LastEditIsKept ==
    \A f \in Fields :
      latest[f] = IF pending[f] # None THEN pending[f] ELSE row[f]

(* The row never goes back to an older edit, and an edit that the store was  *)
(* told to be in the row is never sent again, by whatever flush took it too: *)
(* it does not write over what others have made of the row since.            *)
WritesGoForward ==
    [][\A f \in Fields : stage = "sent" /\ stage' = "stored" /\ sent[f] # None
         => row[f] <= sent[f] /\ known[f] < sent[f]]_vars

(* Does not hold: every edit is written at most once.  A write that is done  *)
(* and then cannot read the row (sessions_recording_ops.rs:74) fails, and    *)
(* the next flush writes its edits again, over what others wrote meanwhile.  *)
WrittenOnce ==
    [][\A f \in Fields : stage = "sent" /\ stage' = "stored" /\ sent[f] # None
         => row[f] < sent[f]]_vars

(* The revisions in use are those handed out. *)
Numbered ==
    \A f \in Fields :
      /\ pending[f] <= revision /\ sent[f] <= revision
      /\ row[f] <= revision /\ known[f] <= revision
      /\ \A k \in 1 .. Len(queue) : queue[k][f] <= revision

(* What is pending is not behind the row, and the store was not told that it *)
(* is there.                                                                 *)
PendingIsAhead ==
    \A f \in Fields : pending[f] # None =>
      row[f] <= pending[f] /\ known[f] < pending[f]

(* The write under way carries, of the edits its flush saw, those that are   *)
(* still the pending ones, and none that the row has passed or the store was *)
(* told to be there.                                                         *)
WriteIsCurrent ==
    stage # "waiting" =>
      /\ queue # <<>>
      /\ \A f \in Fields :
           /\ Head(queue)[f] = pending[f] => sent[f] = pending[f]
           /\ sent[f] # None =>
                /\ sent[f] = Head(queue)[f]
                /\ known[f] < sent[f] /\ sent[f] <= pending[f]
                /\ IF stage = "sent" THEN row[f] <= sent[f] ELSE row[f] = sent[f]

IInv ==
    /\ TypeOK /\ Numbered /\ PendingIsAhead /\ WriteIsCurrent
    /\ LastEditIsKept /\ EditsAreCarried

(* Every edit reaches the database, or a newer one of its field does, unless *)
(* a write failed and nothing is under way that would carry it again.        *)
EditsReachTheRow ==
    \A f \in Fields, r \in 1 .. MaxRevision :
      pending[f] = r ~> row[f] >= r \/ (failures > 0 /\ queue = <<>> /\ ~due)
=============================================================================
