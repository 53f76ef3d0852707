--------------------------- MODULE NoteStoreProofs ---------------------------
(* Proofs about the store of a note, for any set of fields and any number of *)
(* edits, failures, reads and chained writes.  The inductive invariant is    *)
(* IInv of NoteStore; each conjunct has a lemma with one step per action.    *)
EXTENDS NoteStore, TLAPS

(* What a flush does to the chain: the writes that are there stay, and the   *)
(* edits it takes, if there are any, are the only addition.                  *)
LEMMA QueuedFacts ==
  ASSUME queue \in Seq(Revisions \ {Nothing}), NEW e \in Revisions
  PROVE  /\ Queued(e) \in Seq(Revisions \ {Nothing})
         /\ Len(queue) <= Len(Queued(e))
         /\ \A k \in 1 .. Len(queue) : Queued(e)[k] = queue[k]
         /\ \A k \in 1 .. Len(Queued(e)) :
              \/ k \in 1 .. Len(queue) /\ Queued(e)[k] = queue[k]
              \/ Queued(e)[k] = e
         /\ e # Nothing => \E k \in 1 .. Len(Queued(e)) : Queued(e)[k] = e
<1>1. CASE e = Nothing
  BY <1>1 DEF Queued
<1>2. CASE e # Nothing
  <2>1. Queued(e) = Append(queue, e)
    BY <1>2 DEF Queued
  <2>2. /\ Append(queue, e) \in Seq(Revisions \ {Nothing})
        /\ Len(Append(queue, e)) = Len(queue) + 1
        /\ Append(queue, e)[Len(queue) + 1] = e
        /\ \A k \in 1 .. Len(queue) : Append(queue, e)[k] = queue[k]
    BY <1>2
  <2>3. Len(queue) \in Nat
    OBVIOUS
  <2>4. QED
    BY <2>1, <2>2, <2>3
<1>3. QED
  BY <1>1, <1>2

(* The first write leaves the chain, the others move up.                     *)
LEMMA TailFacts ==
  ASSUME NEW q \in Seq(Revisions \ {Nothing}), q # <<>>
  PROVE  /\ Head(q) \in Revisions \ {Nothing}
         /\ Head(q) = q[1]
         /\ Tail(q) \in Seq(Revisions \ {Nothing})
         /\ Len(q) \in Nat \ {0}
         /\ Len(Tail(q)) = Len(q) - 1
         /\ \A k \in 1 .. Len(Tail(q)) : k + 1 \in 1 .. Len(q) /\ Tail(q)[k] = q[k + 1]
         /\ \A k \in 1 .. Len(q) : k = 1 \/ (k - 1 \in 1 .. Len(Tail(q)) /\ Tail(q)[k - 1] = q[k])
OBVIOUS

(* A flush leaves the first write of the chain in its place. *)
LEMMA HeadStays ==
  ASSUME queue \in Seq(Revisions \ {Nothing}), queue # <<>>, NEW e \in Revisions
  PROVE  Queued(e) # <<>> /\ Head(Queued(e)) = Head(queue)
<1>0. Len(queue) \in Nat \ {0} /\ 1 \in 1 .. Len(queue)
  <2>1. Len(queue) \in Nat \ {0}
    BY TailFacts
  <2>2. QED
    BY <2>1
<1>1. /\ Len(queue) <= Len(Queued(e))
      /\ Queued(e) \in Seq(Revisions \ {Nothing}) /\ Queued(e)[1] = queue[1]
  BY <1>0, QueuedFacts
<1>2. Queued(e) # <<>>
  <2>1. SUFFICES ASSUME Queued(e) = <<>> PROVE FALSE
    OBVIOUS
  <2>2. Len(Queued(e)) = 0
    BY <2>1
  <2>3. QED
    BY <1>0, <1>1, <2>2
<1>3. Head(Queued(e)) = Queued(e)[1] /\ Head(queue) = queue[1]
  BY <1>1, <1>2, TailFacts
<1>4. QED
  BY <1>1, <1>2, <1>3

(* A write under way ends: the chain is one shorter, nothing is sent. *)
LEMMA NextWriteFacts ==
  ASSUME TypeOK, WriteIsCurrent, stage # "waiting", NextWrite
  PROVE  /\ queue # <<>>
         /\ queue' = Tail(queue)
         /\ queue' \in Seq(Revisions \ {Nothing})
         /\ sent' \in Revisions
         /\ stage' = "waiting"
  BY TailFacts, BoundsAssumption DEF NextWrite, WriteIsCurrent, TypeOK, Revisions, Nothing, None

-----------------------------------------------------------------------------
(* Types are kept. *)
LEMMA TypeKept ==
  ASSUME IInv, [Next]_vars
  PROVE  TypeOK'
<1> USE BoundsAssumption DEF IInv, TypeOK
<1>1. ASSUME NEW f \in Fields, NEW force \in BOOLEAN, Edit(f, force) PROVE TypeOK'
  <2>1. /\ revision' \in 0 .. MaxRevision
        /\ {note', pending', latest'} \subseteq Revisions
    BY <1>1 DEF Edit, Revisions
  <2>2. queue' \in Seq(Revisions \ {Nothing}) /\ due' \in BOOLEAN
    <3>1. CASE force
      BY <1>1, <2>1, <3>1, QueuedFacts DEF Edit
    <3>2. CASE ~force
      BY <1>1, <3>2 DEF Edit
    <3>3. QED
      BY <3>1, <3>2
  <2>3. QED
    BY <1>1, <2>1, <2>2 DEF Edit
<1>2. ASSUME Flush PROVE TypeOK'
  BY <1>2, QueuedFacts DEF Flush
<1>3. ASSUME FlushNow PROVE TypeOK'
  BY <1>3, QueuedFacts DEF FlushNow
<1>4. ASSUME Start PROVE TypeOK'
  <2>1. Tail(queue) \in Seq(Revisions \ {Nothing}) /\ Head(queue) \in Revisions
    BY <1>4, TailFacts DEF Start
  <2>2. Current(Head(queue)) \in Revisions
    BY <2>1 DEF Current, Revisions, None
  <2>3. QED
    BY <1>4, <2>1, <2>2 DEF Start
<1>5. ASSUME Stored PROVE TypeOK'
  BY <1>5 DEF Stored, Over, Revisions
<1>6. ASSUME Acknowledge PROVE TypeOK'
  <2>1. Acknowledged \in Revisions /\ Over(known, sent) \in Revisions
    BY DEF Acknowledged, Over, Revisions, None
  <2>2. QED
    BY <1>6, <2>1, NextWriteFacts DEF Acknowledge
<1>7. ASSUME Refused \/ Unread PROVE TypeOK'
  BY <1>7, NextWriteFacts DEF Refused, Unread, Fails
<1>8. ASSUME ReadRow PROVE TypeOK'
  BY <1>8 DEF ReadRow
<1>9. ASSUME ShowRow PROVE TypeOK'
  BY <1>9 DEF ShowRow
<1>10. ASSUME UNCHANGED vars PROVE TypeOK'
  BY <1>10 DEF vars
<1>11. QED
  BY <1>1, <1>2, <1>3, <1>4, <1>5, <1>6, <1>7, <1>8, <1>9, <1>10
     DEF Next, Write

(* What the types say of single fields. *)
LEMMA Values ==
  ASSUME TypeOK
  PROVE  /\ {note, pending, sent, row, known} \subseteq Revisions
         /\ queue \in Seq(Revisions \ {Nothing}) /\ Len(queue) \in Nat
         /\ revision \in Nat
         /\ \A f \in Fields : /\ pending[f] \in Nat /\ sent[f] \in Nat
                               /\ row[f] \in Nat /\ known[f] \in Nat
         /\ \A k \in 1 .. Len(queue) :
              queue[k] \in Revisions /\ \A f \in Fields : queue[k][f] \in Nat
         /\ stage \in {"waiting", "sent", "stored"}
<1>1. \A r \in Revisions, f \in Fields : r[f] \in Nat
  BY BoundsAssumption DEF Revisions
<1>2. \A k \in 1 .. Len(queue) : queue[k] \in Revisions
  BY DEF TypeOK
<1>3. QED
  BY <1>1, <1>2, BoundsAssumption DEF TypeOK

(* An edit makes a revision newer than all others; only its field changes. *)
LEMMA EditFacts ==
  ASSUME TypeOK, NEW f \in Fields, NEW force \in BOOLEAN, Edit(f, force)
  PROVE  /\ revision' = revision + 1
         /\ pending' \in Revisions
         /\ pending' # Nothing
         /\ pending'[f] = revision + 1
         /\ \A g \in Fields : g # f => pending'[g] = pending[g]
         /\ IF force THEN queue' = Queued(pending') ELSE due' /\ queue' = queue
         /\ UNCHANGED <<row, sent, stage, known, failures>>
<1>1. /\ pending \in [Fields -> 0 .. MaxRevision]
      /\ revision \in Nat /\ revision + 1 \in 0 .. MaxRevision
  BY BoundsAssumption DEF TypeOK, Revisions, Edit
<1>2. revision' = revision + 1 /\ pending' = [pending EXCEPT ![f] = revision + 1]
  BY DEF Edit
<1>3. pending' \in Revisions /\ pending'[f] = revision + 1
  BY <1>1, <1>2 DEF Revisions
<1>4. pending' # Nothing
  BY <1>1, <1>3 DEF Nothing, None
<1>5. QED
  BY <1>1, <1>2, <1>3, <1>4 DEF Edit

(* When the first write leaves the chain, the others are still there, and    *)
(* what it did not carry is carried by them.                                 *)
LEMMA Shifted ==
  ASSUME TypeOK, queue # <<>>, queue' = Tail(queue)
  PROVE  \A k \in 1 .. Len(queue') : k + 1 \in 1 .. Len(queue) /\ queue'[k] = queue[k + 1]
BY TailFacts DEF TypeOK

LEMMA Dropped ==
  ASSUME TypeOK, queue # <<>>, queue' = Tail(queue),
         NEW f \in Fields, Head(queue)[f] # pending[f],
         NEW k \in 1 .. Len(queue), queue[k][f] = pending[f]
  PROVE  \E j \in 1 .. Len(queue') : queue'[j][f] = pending[f]
<1>1. k # 1
  BY TailFacts DEF TypeOK
<1>2. k - 1 \in 1 .. Len(queue') /\ queue'[k - 1] = queue[k]
  BY <1>1, TailFacts DEF TypeOK
<1>3. QED
  BY <1>2

(* Revisions are handed out in order. *)
LEMMA NumberedKept ==
  ASSUME IInv, [Next]_vars
  PROVE  Numbered'
<1> USE DEF IInv, Numbered
<1> TypeOK
  OBVIOUS
<1> USE Values
<1>1. ASSUME NEW f \in Fields, NEW force \in BOOLEAN, Edit(f, force) PROVE Numbered'
  <2>1. \A g \in Fields : pending'[g] <= revision'
    BY <1>1, EditFacts
  <2>2. queue' = queue \/ queue' = Queued(pending')
    BY <1>1, EditFacts
  <2>3. \A k \in 1 .. Len(queue') :
          queue'[k] = pending' \/ (k \in 1 .. Len(queue) /\ queue'[k] = queue[k])
    BY <1>1, <2>2, EditFacts, QueuedFacts
  <2>4. \A k \in 1 .. Len(queue), g \in Fields : queue[k][g] <= revision'
    BY <1>1, EditFacts
  <2>5. \A g \in Fields :
          sent'[g] <= revision' /\ row'[g] <= revision' /\ known'[g] <= revision'
    BY <1>1, EditFacts
  <2>6. \A k \in 1 .. Len(queue'), g \in Fields : queue'[k][g] <= revision'
    BY <2>1, <2>3, <2>4
  <2>7. QED
    BY <2>1, <2>5, <2>6
<1>2. ASSUME Flush \/ FlushNow PROVE Numbered'
  <2>1. queue' = Queued(pending) /\ UNCHANGED <<pending, sent, row, known, revision>>
    BY <1>2 DEF Flush, FlushNow
  <2>2. \A k \in 1 .. Len(queue') :
          queue'[k] = pending \/ (k \in 1 .. Len(queue) /\ queue'[k] = queue[k])
    BY <2>1, QueuedFacts
  <2>3. QED
    BY <2>1, <2>2
<1>3. ASSUME Start PROVE Numbered'
  <2>1. queue' = queue \/ (queue # <<>> /\ queue' = Tail(queue))
    BY <1>3 DEF Start
  <2>2. \A k \in 1 .. Len(queue'), g \in Fields : queue'[k][g] <= revision
    <3>1. CASE queue' = queue
      BY <3>1
    <3>2. CASE queue # <<>> /\ queue' = Tail(queue)
      BY <3>2, Shifted
    <3>3. QED
      BY <2>1, <3>1, <3>2
  <2>3. \A g \in Fields : sent'[g] <= revision
    BY <1>3, TailFacts DEF Start, Current, None
  <2>4. QED
    BY <1>3, <2>2, <2>3 DEF Start
<1>4. ASSUME Stored PROVE Numbered'
  BY <1>4 DEF Stored, Over
<1>5. ASSUME Acknowledge \/ Refused \/ Unread PROVE Numbered'
  <2>0. stage # "waiting" /\ NextWrite /\ UNCHANGED <<row, revision>>
    BY <1>5 DEF Acknowledge, Refused, Unread, Fails
  <2>1. \A k \in 1 .. Len(queue'), g \in Fields : queue'[k][g] <= revision
    BY <2>0, NextWriteFacts, Shifted
  <2>2. \A g \in Fields : pending'[g] <= revision /\ sent'[g] <= revision
    BY <1>5 DEF Acknowledge, Refused, Unread, Fails, Acknowledged, NextWrite, Nothing, None
  <2>3. \A g \in Fields : known'[g] <= revision
    BY <1>5 DEF Acknowledge, Refused, Unread, Fails, Over
  <2>4. QED
    BY <2>0, <2>1, <2>2, <2>3
<1>6. ASSUME ReadRow \/ ShowRow \/ UNCHANGED vars PROVE Numbered'
  BY <1>6 DEF ReadRow, ShowRow, vars
<1>7. QED
  BY <1>1, <1>2, <1>3, <1>4, <1>5, <1>6 DEF Next, Write

(* What is pending is newer than the row until its write is stored; the      *)
(* acknowledgement then clears just that.                                    *)
LEMMA AheadKept ==
  ASSUME IInv, [Next]_vars
  PROVE  PendingIsAhead'
<1> USE DEF IInv, PendingIsAhead
<1> TypeOK
  OBVIOUS
<1> USE Values
<1>1. ASSUME NEW f \in Fields, NEW force \in BOOLEAN, Edit(f, force) PROVE PendingIsAhead'
  BY <1>1, EditFacts DEF Numbered
<1>2. ASSUME Flush \/ FlushNow PROVE PendingIsAhead'
  BY <1>2 DEF Flush, FlushNow
<1>3. ASSUME Start PROVE PendingIsAhead'
  BY <1>3 DEF Start
<1>4. ASSUME Stored PROVE PendingIsAhead'
  BY <1>4 DEF Stored, Over, WriteIsCurrent, None
<1>5. ASSUME Acknowledge PROVE PendingIsAhead'
  <2>1. \A f \in Fields : pending'[f] # None =>
          pending'[f] = pending[f] /\ pending[f] # sent[f]
    BY <1>5 DEF Acknowledge, Acknowledged
  <2>2. \A f \in Fields : known'[f] = IF sent[f] # None THEN sent[f] ELSE known[f]
    BY <1>5 DEF Acknowledge, Over
  <2>3. \A f \in Fields : sent[f] # None => sent[f] <= pending[f]
    BY <1>5 DEF Acknowledge, WriteIsCurrent
  <2>4. QED
    BY <1>5, <2>1, <2>2, <2>3 DEF Acknowledge
<1>6. ASSUME Refused \/ Unread PROVE PendingIsAhead'
  BY <1>6 DEF Refused, Unread, Fails, NextWrite
<1>7. ASSUME ReadRow \/ ShowRow \/ UNCHANGED vars PROVE PendingIsAhead'
  BY <1>7 DEF ReadRow, ShowRow, vars
<1>8. QED
  BY <1>1, <1>2, <1>3, <1>4, <1>5, <1>6, <1>7 DEF Next, Write

(* A write that began goes on with what it was given: newer edits replace    *)
(* the pending ones, never what is sent.                                     *)
LEMMA CurrentKept ==
  ASSUME IInv, [Next]_vars
  PROVE  WriteIsCurrent'
<1> USE DEF IInv, WriteIsCurrent
<1> TypeOK
  OBVIOUS
<1> USE Values
<1>1. ASSUME NEW f \in Fields, NEW force \in BOOLEAN, Edit(f, force) PROVE WriteIsCurrent'
  <2>1. ASSUME stage # "waiting" PROVE queue' # <<>> /\ Head(queue') = Head(queue)
    <3>1. queue' = queue \/ queue' = Queued(pending')
      BY <1>1, EditFacts
    <3>2. pending' \in Revisions
      BY <1>1, EditFacts
    <3>3. QED
      BY <2>1, <3>1, <3>2, HeadStays
  <2>2. ASSUME stage # "waiting" PROVE \A g \in Fields : Head(queue)[g] <= revision
    <3>1. Len(queue) \in Nat \ {0} /\ Head(queue) = queue[1]
      BY <2>2, TailFacts
    <3>2. 1 \in 1 .. Len(queue)
      BY <3>1
    <3>3. QED
      BY <3>1, <3>2 DEF Numbered
  <2>3. \A g \in Fields : IF g = f THEN pending'[g] = revision + 1
                                   ELSE pending'[g] = pending[g]
    BY <1>1, EditFacts
  <2>4. UNCHANGED <<sent, stage, row, known>>
    BY <1>1, EditFacts
  <2>5. \A g \in Fields : sent[g] <= revision
    BY DEF Numbered
  <2>6. ASSUME stage # "waiting", NEW g \in Fields
        PROVE  /\ Head(queue')[g] = pending'[g] => sent'[g] = pending'[g]
               /\ sent'[g] # None =>
                    /\ sent'[g] = Head(queue')[g]
                    /\ known'[g] < sent'[g] /\ sent'[g] <= pending'[g]
                    /\ IF stage' = "sent" THEN row'[g] <= sent'[g]
                                          ELSE row'[g] = sent'[g]
    <3>1. Head(queue') = Head(queue) /\ Head(queue)[g] <= revision
      BY <2>1, <2>2, <2>6
    <3>2. CASE g = f
      <4>1. pending'[g] = revision + 1 /\ Head(queue)[g] # revision + 1
        BY <2>3, <3>1, <3>2, <2>6, TailFacts
      <4>2. QED
        BY <2>4, <2>5, <2>6, <3>1, <4>1
    <3>3. CASE g # f
      BY <2>3, <2>4, <2>6, <3>1, <3>3
    <3>4. QED
      BY <3>2, <3>3
  <2>7. QED
    BY <2>1, <2>4, <2>6
<1>2. ASSUME Flush \/ FlushNow PROVE WriteIsCurrent'
  <2>1. ASSUME stage # "waiting" PROVE queue' # <<>> /\ Head(queue') = Head(queue)
    BY <1>2, <2>1 DEF Queued, Flush, FlushNow
  <2>2. QED
    BY <1>2, <2>1 DEF Flush, FlushNow
<1>3. ASSUME Start PROVE WriteIsCurrent'
  <2>1. \A f \in Fields : Head(queue)[f] \in Nat
    BY <1>3, TailFacts DEF Start
  <2>2. CASE Current(Head(queue)) = Nothing
    BY <1>3, <2>2 DEF Start
  <2>3. CASE Current(Head(queue)) # Nothing
    BY <1>3, <2>1, <2>3 DEF Start, Current, PendingIsAhead, None
  <2>4. QED
    BY <2>2, <2>3
<1>4. ASSUME Stored PROVE WriteIsCurrent'
  BY <1>4 DEF Stored, Over, None
<1>5. ASSUME Acknowledge \/ Refused \/ Unread PROVE WriteIsCurrent'
  BY <1>5 DEF Acknowledge, Refused, Unread, Fails, NextWrite
<1>6. ASSUME ReadRow \/ ShowRow \/ UNCHANGED vars PROVE WriteIsCurrent'
  BY <1>6 DEF ReadRow, ShowRow, vars
<1>7. QED
  BY <1>1, <1>2, <1>3, <1>4, <1>5, <1>6 DEF Next, Write

(* The acknowledgement clears what is in the row; nothing that is pending is *)
(* older than the last edit.                                                 *)
LEMMA LastEditKept ==
  ASSUME IInv, [Next]_vars
  PROVE  LastEditIsKept'
<1> USE DEF IInv, LastEditIsKept
<1> TypeOK
  OBVIOUS
<1> USE Values
<1>1. ASSUME NEW f \in Fields, NEW force \in BOOLEAN, Edit(f, force) PROVE LastEditIsKept'
  <2>1. /\ latest'[f] = revision + 1
        /\ \A g \in Fields : g # f => latest'[g] = latest[g]
    BY <1>1 DEF Edit, TypeOK, Revisions
  <2>2. QED
    BY <1>1, <2>1, EditFacts DEF None
<1>2. ASSUME Flush \/ FlushNow PROVE LastEditIsKept'
  BY <1>2 DEF Flush, FlushNow
<1>3. ASSUME Start PROVE LastEditIsKept'
  BY <1>3 DEF Start
<1>4. ASSUME Stored PROVE LastEditIsKept'
  <2>1. \A f \in Fields : sent[f] # None => pending[f] # None
    BY <1>4 DEF Stored, WriteIsCurrent, None
  <2>2. \A f \in Fields : row'[f] = IF sent[f] # None THEN sent[f] ELSE row[f]
    BY <1>4 DEF Stored, Over
  <2>3. QED
    BY <1>4, <2>1, <2>2 DEF Stored
<1>5. ASSUME Acknowledge PROVE LastEditIsKept'
  <2>1. \A f \in Fields : pending'[f] = IF pending[f] = sent[f] THEN None ELSE pending[f]
    BY <1>5 DEF Acknowledge, Acknowledged
  <2>2. \A f \in Fields : sent[f] # None => row[f] = sent[f]
    BY <1>5 DEF Acknowledge, WriteIsCurrent
  <2>3. QED
    BY <1>5, <2>1, <2>2 DEF Acknowledge
<1>6. ASSUME Refused \/ Unread PROVE LastEditIsKept'
  BY <1>6 DEF Refused, Unread, Fails
<1>7. ASSUME ReadRow \/ ShowRow \/ UNCHANGED vars PROVE LastEditIsKept'
  BY <1>7 DEF ReadRow, ShowRow, vars
<1>8. QED
  BY <1>1, <1>2, <1>3, <1>4, <1>5, <1>6, <1>7 DEF Next, Write

(* What is pending is carried: the write that ends was not the carrier of an *)
(* edit that is still pending.                                               *)
LEMMA CarriedKept ==
  ASSUME IInv, [Next]_vars
  PROVE  EditsAreCarried'
<1> USE DEF IInv, EditsAreCarried
<1> TypeOK
  OBVIOUS
<1> USE Values
<1>1. ASSUME NEW f \in Fields, NEW force \in BOOLEAN, Edit(f, force) PROVE EditsAreCarried'
  <2>1. CASE force
    <3>1. queue' = Queued(pending')
      BY <1>1, <2>1, EditFacts
    <3>2. \E k \in 1 .. Len(queue') : queue'[k] = pending'
      BY <1>1, <3>1, EditFacts, QueuedFacts
    <3>3. QED
      BY <3>2
  <2>2. CASE ~force
    BY <1>1, <2>2, EditFacts
  <2>3. QED
    BY <2>1, <2>2
<1>2. ASSUME Flush \/ FlushNow PROVE EditsAreCarried'
  <2>1. queue' = Queued(pending) /\ pending' = pending
    BY <1>2 DEF Flush, FlushNow
  <2>2. CASE pending = Nothing
    BY <2>1, <2>2 DEF Nothing
  <2>3. CASE pending # Nothing
    <3>1. \E k \in 1 .. Len(queue') : queue'[k] = pending
      BY <2>1, <2>3, QueuedFacts
    <3>2. QED
      BY <2>1, <3>1
  <2>4. QED
    BY <2>2, <2>3
<1>3. ASSUME Start PROVE EditsAreCarried'
  <2>1. UNCHANGED <<pending, due, failures>>
    BY <1>3 DEF Start
  <2>2. CASE queue' = queue
    BY <2>1, <2>2
  <2>3. CASE Current(Head(queue)) = Nothing /\ queue # <<>> /\ queue' = Tail(queue)
    <3>1. \A f \in Fields : pending[f] # None => Head(queue)[f] # pending[f]
      BY <2>3 DEF Current, Nothing
    <3>2. QED
      BY <2>1, <2>3, <3>1, Dropped
  <2>4. QED
    BY <1>3, <2>2, <2>3 DEF Start
<1>4. ASSUME Stored PROVE EditsAreCarried'
  BY <1>4 DEF Stored
<1>5. ASSUME Acknowledge PROVE EditsAreCarried'
  <2>1. queue # <<>> /\ queue' = Tail(queue) /\ UNCHANGED <<due, failures>>
    BY <1>5, NextWriteFacts DEF Acknowledge
  <2>2. \A f \in Fields : pending'[f] # None =>
          pending'[f] = pending[f] /\ Head(queue)[f] # pending[f]
    BY <1>5 DEF Acknowledge, Acknowledged, WriteIsCurrent
  <2>3. QED
    BY <2>1, <2>2, Dropped
<1>6. ASSUME Refused \/ Unread PROVE EditsAreCarried'
  BY <1>6 DEF Refused, Unread, Fails, TypeOK
<1>7. ASSUME ReadRow \/ ShowRow \/ UNCHANGED vars PROVE EditsAreCarried'
  BY <1>7 DEF ReadRow, ShowRow, vars
<1>8. QED
  BY <1>1, <1>2, <1>3, <1>4, <1>5, <1>6, <1>7 DEF Next, Write

-----------------------------------------------------------------------------
LEMMA IInvInit == Init => IInv
<1> SUFFICES ASSUME Init PROVE IInv
  OBVIOUS
<1>1. Nothing \in Revisions
  BY BoundsAssumption DEF Nothing, Revisions, None
<1>2. TypeOK
  <2>1. 0 \in 0 .. MaxRevision /\ 0 \in 0 .. MaxFailures /\ 0 \in 0 .. MaxReads
    BY BoundsAssumption
  <2>2. <<>> \in Seq(Revisions \ {Nothing}) /\ <<>> \in Seq(Revisions) /\ Len(<<>>) = 0
    OBVIOUS
  <2>3. QED
    BY <1>1, <2>1, <2>2 DEF Init, TypeOK
<1>3. QED
  BY <1>2
     DEF Init, IInv, Numbered, PendingIsAhead, WriteIsCurrent, LastEditIsKept,
         EditsAreCarried, Nothing, None

LEMMA IInvStep == ASSUME IInv, [Next]_vars PROVE IInv'
BY TypeKept, NumberedKept, AheadKept, CurrentKept, LastEditKept,
   CarriedKept DEF IInv

(* The inductive invariant holds in every reachable state. *)
THEOREM NoteInvariance == Spec => []IInv
BY IInvInit, IInvStep, PTL DEF Spec

(* Every variable of the store keeps its type. *)
THEOREM NoteTyping == Spec => []TypeOK
<1>1. IInv => TypeOK
  BY DEF IInv
<1>2. QED
  BY <1>1, NoteInvariance, PTL

(* The last edit of every field is pending or in the row: no acknowledgement *)
(* of flushUpdates forgets it, and no write leaves another one in its place. *)
THEOREM NoteKeepsLastEdit == Spec => []LastEditIsKept
<1>1. IInv => LastEditIsKept
  BY DEF IInv
<1>2. QED
  BY <1>1, NoteInvariance, PTL

(* As long as the database takes the writes, a pending edit is carried by a  *)
(* write of the chain or by the flush that is due.                           *)
THEOREM NoteCarriesEdits == Spec => []EditsAreCarried
<1>1. IInv => EditsAreCarried
  BY DEF IInv
<1>2. QED
  BY <1>1, NoteInvariance, PTL

(* No write of flushUpdates takes a field back to an older edit, or sends one *)
(* again that an earlier write was answered for; what a failed write has done *)
(* (update_session_note_fields after its UPDATE) may be sent again.           *)
THEOREM NoteWritesForward == Spec => WritesGoForward
<1>1. ASSUME IInv, [Next]_vars
      PROVE  [\A f \in Fields : stage = "sent" /\ stage' = "stored" /\ sent[f] # None
                => row[f] <= sent[f] /\ known[f] < sent[f]]_vars
  BY <1>1 DEF IInv, WriteIsCurrent
<1>2. QED
  BY <1>1, NoteInvariance, PTL DEF Spec, WritesGoForward
=============================================================================
