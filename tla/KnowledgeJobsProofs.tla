------------------------ MODULE KnowledgeJobsProofs ------------------------
(* Proofs about the jobs that compile the knowledge of a project, for any    *)
(* windows, sources, texts and attempts, slow jobs included.  The inductive  *)
(* invariant is IInv of KnowledgeJobs.  What queuing, claiming and ending a  *)
(* job do to the table and to the windows is stated once, in one lemma each. *)
EXTENDS KnowledgeJobs, FiniteSetTheorems, TLAPS

JobsTyped == jobs \in [JobIds -> Row]
WorkTyped == work \in [Windows -> [JobIds -> Work]]

(* The jobs and who executes them. *)
JobsOK == OneActivePerKey /\ RunningIsExecuted

LEMMA Shapes ==
  /\ NoRow \in Row /\ NoRow.status = "Finished"
  /\ NoBrief \in Brief /\ NoBrief.status = "None"
  /\ NoWork \in Work /\ NoWork.pc = "no"
  /\ NoAsk \in Ask /\ NoAsk.pc = "no"
  /\ Contents = Texts \cup {NoText}
  /\ \A w \in Work : w.mat \in Snapshots \cup {NoSnapshot} /\ w.was \in Brief
  /\ \A b \in Brief : b.of \in Snapshots \cup {NoSnapshot}
BY DEF NoRow, Row, NoBrief, Brief, NoWork, Work, NoAsk, Ask, Contents

(* A digest job is about one of the sources. *)
LEMMA DigestIsOfSource ==
  ASSUME NEW j \in JobIds, Type(j) = "digest"
  PROVE  j[1].about[1] \in Sources
<1>1. j[1] \in Keys
  BY DEF JobIds
<1>2. CASE j[1] \in {[type |-> "digest", about |-> <<s, t>>] : s \in Sources, t \in Texts}
  BY <1>2
<1>3. CASE j[1] \in [type : {"synthesis", "brief"}, about : Snapshots]
  BY <1>3 DEF Type
<1>4. QED
  BY <1>1, <1>2, <1>3 DEF Keys

LEMMA Elements ==
  ASSUME TypeOK, NEW w \in Windows, NEW j \in JobIds
  PROVE  /\ jobs[j] \in Row /\ jobs[j].attempts \in Nat
         /\ work[w][j] \in Work /\ asks[w] \in Ask
         /\ work[w][j].attempts \in Nat
         /\ work[w][j].mat \in Snapshots \cup {NoSnapshot}
         /\ work[w][j].was \in Brief
BY DEF TypeOK, Row, Work

-----------------------------------------------------------------------------
(* The table.                                                                *)

(* One row changes, and is only made active if it was, or if no other row    *)
(* with its key is.                                                          *)
LEMMA OneRowKept ==
  ASSUME OneActivePerKey, NEW j \in JobIds,
         \A i \in JobIds \ {j} : jobs'[i] = jobs[i],
         Active(j)' => Active(j) \/ \A i \in JobIds \ {j} : i[1] = j[1] => ~Active(i)
  PROVE  OneActivePerKey'
BY DEF OneActivePerKey, Active

(* Queuing never makes a second row of a key active, nor any row Running.    *)
LEMMA EnqueueKeeps ==
  ASSUME JobsTyped, JobsOK, NEW ks, Enqueue(ks),
         UNCHANGED lost, \A j \in JobIds : Executed(j) => Executed(j)'
  PROVE  JobsTyped' /\ JobsOK'
<1>1. \A j \in JobIds :
        jobs'[j] = IF j[1] \in ks /\ ~ActiveKey(j[1]) /\ j = RowFor(j[1])
                   THEN [status |-> "Queued", attempts |-> 0] ELSE jobs[j]
  BY DEF Enqueue
<1>2. JobsTyped'
  <2>1. [status |-> "Queued", attempts |-> 0] \in Row
    BY DEF Row
  <2>2. QED
    BY <2>1 DEF Enqueue, JobsTyped
<1>3. OneActivePerKey'
  <2>1. SUFFICES ASSUME NEW i \in JobIds, NEW j \in JobIds, i[1] = j[1],
                        Active(i)', Active(j)'
                 PROVE  i = j
    BY DEF OneActivePerKey
  <2>2. CASE ActiveKey(i[1])
    BY <1>1, <2>1, <2>2 DEF JobsOK, OneActivePerKey, Active
  <2>3. CASE ~ActiveKey(i[1])
    <3>1. ASSUME NEW h \in JobIds, h[1] = i[1] PROVE ~Active(h)
      <4>1. PICK k \in Keys, c \in Copies : h = <<k, c>>
        BY DEF JobIds
      <4>2. QED
        BY <2>3, <3>1, <4>1 DEF ActiveKey
    <3>2. i = RowFor(i[1]) /\ j = RowFor(j[1])
      BY <1>1, <2>1, <3>1 DEF Active
    <3>3. QED
      BY <2>1, <3>2
  <2>4. QED
    BY <2>2, <2>3
<1>4. RunningIsExecuted'
  BY <1>1 DEF JobsOK, RunningIsExecuted
<1>5. QED
  BY <1>2, <1>3, <1>4 DEF JobsOK

(* Nothing but the work of window w on job j changes. *)
OnlyWork(w, j) ==
  \A v \in Windows, i \in JobIds : v # w \/ i # j => work'[v][i] = work[v][i]

LEMMA ExecutionKept ==
  ASSUME NEW w \in Windows, NEW j \in JobIds, OnlyWork(w, j)
  PROVE  \A i \in JobIds \ {j} : Executed(i) => Executed(i)'
BY DEF OnlyWork, Executed, Busy

(* A job that begins is executed by the window that took it.                 *)
LEMMA StartKeeps ==
  ASSUME TypeOK, JobsOK, NEW w \in Windows, NEW j \in JobIds, Takes(w, j),
         NEW pc \in {"read", "generate"}, NEW mat \in Snapshots \cup {NoSnapshot},
         NEW was \in Brief, Start(w, j, pc, mat, was), UNCHANGED lost
  PROVE  /\ JobsTyped' /\ WorkTyped' /\ JobsOK' /\ OnlyWork(w, j)
         /\ work'[w][j].pc = pc /\ work'[w][j].mat = mat
<1>1. Claimed(j) \in Row /\ Claimed(j).status = "Running"
  BY Elements DEF Claimed, Row
<1>2. jobs' = [jobs EXCEPT ![j] = Claimed(j)]
  BY DEF Start
<1>3. JobsTyped' /\ \A i \in JobIds \ {j} : jobs'[i] = jobs[i]
  BY <1>1, <1>2 DEF JobsTyped, TypeOK
<1> DEFINE new == [pc |-> pc, attempts |-> jobs[j].attempts + 1, mat |-> mat, was |-> was]
<1>4. new \in Work /\ new.pc = pc /\ new.mat = mat
  BY Elements DEF Work
<1>5. work' = [work EXCEPT ![w][j] = new]
  BY DEF Start
<1> HIDE DEF new
<1>6. WorkTyped' /\ OnlyWork(w, j) /\ work'[w][j] = new
  BY <1>4, <1>5 DEF WorkTyped, OnlyWork, TypeOK
<1>7. OneActivePerKey'
  <2>1. Active(j)
    BY DEF Takes, Active
  <2>2. QED
    BY <1>3, <2>1, OneRowKept DEF JobsOK
<1>8. Executed(j)'
  BY <1>4, <1>6 DEF Executed, Busy
<1>9. RunningIsExecuted'
  BY <1>3, <1>6, <1>8, ExecutionKept DEF JobsOK, RunningIsExecuted
<1>10. QED
  BY <1>3, <1>4, <1>6, <1>7, <1>9 DEF JobsOK

(* A row that is written while nothing is begun or ended.                    *)
LEMMA RowKeeps ==
  ASSUME TypeOK, JobsOK, NEW j \in JobIds, jobs[j].status = "Queued",
         NEW row \in Row, row.status = "Running" => Executed(j),
         jobs' = [jobs EXCEPT ![j] = row], UNCHANGED <<work, lost>>
  PROVE  JobsTyped' /\ JobsOK'
<1>1. /\ JobsTyped' /\ jobs'[j] = row
      /\ \A i \in JobIds \ {j} : jobs'[i] = jobs[i]
  BY DEF JobsTyped, TypeOK
<1>2. OneActivePerKey'
  <2>1. Active(j)
    BY DEF Active
  <2>2. QED
    BY <1>1, <2>1, OneRowKept DEF JobsOK
<1>3. \A i \in JobIds : Executed(i)' <=> Executed(i)
  BY DEF Executed, Busy
<1>4. RunningIsExecuted'
  BY <1>1, <1>3 DEF JobsOK, RunningIsExecuted
<1>5. QED
  BY <1>1, <1>2, <1>4 DEF JobsOK

LEMMA AtOnceKeeps ==
  ASSUME TypeOK, JobsOK, NEW w \in Windows, NEW j \in JobIds, Takes(w, j),
         CompleteAtOnce(j) \/ FailAtOnce(j), UNCHANGED <<work, lost>>
  PROVE  JobsTyped' /\ JobsOK'
<1>1. PICK row \in Row : row.status # "Running" /\ jobs' = [jobs EXCEPT ![j] = row]
  <2>1. /\ [Claimed(j) EXCEPT !.status = "Finished"] \in Row
        /\ [Claimed(j) EXCEPT !.status = "Queued"] \in Row
        /\ [Claimed(j) EXCEPT !.status = "Finished"].status = "Finished"
        /\ [Claimed(j) EXCEPT !.status = "Queued"].status = "Queued"
    BY Elements DEF Claimed, Row
  <2>2. QED
    BY <2>1, Shapes DEF CompleteAtOnce, FailAtOnce
<1>2. jobs[j].status = "Queued"
  BY DEF Takes
<1>3. QED
  BY <1>1, <1>2, RowKeeps

(* A job that ends: the row is written by its id, but not made active beside *)
(* another row of the key.                                                   *)
LEMMA EndKeeps ==
  ASSUME TypeOK, JobsOK, NEW w \in Windows, NEW j \in JobIds,
         NEW status \in {"Queued", "Finished"}, EndAs(w, j, status, jobs[j].attempts),
         UNCHANGED lost
  PROVE  JobsTyped' /\ WorkTyped' /\ JobsOK' /\ OnlyWork(w, j) /\ work'[w][j] = NoWork
<1> DEFINE end == [status |-> status, attempts |-> jobs[j].attempts]
<1>1. end \in Row /\ end.status = status
  BY Elements DEF Row
<1>2. /\ work' = [work EXCEPT ![w][j] = NoWork]
      /\ \A i \in JobIds \ {j} : jobs'[i] = jobs[i]
      /\ JobsTyped'
      /\ jobs'[j] = IF Rejected(j, status) THEN jobs[j]
                    ELSE IF status = "Finished" /\ ~(\E v \in Windows \ {w} : Busy(v, j))
                    THEN NoRow ELSE end
  BY <1>1, Shapes DEF EndAs, JobsTyped, TypeOK
<1> HIDE DEF end
<1>3. WorkTyped' /\ OnlyWork(w, j) /\ work'[w][j] = NoWork
  BY <1>2, Shapes DEF WorkTyped, OnlyWork, TypeOK
<1>4. PICK k \in Keys, d \in Copies : j = <<k, d>>
  BY DEF JobIds
<1>5. CASE Rejected(j, status)
  <2>1. jobs'[j] = jobs[j]
    BY <1>2, <1>5
  <2>2. ~Active(j)
    <3>1. PICK c \in Copies : c # d /\ Active(<<k, c>>)
      BY <1>4, <1>5 DEF Rejected
    <3>2. <<k, c>> \in JobIds /\ <<k, c>> # j
      BY <1>4, <3>1 DEF JobIds
    <3>3. QED
      BY <1>4, <3>1, <3>2 DEF JobsOK, OneActivePerKey
  <2>3. OneActivePerKey'
    BY <1>2, <2>1, OneRowKept DEF JobsOK, Active
  <2>4. jobs'[j].status # "Running"
    BY <2>1, <2>2 DEF Active
  <2>5. RunningIsExecuted'
    BY <1>2, <1>3, <2>4, ExecutionKept DEF JobsOK, RunningIsExecuted
  <2>6. QED
    BY <1>2, <1>3, <2>3, <2>5 DEF JobsOK
<1>6. CASE ~Rejected(j, status)
  <2>1. jobs'[j].status \in {status, "Finished"} /\ jobs'[j].status # "Running"
    BY <1>1, <1>2, <1>6, Shapes
  <2>2. Active(j)' => \A i \in JobIds \ {j} : i[1] = j[1] => ~Active(i)
    <3>1. SUFFICES ASSUME Active(j)', NEW i \in JobIds \ {j}, i[1] = j[1]
                   PROVE  ~Active(i)
      OBVIOUS
    <3>2. status = "Queued"
      BY <2>1, <3>1 DEF Active
    <3>3. PICK h \in Keys, c \in Copies : i = <<h, c>>
      BY DEF JobIds
    <3>4. h = k /\ c # d
      BY <1>4, <3>1, <3>3
    <3>5. QED
      BY <1>4, <1>6, <3>2, <3>3, <3>4 DEF Rejected
  <2>3. OneActivePerKey'
    BY <1>2, <2>2, OneRowKept DEF JobsOK
  <2>4. RunningIsExecuted'
    BY <1>2, <1>3, <2>1, ExecutionKept DEF JobsOK, RunningIsExecuted
  <2>5. QED
    BY <1>2, <1>3, <2>3, <2>4 DEF JobsOK
<1>7. QED
  BY <1>5, <1>6

LEMMA CompleteOrFailKeeps ==
  ASSUME TypeOK, JobsOK, NEW w \in Windows, NEW j \in JobIds,
         Complete(w, j) \/ Fail(w, j), UNCHANGED lost
  PROVE  JobsTyped' /\ WorkTyped' /\ JobsOK' /\ OnlyWork(w, j) /\ work'[w][j] = NoWork
BY EndKeeps DEF Complete, Fail

-----------------------------------------------------------------------------
(* The steps.                                                                *)
RestTyped ==
  /\ source \in Snapshots
  /\ digests \in [Sources -> Contents]
  /\ synthesis \in Snapshots \cup {NoSnapshot}
  /\ brief \in Brief
  /\ cited \in Snapshots \cup {NoSnapshot}
  /\ asks \in [Windows -> Ask]
  /\ timers \subseteq open /\ open \subseteq Windows /\ lost \subseteq JobIds
  /\ used \in [edits : 0..MaxEdits, closes : 0..MaxCloses, faults : 0..MaxFaults]

LEMMA Parts ==
  /\ IInv <=> /\ JobsTyped /\ WorkTyped /\ RestTyped /\ JobsOK
              /\ WorkHasRead /\ BuildingIsBuilt
  /\ (IInv <=> /\ JobsTyped /\ WorkTyped /\ RestTyped /\ JobsOK
               /\ WorkHasRead /\ BuildingIsBuilt)'
BY DEF IInv, TypeOK, JobsTyped, WorkTyped, RestTyped, JobsOK

(* A step of one job other than the end of a brief's generation leaves the   *)
(* brief being built.                                                        *)
LEMMA JobStepKeeps ==
  ASSUME IInv, NEW w \in Windows, NEW j \in JobIds, OnlyWork(w, j),
         ~At(w, j, "brief", "generate"), UNCHANGED open,
         brief'.status = "Building" => brief.status = "Building",
         used'.closes = used.closes,
         work'[w][j].pc \in {"generate", "cite"} => work'[w][j].mat \in Snapshots
  PROVE  WorkHasRead' /\ BuildingIsBuilt'
<1>1. WorkHasRead'
  <2>1. SUFFICES ASSUME NEW v \in Windows, NEW i \in JobIds,
                        work'[v][i].pc \in {"generate", "cite"}
                 PROVE  work'[v][i].mat \in Snapshots
    BY DEF WorkHasRead
  <2>2. CASE v = w /\ i = j
    BY <2>1, <2>2
  <2>3. CASE v # w \/ i # j
    BY <2>1, <2>3 DEF IInv, WorkHasRead, OnlyWork
  <2>4. QED
    BY <2>2, <2>3
<1>2. Built => Built'
  <2>1. SUFFICES ASSUME Built PROVE Built'
    OBVIOUS
  <2>2. PICK v \in Windows, i \in JobIds : At(v, i, "brief", "generate")
    BY <2>1 DEF Built
  <2>3. v # w \/ i # j
    BY <2>2
  <2>4. At(v, i, "brief", "generate")'
    BY <2>2, <2>3 DEF At, OnlyWork, Type
  <2>5. QED
    BY <2>4 DEF Built
<1>3. QED
  BY <1>1, <1>2 DEF IInv, BuildingIsBuilt

(* Claiming. *)
LEMMA ClaimKeeps ==
  ASSUME IInv, NEW w \in Windows, NEW j \in JobIds, Claim(w, j)
  PROVE  IInv'
<1>0. TypeOK /\ JobsOK /\ JobsTyped /\ WorkTyped /\ RestTyped
  BY Parts DEF IInv
<1>1. /\ Takes(w, j) /\ RestTyped'
      /\ UNCHANGED <<source, brief, open, lost, used>>
  BY <1>0 DEF Claim, ClaimAgain, ClaimDigest, ClaimSynthesis, ClaimBrief, RestTyped
<1>2. ASSUME work' = work, JobsTyped' /\ JobsOK' PROVE IInv'
  <2>1. WorkTyped' /\ WorkHasRead'
    BY <1>0, <1>2 DEF WorkTyped, IInv, WorkHasRead
  <2>2. BuildingIsBuilt'
    BY <1>1, <1>2 DEF IInv, BuildingIsBuilt, Built, At, Type
  <2>3. QED
    BY <1>1, <1>2, <2>1, <2>2, Parts
<1>3. ASSUME NEW pc \in {"read", "generate"}, NEW mat \in Snapshots \cup {NoSnapshot},
             NEW was \in Brief, Start(w, j, pc, mat, was), ~Busy(w, j),
             pc = "generate" => mat \in Snapshots
      PROVE  IInv'
  <2>1. /\ JobsTyped' /\ WorkTyped' /\ JobsOK' /\ OnlyWork(w, j)
        /\ work'[w][j].pc = pc /\ work'[w][j].mat = mat
    BY <1>0, <1>1, <1>3, StartKeeps
  <2>2. ~At(w, j, "brief", "generate")
    BY <1>3 DEF At, Busy
  <2>3. WorkHasRead' /\ BuildingIsBuilt'
    BY <1>1, <1>3, <2>1, <2>2, JobStepKeeps
  <2>4. QED
    BY <1>1, <2>1, <2>3, Parts
<1>4. CASE ClaimAgain(w, j)
  <2>1. Claimed(j) \in Row /\ jobs' = [jobs EXCEPT ![j] = Claimed(j)] /\ work' = work
    BY <1>0, <1>4, Elements DEF ClaimAgain, Claimed, Row
  <2>2. Executed(j) /\ jobs[j].status = "Queued"
    BY <1>4 DEF ClaimAgain, Executed, Takes
  <2>3. JobsTyped' /\ JobsOK'
    BY <1>0, <1>1, <2>1, <2>2, RowKeeps
  <2>4. QED
    BY <1>2, <2>1, <2>3
<1>5. CASE ClaimDigest(w, j)
  <2>1. CASE (CompleteAtOnce(j) \/ FailAtOnce(j)) /\ work' = work
    BY <1>0, <1>1, <1>2, <2>1, AtOnceKeeps
  <2>2. CASE Start(w, j, "generate", source, NoBrief) /\ ~Busy(w, j)
    BY <1>0, <1>3, <2>2, Shapes DEF RestTyped
  <2>3. QED
    BY <1>5, <2>1, <2>2 DEF ClaimDigest
<1>6. CASE ClaimSynthesis(w, j) \/ ClaimBrief(w, j)
  <2>1. CASE Release /\ work' = work
    <3>1. \A i \in JobIds : Executed(i) => Executed(i)'
      BY <2>1 DEF Executed, Busy
    <3>2. QED
      BY <1>0, <1>1, <1>2, <2>1, <3>1, EnqueueKeeps DEF Release
  <2>2. CASE /\ ~Busy(w, j)
             /\ \E was \in Brief : Start(w, j, "read", NoSnapshot, was)
    BY <1>3, <2>2
  <2>3. QED
    BY <1>0, <1>6, <2>1, <2>2, Shapes DEF ClaimSynthesis, ClaimBrief, RestTyped
<1>7. QED
  BY <1>4, <1>5, <1>6 DEF Claim

(* Running, to the end of a job or to its next wait. *)
LEMMA RunEnds ==
  ASSUME IInv, NEW w \in Windows, NEW j \in JobIds,
         Complete(w, j) \/ Fail(w, j), RestTyped', UNCHANGED <<open, lost>>,
         used'.closes = used.closes,
         brief'.status = "Building" =>
           brief.status = "Building" /\ ~At(w, j, "brief", "generate")
  PROVE  IInv'
<1>1. /\ JobsTyped' /\ WorkTyped' /\ JobsOK' /\ OnlyWork(w, j)
      /\ work'[w][j].pc = "no"
  BY Parts, CompleteOrFailKeeps, Shapes DEF IInv
<1>2. CASE ~At(w, j, "brief", "generate")
  BY <1>1, <1>2, JobStepKeeps, Parts
<1>3. CASE At(w, j, "brief", "generate")
  <2>1. BuildingIsBuilt'
    BY <1>3 DEF BuildingIsBuilt
  <2>2. WorkHasRead'
    BY <1>1 DEF IInv, WorkHasRead, OnlyWork
  <2>3. QED
    BY <1>1, <2>1, <2>2, Parts
<1>4. QED
  BY <1>2, <1>3

LEMMA FaultFacts ==
  ASSUME RestTyped, Fault \/ UNCHANGED used
  PROVE  /\ used' \in [edits : 0..MaxEdits, closes : 0..MaxCloses, faults : 0..MaxFaults]
         /\ used'.closes = used.closes
BY KnowledgeAssumption DEF RestTyped, Fault

LEMMA RunKeeps ==
  ASSUME IInv, NEW w \in Windows, NEW j \in JobIds, Run(w, j)
  PROVE  IInv'
<1>0. TypeOK /\ JobsOK /\ JobsTyped /\ WorkTyped /\ RestTyped /\ WorkHasRead
  BY Parts DEF IInv
<1> DEFINE mat == work[w][j].mat
<1>1. CASE DigestStore(w, j)
  <2>1. /\ Type(j) = "digest" /\ work[w][j].pc = "generate"
        /\ UNCHANGED <<source, synthesis, brief, cited, asks, timers, open, lost>>
        /\ Fault \/ UNCHANGED used
        /\ Complete(w, j) \/ Fail(w, j)
    BY <1>1 DEF DigestStore, At
  <2>2. digests' \in [Sources -> Contents]
    <3> DEFINE s == j[1].about[1]
    <3>1. mat[s] \in Contents /\ s \in Sources
      BY <1>0, <2>1, DigestIsOfSource DEF WorkHasRead, Snapshots
    <3>2. digests' = [digests EXCEPT ![s] = mat[s]] \/ digests' = digests
      BY <1>1 DEF DigestStore
    <3> HIDE DEF s, mat
    <3>3. QED
      BY <1>0, <3>1, <3>2 DEF RestTyped
  <2>3. RestTyped'
    BY <1>0, <2>1, <2>2, FaultFacts DEF RestTyped
  <2>4. ~At(w, j, "brief", "generate")
    BY <2>1 DEF At
  <2>5. QED
    BY <1>0, <2>1, <2>3, <2>4, FaultFacts, RunEnds
<1>2. ASSUME NEW new \in Work, work' = [work EXCEPT ![w][j] = new],
             new.mat \in Snapshots, UNCHANGED <<jobs, open, lost>>, RestTyped',
             used'.closes = used.closes, new.pc # "no",
             ~At(w, j, "brief", "generate"),
             brief'.status = "Building" =>
               \/ brief.status = "Building"
               \/ w \in open /\ Type(j) = "brief" /\ new.pc = "generate"
      PROVE  IInv'
  <2>1. WorkTyped' /\ OnlyWork(w, j) /\ work'[w][j] = new /\ JobsTyped'
    BY <1>0, <1>2 DEF WorkTyped, OnlyWork, JobsTyped
  <2>2. Executed(j)'
    BY <1>2, <2>1 DEF Executed, Busy
  <2>3. JobsOK'
    BY <1>0, <1>2, <2>1, <2>2, ExecutionKept
       DEF JobsOK, OneActivePerKey, RunningIsExecuted, Active
  <2>4. CASE brief'.status = "Building" => brief.status = "Building"
    BY <1>2, <2>1, <2>3, <2>4, JobStepKeeps, Parts
  <2>5. CASE w \in open /\ Type(j) = "brief" /\ new.pc = "generate"
    <3>1. At(w, j, "brief", "generate")'
      BY <1>2, <2>1, <2>5 DEF At, Type
    <3>2. BuildingIsBuilt'
      BY <3>1 DEF BuildingIsBuilt, Built
    <3>3. WorkHasRead'
      BY <1>0, <1>2, <2>1 DEF WorkHasRead, OnlyWork
    <3>4. QED
      BY <1>2, <2>1, <2>3, <3>2, <3>3, Parts
  <2>6. QED
    BY <1>2, <2>4, <2>5
<1>3. CASE SynthesisRead(w, j)
  <2>1. /\ Type(j) = "synthesis" /\ work[w][j].pc = "read"
        /\ UNCHANGED <<source, digests, synthesis, brief, cited, asks, timers, open,
                       lost, used>>
    BY <1>3 DEF SynthesisRead, At
  <2>2. RestTyped' /\ ~At(w, j, "brief", "generate")
    BY <1>0, <2>1 DEF RestTyped, At
  <2>3. CASE Fail(w, j)
    BY <2>1, <2>2, <2>3, RunEnds
  <2>4. CASE /\ work' = [work EXCEPT ![w][j].pc = "generate", ![w][j].mat = source]
             /\ UNCHANGED jobs
    <3> DEFINE new == [work[w][j] EXCEPT !.pc = "generate", !.mat = source]
    <3>1. /\ new \in Work /\ new.mat \in Snapshots /\ new.pc = "generate"
      BY <1>0, Elements DEF Work, RestTyped
    <3>2. work' = [work EXCEPT ![w][j] = new]
      BY <1>0, <2>4 DEF WorkTyped
    <3> HIDE DEF new
    <3>3. QED
      BY <1>2, <2>1, <2>2, <2>4, <3>1, <3>2
  <2>5. QED
    BY <1>3, <2>3, <2>4 DEF SynthesisRead
<1>4. CASE SynthesisStore(w, j)
  <2>1. /\ Type(j) = "synthesis" /\ work[w][j].pc = "generate" /\ synthesis' = mat
        /\ Complete(w, j)
        /\ UNCHANGED <<source, digests, brief, cited, asks, timers, open, lost, used>>
    BY <1>4 DEF SynthesisStore, At
  <2>2. RestTyped' /\ ~At(w, j, "brief", "generate")
    BY <1>0, <2>1, Elements DEF RestTyped, At
  <2>3. QED
    BY <2>1, <2>2, RunEnds
<1>5. CASE BriefCards(w, j)
  <2> DEFINE was == work[w][j].was
  <2>1. /\ w \in open /\ Type(j) = "brief" /\ work[w][j].pc = "read"
        /\ ~At(w, j, "brief", "generate")
        /\ UNCHANGED <<source, digests, synthesis, cited, asks, timers, open, lost, used>>
    BY <1>5 DEF BriefCards, At
  <2>2. was \in Brief /\ was.of \in Snapshots \cup {NoSnapshot} /\ source \in Snapshots
    BY <1>0, Elements, Shapes DEF RestTyped
  <2>3. CASE /\ brief' = [status |-> "Building", fp |-> source, of |-> was.of]
             /\ work' = [work EXCEPT ![w][j].pc = "generate", ![w][j].mat = source]
             /\ UNCHANGED jobs
    <3> DEFINE new == [work[w][j] EXCEPT !.pc = "generate", !.mat = source]
    <3>1. new \in Work /\ new.mat \in Snapshots /\ new.pc = "generate"
      BY <1>0, <2>2, Elements DEF Work
    <3>2. work' = [work EXCEPT ![w][j] = new]
      BY <1>0, <2>3 DEF WorkTyped
    <3>3. brief' \in Brief
      BY <2>2, <2>3 DEF Brief
    <3>4. RestTyped'
      BY <1>0, <2>1, <3>3 DEF RestTyped
    <3> HIDE DEF new
    <3>5. QED
      BY <1>2, <2>1, <2>3, <3>1, <3>2, <3>4
  <2>4. CASE /\ brief' \in {[status |-> "Failed", fp |-> source, of |-> was.of], brief}
             /\ Fail(w, j)
    <3>1. brief' \in Brief /\ (brief'.status = "Building" => brief.status = "Building")
      BY <1>0, <2>2, <2>4 DEF Brief, RestTyped
    <3>2. RestTyped'
      BY <1>0, <2>1, <3>1 DEF RestTyped
    <3>3. QED
      BY <2>1, <2>4, <3>1, <3>2, RunEnds
  <2>5. QED
    BY <1>5, <2>3, <2>4 DEF BriefCards
<1>6. CASE BriefStore(w, j)
  <2> DEFINE was == work[w][j].was
  <2>1. /\ At(w, j, "brief", "generate") /\ work[w][j].pc = "generate"
        /\ UNCHANGED <<source, digests, synthesis, cited, asks, timers, open, lost>>
    BY <1>6 DEF BriefStore, At
  <2>2. mat \in Snapshots /\ was.of \in Snapshots \cup {NoSnapshot}
    BY <1>0, <2>1, Elements, Shapes DEF WorkHasRead
  <2>3. CASE /\ brief' = [status |-> "Current", fp |-> mat, of |-> mat]
             /\ work' = [work EXCEPT ![w][j].pc = "cite"]
             /\ UNCHANGED <<jobs, used>>
    <3> DEFINE new == [work[w][j] EXCEPT !.pc = "cite"]
    <3>1. new \in Work /\ new.mat = mat /\ new.pc = "cite"
      BY <1>0, Elements DEF Work
    <3>2. work' = [work EXCEPT ![w][j] = new]
      BY <1>0, <2>3 DEF WorkTyped
    <3> HIDE DEF new
    <3>3. WorkTyped' /\ OnlyWork(w, j) /\ work'[w][j] = new /\ JobsTyped'
      BY <1>0, <2>3, <3>1, <3>2 DEF WorkTyped, OnlyWork, JobsTyped
    <3>4. brief' \in Brief /\ brief'.status = "Current"
      BY <2>2, <2>3 DEF Brief
    <3>5. RestTyped' /\ BuildingIsBuilt'
      BY <1>0, <2>1, <2>3, <3>4 DEF RestTyped, BuildingIsBuilt
    <3>6. WorkHasRead'
      BY <1>0, <2>2, <3>1, <3>3 DEF WorkHasRead, OnlyWork
    <3>7. Executed(j)'
      BY <3>1, <3>3 DEF Executed, Busy
    <3>8. JobsOK'
      BY <1>0, <2>1, <2>3, <3>3, <3>7, ExecutionKept
         DEF JobsOK, OneActivePerKey, RunningIsExecuted, Active
    <3>9. QED
      BY <3>3, <3>5, <3>6, <3>8, Parts
  <2>4. CASE Fault /\ BriefFails(w, j)
    <3>1. brief' = [status |-> "Failed", fp |-> mat, of |-> was.of] /\ Fail(w, j)
      BY <2>4 DEF BriefFails
    <3>2. brief' \in Brief /\ brief'.status # "Building"
      BY <2>2, <3>1 DEF Brief
    <3>3. RestTyped' /\ used'.closes = used.closes
      BY <1>0, <2>1, <2>4, <3>2, FaultFacts DEF RestTyped
    <3>4. QED
      BY <2>1, <3>1, <3>2, <3>3, RunEnds
  <2>5. QED
    BY <1>6, <2>3, <2>4 DEF BriefStore
<1>7. CASE BriefCite(w, j)
  <2>1. /\ work[w][j].pc = "cite" /\ cited' = mat /\ Complete(w, j)
        /\ UNCHANGED <<source, digests, synthesis, brief, asks, timers, open, lost, used>>
    BY <1>7 DEF BriefCite, At
  <2>2. RestTyped' /\ ~At(w, j, "brief", "generate")
    BY <1>0, <2>1, Elements DEF RestTyped, At
  <2>3. QED
    BY <2>1, <2>2, RunEnds
<1>8. QED
  BY <1>1, <1>3, <1>4, <1>5, <1>6, <1>7 DEF Run

-----------------------------------------------------------------------------
(* What the user and the page of the project do leaves the jobs under way.   *)
LEMMA PageKeeps ==
  ASSUME IInv, UNCHANGED <<work, open, lost>>, RestTyped', JobsTyped' /\ JobsOK',
         used'.closes = used.closes,
         brief'.status = "Building" => brief.status = "Building"
  PROVE  IInv'
<1>1. WorkTyped' /\ WorkHasRead'
  BY Parts DEF WorkTyped, WorkHasRead
<1>2. BuildingIsBuilt'
  BY DEF IInv, BuildingIsBuilt, Built, At, Type
<1>3. QED
  BY <1>1, <1>2, Parts

LEMMA SameJobs ==
  ASSUME IInv, UNCHANGED <<jobs, work, lost>>
  PROVE  JobsTyped' /\ JobsOK'
BY Parts DEF JobsTyped, JobsOK, OneActivePerKey, RunningIsExecuted, Active, Executed, Busy

LEMMA AskingKeeps ==
  ASSUME IInv, NEW w \in Windows,
         Edit(w) \/ Mark(w) \/ Look(w) \/ AutoRefresh(w) \/ Request(w)
  PROVE  IInv'
<1>0. TypeOK /\ JobsOK /\ JobsTyped /\ RestTyped
  BY Parts DEF IInv
<1>1. ASSUME NEW ask \in Ask, asks' = [asks EXCEPT ![w] = ask],
             timers' \subseteq timers,
             UNCHANGED <<source, digests, synthesis, brief, cited, work, open, lost, used>>,
             JobsTyped' /\ JobsOK'
      PROVE  IInv'
  <2>1. RestTyped'
    BY <1>0, <1>1 DEF RestTyped
  <2>2. QED
    BY <1>1, <2>1, PageKeeps
<1>2. CASE Edit(w)
  <2>1. /\ UNCHANGED <<digests, synthesis, brief, cited, jobs, work, asks, open, lost>>
        /\ timers' = timers \cup {w} /\ w \in open
        /\ used.edits < MaxEdits /\ used' = [used EXCEPT !.edits = @ + 1]
    BY <1>2 DEF Edit
  <2>2. source' \in Snapshots
    BY <1>0, <1>2 DEF Edit, Snapshots, RestTyped
  <2>3. /\ used' \in [edits : 0..MaxEdits, closes : 0..MaxCloses, faults : 0..MaxFaults]
        /\ used'.closes = used.closes
    BY <1>0, <2>1, KnowledgeAssumption DEF RestTyped
  <2>4. RestTyped'
    BY <1>0, <2>1, <2>2, <2>3 DEF RestTyped
  <2>5. QED
    BY <2>1, <2>3, <2>4, SameJobs, PageKeeps
<1>3. CASE Mark(w)
  <2>1. /\ [pc |-> "mark", fp |-> source, was |-> brief] \in Ask
        /\ [NoAsk EXCEPT !.pc = "ask"] \in Ask
    BY <1>0, Shapes DEF Ask, RestTyped
  <2>2. QED
    BY <1>1, <1>3, <2>1, SameJobs DEF Mark
<1>4. CASE Look(w)
  <2>1. [pc |-> "look", fp |-> source, was |-> brief] \in Ask
    BY <1>0 DEF Ask, RestTyped
  <2>2. QED
    BY <1>1, <1>4, <2>1, SameJobs DEF Look
<1>5. CASE AutoRefresh(w)
  <2> DEFINE ask == [asks[w] EXCEPT !.pc = "ask"]
  <2>1. ask \in Ask
    BY <1>0 DEF Ask, RestTyped
  <2>2. asks' = [asks EXCEPT ![w] = ask]
    BY <1>0, <1>5 DEF AutoRefresh, RestTyped
  <2> HIDE DEF ask
  <2>3. QED
    BY <1>1, <1>5, <2>1, <2>2, SameJobs DEF AutoRefresh
<1>6. CASE Request(w)
  <2>1. JobsTyped' /\ JobsOK'
    <3>1. CASE UNCHANGED jobs
      BY <1>6, <3>1, SameJobs DEF Request
    <3>2. CASE Enqueue(AskedKeys)
      <4>1. \A i \in JobIds : Executed(i) => Executed(i)'
        BY <1>6 DEF Request, Executed, Busy
      <4>2. QED
        BY <1>0, <1>6, <3>2, <4>1, EnqueueKeeps DEF Request
    <3>3. QED
      BY <1>6, <3>1, <3>2 DEF Request
  <2>2. QED
    BY <1>1, <1>6, <2>1, Shapes DEF Request
<1>7. QED
  BY <1>2, <1>3, <1>4, <1>5, <1>6

LEMMA WriteBackKeeps ==
  ASSUME IInv, NEW w \in Windows, WriteBack(w)
  PROVE  IInv'
<1>0. RestTyped /\ asks[w] \in Ask
  BY Parts DEF RestTyped
<1>1. asks[w].was \in Brief /\ asks[w].fp \in Snapshots \cup {NoSnapshot}
  BY <1>0 DEF Ask
<1>2. brief' \in Brief /\ (brief'.status = "Building" => brief.status = "Building")
  BY <1>0, <1>1 DEF WriteBack, Marked, Brief, RestTyped
<1>3. asks' \in [Windows -> Ask]
  <2>1. NoAsk \in Ask /\ [NoAsk EXCEPT !.pc = "ask"] \in Ask
    BY Shapes DEF Ask
  <2>2. QED
    BY <1>0, <2>1 DEF WriteBack, RestTyped
<1>4. /\ RestTyped'
      /\ UNCHANGED <<jobs, work, open, lost, used>>
  BY <1>0, <1>2, <1>3 DEF WriteBack, RestTyped
<1>5. QED
  BY <1>2, <1>4, SameJobs, PageKeeps

(* What a closing window was executing is lost until it is reclaimed.        *)
LEMMA CloseKeeps ==
  ASSUME IInv, NEW w \in Windows, Close(w)
  PROVE  IInv'
<1>0. JobsOK /\ JobsTyped /\ WorkTyped /\ RestTyped /\ WorkHasRead
  BY Parts
<1>1. /\ open' = open \ {w} /\ timers' = timers \ {w}
      /\ lost' = lost \cup {j \in JobIds : Busy(w, j) /\ \A v \in Windows \ {w} : ~Busy(v, j)}
      /\ work' = [work EXCEPT ![w] = [j \in JobIds |-> NoWork]]
      /\ asks' = [asks EXCEPT ![w] = NoAsk]
      /\ UNCHANGED <<source, digests, synthesis, brief, cited, jobs>>
  BY DEF Close, Stops
<1>2. /\ used' \in [edits : 0..MaxEdits, closes : 0..MaxCloses, faults : 0..MaxFaults]
      /\ used'.closes > 0
  BY <1>0, KnowledgeAssumption DEF Close, RestTyped
<1>3. RestTyped' /\ BuildingIsBuilt'
  BY <1>0, <1>1, <1>2, Shapes DEF RestTyped, BuildingIsBuilt
<1>4. [j \in JobIds |-> NoWork] \in [JobIds -> Work]
  BY Shapes
<1>5. /\ WorkTyped' /\ \A j \in JobIds : work'[w][j] = NoWork
      /\ \A v \in Windows \ {w} : work'[v] = work[v]
  BY <1>0, <1>1, <1>4 DEF WorkTyped
<1>6. WorkHasRead'
  BY <1>0, <1>5, Shapes DEF WorkHasRead
<1>7. RunningIsExecuted'
  <2>1. SUFFICES ASSUME NEW j \in JobIds, jobs[j].status = "Running", j \notin lost'
                 PROVE  Executed(j)'
    BY <1>1 DEF RunningIsExecuted
  <2>2. PICK v \in Windows : Busy(v, j)
    BY <1>0, <1>1, <2>1 DEF JobsOK, RunningIsExecuted, Executed
  <2>3. \E u \in Windows \ {w} : Busy(u, j)
    BY <1>1, <2>1, <2>2
  <2>4. QED
    BY <1>5, <2>3 DEF Executed, Busy
<1>8. OneActivePerKey' /\ JobsTyped'
  BY <1>0, <1>1 DEF JobsOK, OneActivePerKey, Active, JobsTyped
<1>9. QED
  BY <1>3, <1>5, <1>6, <1>7, <1>8, Parts DEF JobsOK

(* Reclaiming leaves no job Running, and makes none active that was not.     *)
LEMMA MountKeeps ==
  ASSUME IInv, NEW w \in Windows, Mount(w)
  PROVE  IInv'
<1>0. TypeOK /\ JobsOK /\ JobsTyped /\ WorkTyped /\ RestTyped /\ WorkHasRead
  BY Parts DEF IInv
<1>1. PICK stale \in SUBSET {j \in JobIds : jobs[j].status = "Running"} :
        /\ jobs' = [j \in JobIds |-> IF j \in stale THEN Reclaimed(j) ELSE jobs[j]]
        /\ lost' = lost \ stale
  BY DEF Mount
<1>2. /\ open' = open \cup {w}
      /\ UNCHANGED <<source, digests, synthesis, brief, cited, work, asks, timers, used>>
  BY DEF Mount
<1>3. \A j \in JobIds : Reclaimed(j) \in Row /\ Reclaimed(j).status # "Running"
  <2>1. SUFFICES ASSUME NEW j \in JobIds
                 PROVE  Reclaimed(j) \in Row /\ Reclaimed(j).status # "Running"
    OBVIOUS
  <2>2. jobs[j] \in Row
    BY <1>0 DEF JobsTyped
  <2>3. QED
    BY <2>2, Shapes DEF Reclaimed, Row
<1>4. JobsTyped' /\ RestTyped' /\ WorkTyped' /\ WorkHasRead'
  BY <1>0, <1>1, <1>2, <1>3 DEF JobsTyped, RestTyped, WorkTyped, WorkHasRead
<1>5. \A j \in JobIds : Active(j)' => Active(j)
  BY <1>1 DEF Active
<1>6. OneActivePerKey'
  BY <1>0, <1>5 DEF JobsOK, OneActivePerKey
<1>7. RunningIsExecuted'
  BY <1>0, <1>1, <1>2, <1>3 DEF JobsOK, RunningIsExecuted, Executed, Busy
<1>8. BuildingIsBuilt'
  BY <1>2 DEF IInv, BuildingIsBuilt, Built, At, Type
<1>9. QED
  BY <1>4, <1>6, <1>7, <1>8, Parts DEF JobsOK

LEMMA InitIInv == Init => IInv
<1> SUFFICES ASSUME Init PROVE IInv
  OBVIOUS
<1>1. RestTyped
  BY Shapes, KnowledgeAssumption DEF Init, RestTyped, Snapshots
<1>2. JobsTyped /\ WorkTyped
  BY Shapes DEF Init, JobsTyped, WorkTyped
<1>3. JobsOK /\ WorkHasRead
  BY Shapes DEF Init, JobsOK, OneActivePerKey, RunningIsExecuted, Active, WorkHasRead
<1>4. BuildingIsBuilt
  BY Shapes DEF Init, BuildingIsBuilt
<1>5. QED
  BY <1>1, <1>2, <1>3, <1>4, Parts

(* IInv is inductive.                                                        *)
THEOREM KnowledgeInvariance == Spec => []IInv
<1>1. ASSUME IInv, [Next]_vars PROVE IInv'
  <2>1. CASE \E w \in Windows, j \in JobIds : Claim(w, j) \/ Run(w, j)
    BY <1>1, <2>1, ClaimKeeps, RunKeeps
  <2>2. CASE \E w \in Windows : \/ Edit(w) \/ Mark(w) \/ Look(w) \/ WriteBack(w)
                                \/ AutoRefresh(w) \/ Request(w)
                                \/ Close(w) \/ Mount(w)
    BY <1>1, <2>2, AskingKeeps, WriteBackKeeps, CloseKeeps, MountKeeps
  <2>3. CASE UNCHANGED vars
    <3>1. UNCHANGED <<jobs, work, lost, open, brief, used>> /\ RestTyped'
      BY <1>1, <2>3, Parts DEF vars, RestTyped
    <3>2. QED
      BY <1>1, <3>1, SameJobs, PageKeeps
  <2>4. QED
    BY <1>1, <2>1, <2>2, <2>3 DEF Next
<1>2. QED
  BY InitIInv, <1>1, PTL DEF Spec

(* Every variable keeps its type, and a closed window has no timer.          *)
THEOREM KnowledgeTyping == Spec => []TypeOK
<1>1. IInv => TypeOK
  BY DEF IInv
<1>2. QED
  BY KnowledgeInvariance, <1>1, PTL

(* Two jobs of one key are never queued or running at once, though a runner  *)
(* whose job was reclaimed still writes its row by its id.                   *)
THEOREM KnowledgeOnePerKey == Spec => []OneActivePerKey
<1>1. IInv => OneActivePerKey
  BY DEF IInv
<1>2. QED
  BY KnowledgeInvariance, <1>1, PTL

(* No job is left Running, and so in the way of the others with its key, but *)
(* those of a window that was closed.                                        *)
THEOREM KnowledgeRunningIsExecuted == Spec => []RunningIsExecuted
<1>1. IInv => RunningIsExecuted
  BY DEF IInv
<1>2. QED
  BY KnowledgeInvariance, <1>1, PTL

(* A brief that says Building is being written by some window, as long as no *)
(* window has been closed.                                                   *)
THEOREM KnowledgeBuildingIsBuilt == Spec => []BuildingIsBuilt
<1>1. IInv => BuildingIsBuilt
  BY DEF IInv
<1>2. QED
  BY KnowledgeInvariance, <1>1, PTL
-----------------------------------------------------------------------------
(* Attempts.  The two counts are kept job by job: Counted(j) is what         *)
(* AttemptsCounted says of j.                                                *)
Counted(j) ==
  /\ Cardinality(Executors(j)) <= Reopened + One(jobs[j].status = "Running")
  /\ jobs[j].attempts >= MaxAttempts =>
       jobs[j].attempts + Cardinality(Retriers(j)) + One(jobs[j].status = "Queued")
         <= MaxAttempts + Reopened

LEMMA CountedParts ==
  /\ AttemptsCounted <=> Reopened \in Nat /\ \A j \in JobIds : Counted(j)
  /\ AttemptsCounted' <=> Reopened' \in Nat /\ \A j \in JobIds : Counted(j)'
BY DEF AttemptsCounted, ExecutorsAreKnown, RetriesAreKnown, Counted

(* Windows are finite, and so is whatever is counted.                        *)
LEMMA Counts ==
  ASSUME NEW j \in JobIds, open \subseteq Windows, used.closes \in Nat
  PROVE  /\ IsFiniteSet(Executors(j)) /\ Cardinality(Executors(j)) \in Nat
         /\ IsFiniteSet(Retriers(j)) /\ Cardinality(Retriers(j)) \in Nat
         /\ Cardinality(Retriers(j)) <= Cardinality(Executors(j))
         /\ Cardinality(Windows \ open) \in Nat /\ Reopened \in Int
         /\ MaxAttempts \in Nat \ {0}
<1>1. IsFiniteSet(Executors(j)) /\ Cardinality(Executors(j)) \in Nat
  BY KnowledgeAssumption, FS_Subset, FS_CardinalityType DEF Executors
<1>2. IsFiniteSet(Retriers(j)) /\ Cardinality(Retriers(j)) \in Nat
      /\ Cardinality(Retriers(j)) <= Cardinality(Executors(j))
  BY <1>1, FS_Subset, FS_CardinalityType DEF Retriers
<1>3. Cardinality(Windows \ open) \in Nat
  BY KnowledgeAssumption, FS_Subset, FS_CardinalityType
<1>4. Reopened \in Int
  BY <1>3, KnowledgeAssumption DEF Reopened
<1>5. QED
  BY <1>1, <1>2, <1>3, <1>4, KnowledgeAssumption

LEMMA TypedCounts ==
  ASSUME TypeOK
  PROVE  open \subseteq Windows /\ used.closes \in Nat
BY KnowledgeAssumption DEF TypeOK

LEMMA OneFewer ==
  ASSUME NEW S, NEW x, IsFiniteSet(S)
  PROVE  /\ Cardinality(S \ {x}) \in Nat /\ Cardinality(S \ {x}) <= Cardinality(S)
         /\ Cardinality(S \ {x}) = Cardinality(S) - One(x \in S)
<1>1. Cardinality(S) \in Nat /\ Cardinality(S \ {x}) \in Nat
  BY FS_RemoveElement, FS_CardinalityType
<1>2. Cardinality(S \ {x}) = IF x \in S THEN Cardinality(S) - 1 ELSE Cardinality(S)
  BY FS_RemoveElement
<1>3. QED
  BY <1>1, <1>2 DEF One

(* Who executes a job, and who of them would queue it again, while nothing   *)
(* of its work but the place in the code changes.                            *)
LEMMA SameExecutors ==
  ASSUME NEW j \in JobIds,
         \A w \in Windows : /\ Busy(w, j)' <=> Busy(w, j)
                            /\ work'[w][j].attempts = work[w][j].attempts
  PROVE  Executors(j)' = Executors(j) /\ Retriers(j)' = Retriers(j)
BY DEF Executors, Retriers

LEMMA OtherExecutors ==
  ASSUME NEW w \in Windows, NEW j \in JobIds, OnlyWork(w, j), NEW i \in JobIds \ {j}
  PROVE  Executors(i)' = Executors(i) /\ Retriers(i)' = Retriers(i)
BY DEF OnlyWork, Executors, Retriers, Busy

(* A row and its executors are as they were.                                 *)
LEMMA CountedFrame ==
  ASSUME NEW j \in JobIds, Counted(j), jobs'[j] = jobs[j], Reopened' = Reopened,
         Executors(j)' = Executors(j), Retriers(j)' = Retriers(j)
  PROVE  Counted(j)'
BY DEF Counted

LEMMA SameReopened ==
  ASSUME UNCHANGED open, used'.closes = used.closes
  PROVE  Reopened' = Reopened
BY DEF Reopened

(* A claim: one more executor for one more attempt, of a job that was queued.*)
LEMMA StartCounts ==
  ASSUME TypeOK, AttemptsCounted, NEW w \in Windows, NEW j \in JobIds,
         Takes(w, j), ~Busy(w, j), NEW pc \in {"read", "generate"},
         NEW mat \in Snapshots \cup {NoSnapshot}, NEW was \in Brief,
         Start(w, j, pc, mat, was), Reopened' = Reopened
  PROVE  AttemptsCounted'
<1> DEFINE new == [pc |-> pc, attempts |-> jobs[j].attempts + 1, mat |-> mat, was |-> was]
<1>1. /\ new.pc # "no" /\ new.attempts = jobs[j].attempts + 1
      /\ work' = [work EXCEPT ![w][j] = new]
      /\ jobs' = [jobs EXCEPT ![j] = Claimed(j)]
      /\ jobs[j].status = "Queued" /\ jobs[j].attempts \in Nat
  BY Elements DEF Start, Takes
<1> HIDE DEF new
<1>2. /\ work'[w][j] = new /\ OnlyWork(w, j)
      /\ \A i \in JobIds \ {j} : jobs'[i] = jobs[i]
      /\ jobs'[j].status = "Running" /\ jobs'[j].attempts = jobs[j].attempts + 1
  BY <1>1 DEF TypeOK, OnlyWork, Claimed
<1>3. Counted(j)'
  <2>1. Executors(j)' = Executors(j) \cup {w} /\ w \notin Executors(j)
    BY <1>1, <1>2 DEF OnlyWork, Executors, Busy
  <2>2. /\ Retriers(j)' = IF jobs[j].attempts + 1 < MaxAttempts
                          THEN Retriers(j) \cup {w} ELSE Retriers(j)
        /\ w \notin Retriers(j)
    BY <1>1, <1>2, <2>1 DEF OnlyWork, Retriers, Executors, Busy
  <2>3. Cardinality(Executors(j)') = Cardinality(Executors(j)) + 1
    BY <2>1, Counts, TypedCounts, FS_AddElement
  <2>4. Counted(j)
    BY CountedParts
  <2>5. QED
    BY <1>1, <1>2, <2>2, <2>3, <2>4, Counts, TypedCounts DEF Counted, One
<1>4. ASSUME NEW i \in JobIds \ {j} PROVE Counted(i)'
  BY <1>2, CountedParts, OtherExecutors, CountedFrame
<1>5. QED
  BY <1>3, <1>4, CountedParts

(* A claim that begins nothing: by the window that executes the job already, *)
(* or of a job that ends at once.                                            *)
LEMMA RowCounts ==
  ASSUME TypeOK, AttemptsCounted, NEW j \in JobIds, jobs[j].status = "Queued",
         NEW row \in Row, jobs' = [jobs EXCEPT ![j] = row],
         \/ row.attempts = 0
         \/ /\ row.attempts = jobs[j].attempts + 1
            /\ row.status = "Queued" => row.attempts < MaxAttempts,
         Reopened' = Reopened, UNCHANGED work
  PROVE  AttemptsCounted'
<1>1. \A i \in JobIds : Executors(i)' = Executors(i) /\ Retriers(i)' = Retriers(i)
  BY SameExecutors DEF Busy
<1>2. \A i \in JobIds \ {j} : jobs'[i] = jobs[i]
  BY DEF TypeOK
<1>3. Counted(j)'
  <2>1. jobs'[j] = row /\ row.attempts \in Nat /\ jobs[j].attempts \in Nat
    BY Elements DEF TypeOK, Row
  <2>2. Counted(j)
    BY CountedParts
  <2>3. QED
    BY <1>1, <2>1, <2>2, Counts, TypedCounts DEF Counted, One
<1>4. QED
  BY <1>1, <1>2, <1>3, CountedParts, CountedFrame

LEMMA AtOnceCounts ==
  ASSUME TypeOK, AttemptsCounted, NEW w \in Windows, NEW j \in JobIds, Takes(w, j),
         CompleteAtOnce(j) \/ FailAtOnce(j), Reopened' = Reopened, UNCHANGED work
  PROVE  AttemptsCounted'
<1>1. jobs[j].status = "Queued"
  BY DEF Takes
<1>2. PICK row \in Row :
        /\ jobs' = [jobs EXCEPT ![j] = row]
        /\ \/ row.attempts = 0
           \/ /\ row.attempts = jobs[j].attempts + 1
              /\ row.status = "Queued" => row.attempts < MaxAttempts
  <2>1. /\ [Claimed(j) EXCEPT !.status = "Finished"] \in Row
        /\ [Claimed(j) EXCEPT !.status = "Finished"].status = "Finished"
        /\ [Claimed(j) EXCEPT !.status = "Finished"].attempts = jobs[j].attempts + 1
        /\ [Claimed(j) EXCEPT !.status = "Queued"] \in Row
        /\ [Claimed(j) EXCEPT !.status = "Queued"].attempts = jobs[j].attempts + 1
        /\ NoRow.attempts = 0
    BY Elements DEF Claimed, Row, NoRow
  <2>2. QED
    BY <2>1, Shapes DEF CompleteAtOnce, FailAtOnce
<1>3. QED
  BY <1>1, <1>2, RowCounts

(* A queued row is a new one, which nobody executes.                         *)
LEMMA EnqueueCounts ==
  ASSUME TypeOK, AttemptsCounted, NEW ks, Enqueue(ks), CanEnqueue(ks),
         Reopened' = Reopened, UNCHANGED work
  PROVE  AttemptsCounted'
<1>1. \A i \in JobIds : Executors(i)' = Executors(i) /\ Retriers(i)' = Retriers(i)
  BY SameExecutors DEF Busy
<1>2. SUFFICES ASSUME NEW j \in JobIds PROVE Counted(j)'
  BY CountedParts
<1>3. CASE jobs'[j] = jobs[j]
  BY <1>1, <1>3, CountedParts, CountedFrame
<1>4. CASE jobs'[j] # jobs[j]
  <2>1. /\ jobs'[j] = [status |-> "Queued", attempts |-> 0]
        /\ j[1] \in ks /\ ~ActiveKey(j[1]) /\ j = RowFor(j[1])
    BY <1>4 DEF Enqueue
  <2>2. Free(j)
    BY <2>1 DEF CanEnqueue, RowFor
  <2>3. Executors(j) = {} /\ jobs[j].status # "Running"
    BY <2>2 DEF Free, Executors, Executed, Active
  <2>4. Reopened \in Nat
    BY CountedParts
  <2>5. QED
    BY <1>1, <2>1, <2>3, <2>4, FS_EmptySet, Counts, TypedCounts DEF Counted, One
<1>5. QED
  BY <1>3, <1>4

(* The end of a job takes its executor away, one that queues it again if and *)
(* only if it was claimed below the limit.                                   *)
LEMMA EndCounts ==
  ASSUME TypeOK, AttemptsCounted, NEW w \in Windows, NEW j \in JobIds, Busy(w, j),
         Complete(w, j) \/ Fail(w, j), Reopened' = Reopened
  PROVE  AttemptsCounted'
<1>1. PICK status \in {"Queued", "Finished"} :
        /\ EndAs(w, j, status, jobs[j].attempts)
        /\ status = "Queued" => work[w][j].attempts < MaxAttempts
  BY DEF Complete, Fail
<1> DEFINE end == [status |-> status, attempts |-> jobs[j].attempts]
<1>2. /\ work' = [work EXCEPT ![w][j] = NoWork]
      /\ jobs' = [jobs EXCEPT ![j] =
           IF Rejected(j, status) THEN @
           ELSE IF status = "Finished" /\ ~(\E v \in Windows \ {w} : Busy(v, j)) THEN NoRow
           ELSE end]
  BY <1>1 DEF EndAs
<1>3. /\ \A i \in JobIds \ {j} : jobs'[i] = jobs[i]
      /\ jobs'[j] \in {jobs[j], NoRow, end}
      /\ OnlyWork(w, j) /\ work'[w][j] = NoWork
  BY <1>2 DEF TypeOK, OnlyWork
<1>4. Counted(j)'
  <2>1. /\ Executors(j)' = Executors(j) \ {w} /\ w \in Executors(j)
        /\ Retriers(j)' = Retriers(j) \ {w}
        /\ w \in Retriers(j) <=> work[w][j].attempts < MaxAttempts
    BY <1>3, Shapes DEF OnlyWork, Executors, Retriers, Busy
  <2>2. /\ Cardinality(Executors(j)') = Cardinality(Executors(j)) - 1
        /\ Cardinality(Retriers(j)') = Cardinality(Retriers(j))
                                         - One(work[w][j].attempts < MaxAttempts)
    <3>1. IsFiniteSet(Executors(j)) /\ IsFiniteSet(Retriers(j))
      BY Counts, TypedCounts
    <3>2. Cardinality(Executors(j) \ {w}) = Cardinality(Executors(j)) - One(TRUE)
      BY <2>1, <3>1, OneFewer
    <3>3. Cardinality(Retriers(j) \ {w})
            = Cardinality(Retriers(j)) - One(work[w][j].attempts < MaxAttempts)
      BY <2>1, <3>1, OneFewer DEF One
    <3>4. QED
      BY <2>1, <3>2, <3>3 DEF One
  <2>3. Counted(j) /\ jobs[j].attempts \in Nat
    BY CountedParts, Elements
  <2>4. CASE jobs'[j] = jobs[j]
    BY <2>2, <2>3, <2>4, Counts, TypedCounts DEF Counted, One
  <2>5. CASE jobs'[j] = NoRow
    BY <2>2, <2>3, <2>5, Counts, TypedCounts DEF Counted, One, NoRow
  <2>6. CASE jobs'[j] = end
    BY <1>1, <2>2, <2>3, <2>6, Counts, TypedCounts DEF Counted, One
  <2>7. QED
    BY <1>3, <2>4, <2>5, <2>6
<1>5. ASSUME NEW i \in JobIds \ {j} PROVE Counted(i)'
  BY <1>3, CountedParts, OtherExecutors, CountedFrame
<1>6. QED
  BY <1>4, <1>5, CountedParts

(* A job that goes on. *)
LEMMA GoesOnCounts ==
  ASSUME TypeOK, AttemptsCounted, NEW w \in Windows, NEW j \in JobIds, Busy(w, j),
         NEW new, new.pc # "no", new.attempts = work[w][j].attempts,
         work' = [work EXCEPT ![w][j] = new], UNCHANGED jobs, Reopened' = Reopened
  PROVE  AttemptsCounted'
<1>1. work'[w][j] = new /\ OnlyWork(w, j)
  BY DEF TypeOK, OnlyWork
<1>2. \A i \in JobIds : Executors(i)' = Executors(i) /\ Retriers(i)' = Retriers(i)
  BY <1>1, SameExecutors DEF OnlyWork, Busy
<1>3. QED
  BY <1>2, CountedParts, CountedFrame

LEMMA ClaimCounts ==
  ASSUME TypeOK, AttemptsCounted, NEW w \in Windows, NEW j \in JobIds, Claim(w, j)
  PROVE  AttemptsCounted'
<1>1. Takes(w, j) /\ jobs[j].status = "Queued" /\ Reopened' = Reopened
  BY SameReopened DEF Claim, ClaimAgain, ClaimDigest, ClaimSynthesis, ClaimBrief, Takes
<1>2. CASE ClaimAgain(w, j)
  <2>1. /\ Claimed(j) \in Row /\ Claimed(j).attempts = jobs[j].attempts + 1
        /\ Claimed(j).status # "Queued"
        /\ jobs' = [jobs EXCEPT ![j] = Claimed(j)] /\ work' = work
    BY <1>2, Elements DEF ClaimAgain, Claimed, Row
  <2>2. QED
    BY <1>1, <2>1, RowCounts
<1>3. CASE ClaimDigest(w, j)
  <2>1. CASE (CompleteAtOnce(j) \/ FailAtOnce(j)) /\ work' = work
    BY <1>1, <2>1, AtOnceCounts
  <2>2. CASE Start(w, j, "generate", source, NoBrief) /\ ~Busy(w, j)
    BY <1>1, <2>2, StartCounts, Shapes DEF TypeOK
  <2>3. QED
    BY <1>3, <2>1, <2>2 DEF ClaimDigest
<1>4. CASE ClaimSynthesis(w, j) \/ ClaimBrief(w, j)
  <2>1. CASE Release /\ work' = work
    BY <1>1, <2>1, EnqueueCounts DEF Release
  <2>2. CASE ~Busy(w, j) /\ \E was \in Brief : Start(w, j, "read", NoSnapshot, was)
    BY <1>1, <2>2, StartCounts
  <2>3. QED
    BY <1>4, <2>1, <2>2, Shapes DEF ClaimSynthesis, ClaimBrief, TypeOK
<1>5. QED
  BY <1>2, <1>3, <1>4 DEF Claim

LEMMA RunCounts ==
  ASSUME TypeOK, AttemptsCounted, NEW w \in Windows, NEW j \in JobIds, Run(w, j)
  PROVE  AttemptsCounted'
<1>1. Busy(w, j) /\ Reopened' = Reopened
  <2>1. Busy(w, j)
    BY DEF Run, DigestStore, SynthesisRead, SynthesisStore, BriefCards, BriefStore,
           BriefCite, At, Busy
  <2>2. UNCHANGED open /\ used'.closes = used.closes
    BY DEF TypeOK, Run, DigestStore, SynthesisRead, SynthesisStore, BriefCards,
           BriefStore, BriefCite, Fault
  <2>3. QED
    BY <2>1, <2>2, SameReopened
<1>2. CASE Complete(w, j) \/ Fail(w, j)
  BY <1>1, <1>2, EndCounts
<1>3. ASSUME NEW pc \in {"generate", "cite"}, NEW mat, UNCHANGED jobs,
             \/ work' = [work EXCEPT ![w][j].pc = pc, ![w][j].mat = mat]
             \/ work' = [work EXCEPT ![w][j].pc = pc]
      PROVE  AttemptsCounted'
  <2> DEFINE one == [work[w][j] EXCEPT !.pc = pc, !.mat = mat]
             two == [work[w][j] EXCEPT !.pc = pc]
  <2>1. /\ one.pc = pc /\ one.attempts = work[w][j].attempts
        /\ two.pc = pc /\ two.attempts = work[w][j].attempts
    BY Elements DEF Work
  <2>2. work' = [work EXCEPT ![w][j] = one] \/ work' = [work EXCEPT ![w][j] = two]
    BY <1>3 DEF TypeOK
  <2> HIDE DEF one, two
  <2>3. QED
    BY <1>1, <1>3, <2>1, <2>2, GoesOnCounts
<1>4. CASE SynthesisRead(w, j) \/ BriefCards(w, j) \/ BriefStore(w, j)
  BY <1>2, <1>3, <1>4 DEF SynthesisRead, BriefCards, BriefStore, BriefFails
<1>5. CASE DigestStore(w, j) \/ SynthesisStore(w, j) \/ BriefCite(w, j)
  BY <1>2, <1>5 DEF DigestStore, SynthesisStore, BriefCite
<1>6. QED
  BY <1>4, <1>5 DEF Run

(* A window that closes takes its executions with it; one that opens reclaims*)
(* jobs from windows that may still execute them.                            *)
LEMMA CloseCounts ==
  ASSUME TypeOK, AttemptsCounted, NEW w \in Windows, Close(w)
  PROVE  AttemptsCounted'
<1>1. /\ work' = [work EXCEPT ![w] = [j \in JobIds |-> NoWork]]
      /\ w \in open /\ open' = open \ {w} /\ UNCHANGED jobs
      /\ used'.closes = used.closes + 1
  BY DEF Close, TypeOK
<1>2. Reopened' = Reopened
  <2>1. Windows \ open' = (Windows \ open) \cup {w} /\ w \notin Windows \ open
    BY <1>1
  <2>2. IsFiniteSet(Windows \ open)
    BY KnowledgeAssumption, FS_Subset
  <2>3. Cardinality(Windows \ open') = Cardinality(Windows \ open) + 1
    BY <2>1, <2>2, FS_AddElement
  <2>4. Cardinality(Windows \ open) \in Nat /\ used.closes \in Nat
    BY <2>2, TypedCounts, FS_CardinalityType
  <2>5. QED
    BY <1>1, <2>3, <2>4 DEF Reopened
<1>3. SUFFICES ASSUME NEW j \in JobIds PROVE Counted(j)'
  BY <1>2, CountedParts
<1>4. /\ work'[w][j] = NoWork
      /\ \A v \in Windows \ {w} : work'[v][j] = work[v][j]
  BY <1>1 DEF TypeOK
<1>5. Executors(j)' = Executors(j) \ {w} /\ Retriers(j)' = Retriers(j) \ {w}
  BY <1>4, Shapes DEF Executors, Retriers, Busy
<1>6. /\ Cardinality(Executors(j)') \in Nat /\ Cardinality(Retriers(j)') \in Nat
      /\ Cardinality(Executors(j)') <= Cardinality(Executors(j))
      /\ Cardinality(Retriers(j)') <= Cardinality(Retriers(j))
  BY <1>5, OneFewer, Counts, TypedCounts
<1>7. Counted(j) /\ jobs'[j] = jobs[j] /\ jobs[j].attempts \in Nat
  BY <1>1, CountedParts, Elements
<1>8. QED
  BY <1>2, <1>6, <1>7, Counts, TypedCounts DEF Counted, One

LEMMA MountCounts ==
  ASSUME TypeOK, AttemptsCounted, NEW w \in Windows, Mount(w)
  PROVE  AttemptsCounted'
<1>1. PICK stale \in SUBSET {j \in JobIds : jobs[j].status = "Running"} :
        /\ SlowJobs \/ \A j \in stale : ~Executed(j)
        /\ jobs' = [j \in JobIds |-> IF j \in stale THEN Reclaimed(j) ELSE jobs[j]]
  BY DEF Mount
<1>2. w \notin open /\ open' = open \cup {w} /\ UNCHANGED <<work, used>>
  BY DEF Mount
<1>3. Reopened' = Reopened + One(SlowJobs)
  <2>1. Windows \ open' = (Windows \ open) \ {w} /\ w \in Windows \ open
    BY <1>2
  <2>2. IsFiniteSet(Windows \ open)
    BY KnowledgeAssumption, FS_Subset
  <2>3. Cardinality(Windows \ open') = Cardinality(Windows \ open) - 1
    BY <2>1, <2>2, FS_RemoveElement
  <2>4. Cardinality(Windows \ open) \in Nat /\ used.closes \in Nat
    BY <2>2, TypedCounts, FS_CardinalityType
  <2>5. QED
    BY <1>2, <2>3, <2>4 DEF Reopened, One
<1>4. SUFFICES ASSUME NEW j \in JobIds PROVE Counted(j)'
  BY <1>3, CountedParts DEF One
<1>5. Executors(j)' = Executors(j) /\ Retriers(j)' = Retriers(j)
  BY <1>2, SameExecutors DEF Busy
<1>6. Counted(j) /\ jobs[j].attempts \in Nat
  BY CountedParts, Elements
<1>7. CASE j \notin stale
  <2>1. jobs'[j] = jobs[j]
    BY <1>1, <1>7
  <2>2. QED
    BY <1>3, <1>5, <1>6, <2>1, Counts, TypedCounts DEF Counted, One
<1>8. CASE j \in stale
  <2>1. jobs[j].status = "Running" /\ jobs'[j] = Reclaimed(j)
    BY <1>1, <1>8
  <2>2. /\ Reclaimed(j).status # "Running" /\ Reclaimed(j).attempts \in {0, jobs[j].attempts}
        /\ Reclaimed(j).status = "Queued" => jobs[j].attempts < MaxAttempts
    BY Elements DEF Reclaimed, Row, NoRow
  <2>3. SlowJobs \/ Cardinality(Executors(j)) = 0
    BY <1>1, <1>8, FS_EmptySet DEF Executed, Executors
  <2>4. ~SlowJobs => Reopened = 0
    BY DEF Reopened
  <2>5. QED
    BY <1>3, <1>5, <1>6, <2>1, <2>2, <2>3, <2>4, Counts, TypedCounts DEF Counted, One
<1>9. QED
  BY <1>7, <1>8

(* The user and the page of the project only queue. *)
LEMMA AskingCounts ==
  ASSUME TypeOK, AttemptsCounted, NEW w \in Windows,
         \/ Edit(w) \/ Mark(w) \/ Look(w) \/ WriteBack(w) \/ AutoRefresh(w) \/ Request(w)
  PROVE  AttemptsCounted'
<1>1. UNCHANGED <<work, open>> /\ used'.closes = used.closes
  BY DEF TypeOK, Edit, Mark, Look, WriteBack, AutoRefresh, Request
<1>2. Reopened' = Reopened
  BY <1>1, SameReopened
<1>3. CASE UNCHANGED jobs
  BY <1>1, <1>2, <1>3, CountedParts, CountedFrame, SameExecutors DEF Busy
<1>4. CASE Request(w) /\ CanEnqueue(AskedKeys) /\ Enqueue(AskedKeys)
  BY <1>1, <1>2, <1>4, EnqueueCounts
<1>5. QED
  BY <1>3, <1>4 DEF Edit, Mark, Look, WriteBack, AutoRefresh, Request

LEMMA InitCounted == Init => AttemptsCounted
<1> SUFFICES ASSUME Init PROVE AttemptsCounted
  OBVIOUS
<1>1. Reopened = 0
  BY FS_EmptySet DEF Init, Reopened
<1>2. ASSUME NEW j \in JobIds PROVE Counted(j)
  <2>1. Executors(j) = {} /\ Retriers(j) = {}
    BY Shapes DEF Init, Executors, Retriers, Busy
  <2>2. jobs[j] = NoRow
    BY DEF Init
  <2>3. QED
    BY <1>1, <2>1, <2>2, FS_EmptySet, KnowledgeAssumption DEF Counted, One, NoRow
<1>3. QED
  BY <1>1, <1>2, CountedParts

(* The two counts are inductive, relative to the types.                      *)
THEOREM KnowledgeCounts == Spec => []AttemptsCounted
<1>1. ASSUME TypeOK, AttemptsCounted, [Next]_vars PROVE AttemptsCounted'
  <2>1. CASE \E w \in Windows, j \in JobIds : Claim(w, j) \/ Run(w, j)
    BY <1>1, <2>1, ClaimCounts, RunCounts
  <2>2. CASE \E w \in Windows : \/ Edit(w) \/ Mark(w) \/ Look(w) \/ WriteBack(w)
                                \/ AutoRefresh(w) \/ Request(w)
                                \/ Close(w) \/ Mount(w)
    BY <1>1, <2>2, AskingCounts, CloseCounts, MountCounts
  <2>3. CASE UNCHANGED vars
    <3>1. UNCHANGED <<jobs, work, open, used>>
      BY <2>3 DEF vars
    <3>2. Reopened' = Reopened
      BY <3>1, SameReopened
    <3>3. QED
      BY <1>1, <3>1, <3>2, CountedParts, CountedFrame, SameExecutors DEF Busy
  <2>4. QED
    BY <1>1, <2>1, <2>2, <2>3 DEF Next
<1>2. QED
  BY InitCounted, KnowledgeTyping, <1>1, PTL DEF Spec

(* No job is tried more often than its attempts allow; where jobs may run    *)
(* for longer than five minutes, than these and one for every time a window  *)
(* was opened again.                                                         *)
THEOREM KnowledgeAttempts == Spec => []AttemptsBounded
<1>1. TypeOK /\ AttemptsCounted => AttemptsBounded
  <2> SUFFICES ASSUME TypeOK, AttemptsCounted, NEW j \in JobIds
               PROVE  jobs[j].attempts <= MaxAttempts + Reopened
    BY DEF AttemptsBounded
  <2>1. Counted(j) /\ jobs[j].attempts \in Nat
    BY CountedParts DEF TypeOK, Row
  <2>2. CASE jobs[j].attempts >= MaxAttempts
    BY <2>1, <2>2, Counts, TypedCounts DEF Counted, One
  <2>3. CASE jobs[j].attempts < MaxAttempts
    BY <2>1, <2>3, CountedParts, KnowledgeAssumption
  <2>4. QED
    BY <2>1, <2>2, <2>3, Counts, TypedCounts
<1>2. QED
  BY KnowledgeTyping, KnowledgeCounts, <1>1, PTL
=============================================================================
