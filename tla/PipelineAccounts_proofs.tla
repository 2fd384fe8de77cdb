----------------------- MODULE PipelineAccounts_proofs -----------------------
(***************************************************************************)
(* Theorems about the counts of the extraction pipeline: what is charged   *)
(* and refunded, what a response adds up to, how often entries are         *)
(* written and how often a row can be made active.  They rest on one       *)
(* lemma, JobSteps, which says what any step of the pipeline does to any   *)
(* one job.                                                                *)
(***************************************************************************)
EXTENDS ExtractionPipeline_proofs, FiniteSetTheorems

---------------------------------------------------------------------------
(* What a step may do to job k: to its row, its charge, its batches, its   *)
(* place in the queue and on the sweeper's list, and its attempt.          *)

SameRow(k) == job'[k] = job[k]
SameCharge(k) == settled'[k] = settled[k] /\ marks'[k] = marks[k]
SameBatch(k) == writes'[k] = writes[k]
SameOwed(k) == k \in sweeper'.owed <=> k \in sweeper.owed
SameQueue(k) == k \in queue' <=> k \in queue
SameAttempt(k) == att'[k].pc = att[k].pc /\ (att[k].pc # "idle" => att'[k] = att[k])
SameLife(k) == SameAttempt(k) /\ SameQueue(k) /\ SameBatch(k)

Marked(k, m) == settled'[k] = settled[k] /\ marks'[k] = marks[k] \cup {m}
Charged(k) ==
  \/ settled'[k] = settled[k] + 1 /\ marks'[k] = marks[k]
  \/ Marked(k, "dropped")
Closes(k, status) ==
  /\ SameOwner(job'[k], job[k])
  /\ job[k].status \in Active => job'[k].status = status
  /\ job[k].status \notin Active => job'[k] = job[k]

Moves(k, from, to) ==
  /\ att[k].pc \in from /\ att'[k].pc \in to /\ att'[k].left = att[k].left
  /\ SameQueue(k) /\ SameOwed(k)
Leaves(k, from) ==
  att[k].pc \in from /\ att'[k].pc = "idle" /\ k \notin queue' /\ SameOwed(k) /\ SameBatch(k)

Unmoved(k) == SameRow(k) /\ SameCharge(k) /\ SameLife(k) /\ SameOwed(k)

Ages(k) ==
  /\ SameOwner(job'[k], job[k]) /\ job'[k].status = job[k].status
  /\ job'[k].age <= job[k].age + 1
  /\ att'[k].pc = att[k].pc
  /\ att[k].pc # "idle" => att[k].left > 0 /\ att'[k].left = att[k].left - 1
  /\ SameCharge(k) /\ SameQueue(k) /\ SameBatch(k) /\ SameOwed(k)

ByIngest(k) ==
  /\ att'[k] = att[k] /\ SameCharge(k) /\ SameBatch(k) /\ SameOwed(k)
  /\ \/ /\ \E r \in Requests : CreateJob(r, k)
        /\ job[k].status = "absent" /\ job'[k].status = "pending" /\ SameQueue(k)
     \/ (\E r \in Requests : Enqueue(r, k)) /\ SameRow(k)

(* The steps of an attempt.  First those that concern neither its row nor  *)
(* the charge.                                                             *)
PlainMove(k) ==
  /\ SameRow(k) /\ SameCharge(k) /\ SameBatch(k)
  /\ \/ Moves(k, {"phase1", "llm", "notopic", "phase3"}, {"failing"})
     \/ Moves(k, {"llm"}, {"phase3", "notopic"})
PlainLeave(k) ==
  SameRow(k) /\ SameCharge(k) /\ Leaves(k, {"idle", "phase1", "phase3", "finish"})
Starts(k) ==
  /\ SameRow(k) /\ SameCharge(k) /\ SameBatch(k) /\ SameOwed(k) /\ SameQueue(k)
  /\ k \in queue /\ att[k].pc = "idle"
  /\ att'[k].pc = "phase1" /\ att'[k].left = JobTimeout
Interrupted(k) == SameRow(k) /\ Marked(k, "interrupted") /\ Leaves(k, AttemptPcs)

Revives(k) ==
  /\ Phase1(k) /\ Moves(k, {"phase1"}, {"llm"}) /\ SameCharge(k) /\ SameBatch(k)
  /\ SameOwner(job'[k], job[k])
  /\ CanStart(job[k]) => job'[k].status = "running" /\ job'[k].age = 0
  /\ ~CanStart(job[k]) => SameRow(k)
Skips(k) ==
  /\ MarkSkippedNoTopic(k) /\ Moves(k, {"notopic"}, {"notopicRefund"})
  /\ SameCharge(k) /\ SameBatch(k) /\ Closes(k, "completed")
Commits(k) ==
  /\ Phase3Commit(k) /\ Moves(k, {"commit"}, {"finish"}) /\ SameCharge(k)
  /\ writes'[k] = writes[k] + 1 /\ Closes(k, "completed")
Fails(k) == (SameRow(k) \/ Closes(k, "failed")) /\ SameCharge(k) /\ Leaves(k, {"markFailed"})

RollsBack(k) ==
  SameRow(k) /\ Marked(k, "rolledBack") /\ SameBatch(k) /\ Moves(k, {"commit"}, {"failing"})
Refunds(k) ==
  /\ SameRow(k) /\ Charged(k) /\ SameBatch(k)
  /\ Moves(k, {"failing"}, {"markFailed"}) \/ Leaves(k, {"notopicRefund"})
Bills(k) ==
  /\ SameRow(k) /\ Charged(k) /\ SameBatch(k) /\ Moves(k, {"phase3"}, {"commit"})
  /\ ~Processed(job[k].conv)

(* The others' steps that concern it.                                      *)
Swept(k) ==
  /\ job[k].status \in Active /\ job'[k].status = "failed" /\ SameOwner(job'[k], job[k])
  /\ job[k].status = "running" => job[k].age > RunningThreshold
  /\ k \notin sweeper.owed /\ k \in sweeper'.owed
  /\ Marked(k, "swept") /\ SameLife(k)
RefundedLate(k) ==
  k \in sweeper.owed /\ k \notin sweeper'.owed /\ Charged(k) /\ SameRow(k) /\ SameLife(k)
Dies(k) ==
  /\ SameRow(k) /\ SameBatch(k) /\ SameOwed(k) /\ SameQueue(k)
  /\ WorkerCrash \/ WorkerStop
  /\ att[k].pc # "idle" /\ att'[k].pc = "idle" /\ Marked(k, "interrupted")
Forgotten(k) ==
  /\ k \in sweeper.owed /\ k \notin sweeper'.owed
  /\ Marked(k, "dropped") /\ SameRow(k) /\ SameLife(k)

ByAttempt(k) ==
  \/ PlainMove(k) \/ PlainLeave(k) \/ Starts(k) \/ Interrupted(k) \/ Revives(k) \/ Skips(k)
  \/ Commits(k) \/ Fails(k) \/ RollsBack(k) \/ Refunds(k) \/ Bills(k)
ByOthers(k) == Swept(k) \/ RefundedLate(k) \/ Dies(k) \/ Forgotten(k)
JobStep(k) == Unmoved(k) \/ Ages(k) \/ ByIngest(k) \/ ByAttempt(k) \/ ByOthers(k)

---------------------------------------------------------------------------
(* An attempt's step concerns its own job only.                            *)
LEMMA OtherJobs ==
  ASSUME TypeOK, NEW j \in Jobs, NEW k \in Jobs, j # k, Arq(j) \/ Work(j) \/ RefundSweptRow(j)
  PROVE  Unmoved(k)
<1>0. /\ job \in [Jobs -> Row] /\ att \in [Jobs -> Attempt] /\ settled \in [Jobs -> Nat]
      /\ marks \in [Jobs -> SUBSET Marks] /\ writes \in [Jobs -> Nat]
      /\ sweeper \in [next : {"pending", "running"}, owed : SUBSET Jobs]
  BY DEF TypeOK
<1>1. SettleOrDrop(j) => SameCharge(k)
  BY <1>0 DEF SettleOrDrop, SameCharge
<1>2. Leave(j) => att'[k] = att[k] /\ SameQueue(k)
  BY <1>0 DEF Leave, SameQueue
<1>3. \A pc : Goto(j, pc) => att'[k] = att[k]
  BY <1>0 DEF Goto
<1>4. /\ \A status : Close(job, j, status)[k] = job[k]
      /\ MarkRunning(job, j)[k] = job[k]
  BY <1>0 DEF Close, MarkRunning
<1>5. CASE Arq(j)
  <2>1. SameCharge(k)
    BY <1>0, <1>5 DEF Arq, Pickup, GiveUp, Timeout, Interrupt, SameCharge, ghosts
  <2>2. att'[k] = att[k] /\ SameQueue(k)
    BY <1>0, <1>2, <1>5 DEF Arq, Pickup, GiveUp, Timeout, SameQueue
  <2>3. job' = job /\ writes' = writes /\ sweeper' = sweeper
    BY <1>5 DEF Arq, Pickup, GiveUp, Timeout, ghosts, workerFrame
  <2> QED BY <2>1, <2>2, <2>3 DEF Unmoved, SameRow, SameLife, SameAttempt, SameBatch, SameOwed
<1>6. CASE Work(j)
  <2>1. SameCharge(k)
    BY <1>0, <1>1, <1>6 DEF Work, Phase1Skip, Phase1, Phase1Error, Phase2, MarkSkippedNoTopic,
       NoTopicRefund, Phase3Skip, Phase3Write, Phase3Commit, PublishProgress, PersistError,
       FailRefund, MarkJobFailed, SameCharge, ghosts
  <2>2. att'[k] = att[k]
    BY <1>0, <1>2, <1>3, <1>6 DEF Work, Phase1Skip, Phase1, Phase1Error, Phase2, MarkSkippedNoTopic,
       NoTopicRefund, Phase3Skip, Phase3Write, Phase3Commit, PublishProgress, PersistError,
       FailRefund, MarkJobFailed
  <2>3. SameQueue(k)
    BY <1>2, <1>6 DEF Work, Phase1Skip, Phase1, Phase1Error, Phase2, MarkSkippedNoTopic,
       NoTopicRefund, Phase3Skip, Phase3Write, Phase3Commit, PublishProgress, PersistError,
       FailRefund, MarkJobFailed, SameQueue, arqVars
  <2>4. SameRow(k)
    BY <1>4, <1>6 DEF Work, Phase1Skip, Phase1, Phase1Error, Phase2, MarkSkippedNoTopic,
       NoTopicRefund, Phase3Skip, Phase3Write, Phase3Commit, PublishProgress, PersistError,
       FailRefund, MarkJobFailed, SameRow, MarkCompleted, MarkFailed
  <2>5. SameBatch(k)
    BY <1>0, <1>6 DEF Work, Phase1Skip, Phase1, Phase1Error, Phase2, MarkSkippedNoTopic,
       NoTopicRefund, Phase3Skip, Phase3Write, Phase3Commit, PublishProgress, PersistError,
       FailRefund, MarkJobFailed, SameBatch, ghosts
  <2>6. sweeper' = sweeper
    BY <1>6 DEF Work, Phase1Skip, Phase1, Phase1Error, Phase2, MarkSkippedNoTopic,
       NoTopicRefund, Phase3Skip, Phase3Write, Phase3Commit, PublishProgress, PersistError,
       FailRefund, MarkJobFailed, workerFrame
  <2> QED BY <2>1, <2>2, <2>3, <2>4, <2>5, <2>6 DEF Unmoved, SameLife, SameAttempt, SameOwed
<1>7. CASE RefundSweptRow(j)
  <2>1. SameOwed(k)
    BY <1>0, <1>7 DEF RefundSweptRow, SameOwed
  <2> QED BY <1>1, <1>7, <2>1 DEF RefundSweptRow, Unmoved, SameRow, SameLife, SameAttempt, SameQueue, SameBatch
<1> QED BY <1>5, <1>6, <1>7

(* A step of job k's own attempt.                                          *)
LEMMA OwnPlaces ==
  ASSUME TypeOK, NEW k \in Jobs
  PROVE  /\ Leave(k) => att'[k].pc = "idle" /\ k \notin queue'
         /\ \A pc : Goto(k, pc) => att'[k].pc = pc /\ att'[k].left = att[k].left
         /\ SettleOrDrop(k) => Charged(k)
<1>0. /\ att \in [Jobs -> Attempt] /\ att[k] \in Attempt
      /\ settled \in [Jobs -> Nat] /\ marks \in [Jobs -> SUBSET Marks]
  BY DEF TypeOK
<1>1. Leave(k) => att'[k].pc = "idle" /\ k \notin queue'
  BY <1>0 DEF Leave, NoAttempt
<1>2. ASSUME NEW pc, Goto(k, pc) PROVE att'[k].pc = pc /\ att'[k].left = att[k].left
  BY <1>0, <1>2 DEF Goto, Attempt
<1>3. ASSUME SettleOrDrop(k) PROVE Charged(k)
  BY <1>0, <1>3 DEF SettleOrDrop, Charged, Marked
<1> QED BY <1>1, <1>2, <1>3

LEMMA OwnArq ==
  ASSUME TypeOK, NEW k \in Jobs, Arq(k)
  PROVE  Starts(k) \/ PlainLeave(k) \/ Interrupted(k)
<1>0. att \in [Jobs -> Attempt] /\ att[k] \in Attempt /\ marks \in [Jobs -> SUBSET Marks]
  BY DEF TypeOK
<1>1. CASE Pickup(k)
  <2>1. att'[k] = [pc |-> "phase1", left |-> JobTimeout, known |-> FALSE]
    BY <1>0, <1>1 DEF Pickup
  <2> QED BY <1>1, <2>1 DEF Pickup, Starts, SameRow, SameCharge, SameBatch, SameOwed, SameQueue,
             ghosts, workerFrame, At
<1>2. CASE GiveUp(k)
  BY <1>2, OwnPlaces DEF GiveUp, PlainLeave, Leaves, SameRow, SameCharge, SameBatch, SameOwed,
     ghosts, workerFrame, At
<1>3. CASE Timeout(k)
  <2>1. marks'[k] = marks[k] \cup {"interrupted"} /\ settled' = settled
    BY <1>0, <1>3 DEF Timeout, Interrupt
  <2>2. att[k].pc \in AttemptPcs
    BY <1>0, <1>3 DEF Timeout, At, Attempt
  <2> QED BY <1>3, <2>1, <2>2, OwnPlaces DEF Timeout, Interrupted, Leaves, Marked, SameRow,
             SameBatch, SameOwed, workerFrame
<1> QED BY <1>1, <1>2, <1>3 DEF Arq

LEMMA OwnWork ==
  ASSUME TypeOK, NEW k \in Jobs, Work(k)
  PROVE  ByAttempt(k)
<1>0. /\ job \in [Jobs -> Row] /\ job[k] \in Row /\ att \in [Jobs -> Attempt] /\ att[k] \in Attempt
      /\ settled \in [Jobs -> Nat] /\ marks \in [Jobs -> SUBSET Marks] /\ writes \in [Jobs -> Nat]
      /\ 0 \in 0 .. AgeCap
  BY AgeCapAssumption DEF TypeOK
<1>1. CASE Phase1Skip(k) \/ Phase3Skip(k) \/ PublishProgress(k)
  <2>1. PlainLeave(k)
    BY <1>1, OwnPlaces DEF Phase1Skip, Phase3Skip, PublishProgress, PlainLeave, Leaves, SameRow,
       SameCharge, SameBatch, SameOwed, ghosts, workerFrame, At
  <2> QED BY <2>1 DEF ByAttempt
<1>2. CASE Phase1(k)
  <2>1. job' = MarkRunning(job, k) /\ SameOwner(job'[k], job[k])
    BY <1>0, <1>2, RunningRows DEF Phase1
  <2>2. CanStart(job[k]) => job'[k].status = "running" /\ job'[k].age = 0
    BY <1>0, <2>1 DEF MarkRunning, Row
  <2>3. ~CanStart(job[k]) => SameRow(k)
    BY <2>1 DEF MarkRunning, SameRow
  <2>4. att'[k].pc = "llm" /\ att'[k].left = att[k].left
    BY <1>0, <1>2 DEF Phase1, Attempt
  <2>5. Revives(k)
    BY <1>2, <2>1, <2>2, <2>3, <2>4 DEF Phase1, Revives, Moves, SameCharge, SameBatch, SameOwed,
       SameQueue, ghosts, workerFrame, arqVars, At
  <2> QED BY <2>5 DEF ByAttempt
<1>3. CASE Phase1Error(k)
  <2>1. att'[k].pc = "failing" /\ att'[k].left = att[k].left
    BY <1>0, <1>3 DEF Phase1Error, Attempt
  <2>2. PlainMove(k)
    BY <1>3, <2>1 DEF Phase1Error, PlainMove, Moves, SameRow, SameCharge, SameBatch, SameOwed,
       SameQueue, ghosts, workerFrame, arqVars, At
  <2> QED BY <2>2 DEF ByAttempt
<1>4. CASE Phase2(k)
  <2>1. att'[k].pc \in {"phase3", "notopic", "failing"} /\ att'[k].left = att[k].left
    BY <1>4, OwnPlaces DEF Phase2
  <2>2. PlainMove(k)
    BY <1>4, <2>1 DEF Phase2, PlainMove, Moves, SameRow, SameCharge, SameBatch, SameOwed,
       SameQueue, ghosts, workerFrame, arqVars, At
  <2> QED BY <2>2 DEF ByAttempt
<1>5. ASSUME NEW status, job' = Close(job, k, status) PROVE Closes(k, status)
  <2>1. /\ SameOwner(job'[k], job[k])
        /\ job'[k].status = IF job[k].status \in Active THEN status ELSE job[k].status
        /\ job[k].status \notin Active => job'[k] = job[k]
    BY <1>0, <1>5, ClosedRows
  <2> QED BY <2>1 DEF Closes
<1>6. CASE MarkSkippedNoTopic(k)
  <2>1. Closes(k, "completed")
    BY <1>5, <1>6 DEF MarkSkippedNoTopic, MarkCompleted
  <2>2. Skips(k)
    BY <1>6, <2>1, OwnPlaces DEF MarkSkippedNoTopic, Skips, Moves, SameCharge, SameBatch, SameOwed,
       SameQueue, ghosts, workerFrame, arqVars, At
  <2> QED BY <2>2 DEF ByAttempt
<1>7. CASE NoTopicRefund(k)
  <2>1. Refunds(k)
    BY <1>7, OwnPlaces DEF NoTopicRefund, Refunds, Leaves, SameRow, SameBatch, SameOwed,
       workerFrame, At
  <2> QED BY <2>1 DEF ByAttempt
<1>8. CASE Phase3Write(k)
  <2>1. Bills(k)
    BY <1>8, OwnPlaces DEF Phase3Write, Bills, Moves, SameRow, SameBatch, SameOwed, SameQueue,
       workerFrame, arqVars, At
  <2> QED BY <2>1 DEF ByAttempt
<1>9. CASE Phase3Commit(k)
  <2>1. Closes(k, "completed")
    BY <1>5, <1>9 DEF Phase3Commit, MarkCompleted
  <2>2. writes'[k] = writes[k] + 1
    BY <1>0, <1>9 DEF Phase3Commit
  <2>3. Commits(k)
    BY <1>9, <2>1, <2>2, OwnPlaces DEF Phase3Commit, Commits, Moves, SameCharge, SameOwed,
       SameQueue, workerFrame, arqVars, At
  <2> QED BY <2>3 DEF ByAttempt
<1>10. CASE PersistError(k)
  <2>1. Goto(k, "failing") /\ att'[k].pc = "failing" /\ att'[k].left = att[k].left
    BY <1>10, OwnPlaces DEF PersistError
  <2>2. CASE att[k].pc = "commit"
    <3>1. Marked(k, "rolledBack")
      BY <1>0, <1>10, <2>2 DEF PersistError, Marked, At
    <3>2. RollsBack(k)
      BY <1>10, <2>1, <2>2, <3>1 DEF PersistError, RollsBack, Moves, SameRow, SameBatch, SameOwed,
         SameQueue, workerFrame, arqVars
    <3> QED BY <3>2 DEF ByAttempt
  <2>3. CASE att[k].pc # "commit"
    <3>1. PlainMove(k)
      BY <1>10, <2>1, <2>3 DEF PersistError, PlainMove, Moves, SameRow, SameCharge, SameBatch,
         SameOwed, SameQueue, workerFrame, arqVars, At
    <3> QED BY <3>1 DEF ByAttempt
  <2> QED BY <2>2, <2>3
<1>11. CASE FailRefund(k)
  <2>1. Charged(k)
    <3>1. CASE att[k].known
      BY <1>11, <3>1, OwnPlaces DEF FailRefund
    <3>2. CASE ~att[k].known
      BY <1>0, <1>11, <3>2 DEF FailRefund, Charged, Marked
    <3> QED BY <3>1, <3>2
  <2>2. Refunds(k)
    BY <1>11, <2>1, OwnPlaces DEF FailRefund, Refunds, Moves, SameRow, SameBatch, SameOwed,
       SameQueue, workerFrame, arqVars, At
  <2> QED BY <2>2 DEF ByAttempt
<1>12. CASE MarkJobFailed(k)
  <2>1. SameRow(k) \/ Closes(k, "failed")
    BY <1>5, <1>12 DEF MarkJobFailed, MarkFailed, SameRow
  <2>2. Fails(k)
    BY <1>12, <2>1, OwnPlaces DEF MarkJobFailed, Fails, Leaves, SameCharge, SameBatch, SameOwed,
       ghosts, workerFrame, At
  <2> QED BY <2>2 DEF ByAttempt
<1> QED BY <1>1, <1>2, <1>3, <1>4, <1>6, <1>7, <1>8, <1>9, <1>10, <1>11, <1>12 DEF Work

(* The steps of the other actors.                                          *)
LEMMA IngestSteps ==
  ASSUME TypeOK, NEW r \in Requests, Ingest(r), NEW k \in Jobs
  PROVE  Unmoved(k) \/ ByIngest(k)
<1>0. job \in [Jobs -> Row]
  BY DEF TypeOK
<1>1. /\ att' = att /\ settled' = settled /\ marks' = marks /\ writes' = writes
      /\ sweeper' = sweeper
  BY DEF Ingest, StartRequest, SaveConversation, PreCharge, Txn2Error, AbortRequest, EndLoop,
     Respond, DedupeCheck, CreateJob, Enqueue, ingestFrame
<1>2. SameCharge(k) /\ SameBatch(k) /\ SameOwed(k)
  BY <1>1 DEF SameCharge, SameBatch, SameOwed
<1>3. \/ job' = job /\ queue' = queue
      \/ \E j \in Jobs : CreateJob(r, j) /\ queue' = queue
      \/ \E j \in Jobs : Enqueue(r, j) /\ job' = job
  BY DEF Ingest, StartRequest, SaveConversation, PreCharge, Txn2Error, AbortRequest, EndLoop,
     Respond, DedupeCheck, CreateJob, Enqueue, ingestFrame
<1>4. CASE job' = job /\ queue' = queue
  BY <1>1, <1>2, <1>4 DEF Unmoved, SameRow, SameLife, SameAttempt, SameQueue
<1>5. ASSUME NEW j \in Jobs, CreateJob(r, j), queue' = queue PROVE Unmoved(k) \/ ByIngest(k)
  <2>1. CASE j = k
    <3>1. job[k].status = "absent" /\ job'[k].status = "pending"
      BY <1>0, <1>5, <2>1 DEF CreateJob, CreatePending
    <3> QED BY <1>1, <1>2, <1>5, <2>1, <3>1 DEF ByIngest, SameQueue
  <2>2. CASE j # k
    <3>1. job'[k] = job[k]
      BY <1>0, <1>5, <2>2 DEF CreateJob, CreatePending
    <3> QED BY <1>1, <1>2, <1>5, <3>1 DEF Unmoved, SameRow, SameLife, SameAttempt, SameQueue
  <2> QED BY <2>1, <2>2
<1>6. ASSUME NEW j \in Jobs, Enqueue(r, j), job' = job PROVE Unmoved(k) \/ ByIngest(k)
  <2>1. CASE j = k
    BY <1>1, <1>2, <1>6, <2>1 DEF ByIngest, SameRow
  <2>2. CASE j # k
    <3>1. SameQueue(k)
      BY <1>6, <2>2 DEF Enqueue, SameQueue
    <3> QED BY <1>1, <1>2, <1>6, <3>1 DEF Unmoved, SameRow, SameLife, SameAttempt
  <2> QED BY <2>1, <2>2
<1> QED BY <1>3, <1>4, <1>5, <1>6

LEMMA SweeperSteps ==
  ASSUME TypeOK, NEW k \in Jobs, SweepRows \/ SweepError \/ RefundSweptRow(k)
  PROVE  Unmoved(k) \/ Swept(k) \/ RefundedLate(k)
<1>0. job \in [Jobs -> Row] /\ job[k] \in Row /\ sweeper.next \in {"pending", "running"}
  BY DEF TypeOK
<1>1. CASE SweepRows
  <2> DEFINE swept == Stale(job, sweeper.next, Threshold(sweeper.next))
  <2>1. /\ swept \in SUBSET Jobs /\ job' = Sweep(job, swept) /\ sweeper.owed = {}
        /\ sweeper'.owed = swept
        /\ marks' = [j \in Jobs |-> IF j \in swept THEN marks[j] \cup {"swept"} ELSE marks[j]]
        /\ SameLife(k) /\ settled' = settled
    BY <1>1 DEF SweepRows, Stale, SameLife, SameAttempt, SameQueue, SameBatch
  <2>2. k \in swept => /\ job[k].status \in Active
                       /\ job[k].status = "running" => job[k].age > RunningThreshold
    BY <1>0 DEF Stale, Threshold, Active
  <2> HIDE DEF swept
  <2>3. /\ SameOwner(job'[k], job[k])
        /\ job'[k].status = IF k \in swept THEN "failed" ELSE job[k].status
        /\ k \notin swept => job'[k] = job[k]
    BY <1>0, <2>1, SweptRows
  <2>4. CASE k \in swept
    BY <2>1, <2>2, <2>3, <2>4 DEF Swept, Marked
  <2>5. CASE k \notin swept
    BY <2>1, <2>3, <2>5 DEF Unmoved, SameRow, SameCharge, SameOwed
  <2> QED BY <2>4, <2>5
<1>2. CASE SweepError
  <2>1. sweeper'.owed = sweeper.owed
    BY <1>2 DEF SweepError, TypeOK
  <2> QED BY <1>2, <2>1 DEF SweepError, Unmoved, SameRow, SameCharge, SameLife, SameAttempt, SameQueue,
             SameBatch, SameOwed
<1>3. CASE RefundSweptRow(k)
  <2>1. k \notin sweeper'.owed /\ Charged(k)
    BY <1>3, OwnPlaces DEF RefundSweptRow, TypeOK
  <2> QED BY <1>3, <2>1 DEF RefundSweptRow, RefundedLate, SameRow, SameLife, SameAttempt, SameQueue, SameBatch
<1> QED BY <1>1, <1>2, <1>3

LEMMA TickSteps ==
  ASSUME TypeOK, NEW k \in Jobs, Tick
  PROVE  Ages(k)
<1>0. /\ job \in [Jobs -> Row] /\ job[k] \in Row /\ att[k] \in Attempt /\ job[k].age \in Nat
  BY AgeCapAssumption DEF TypeOK, Row
<1>1. job'[k] = Older(job)[k] /\ SameOwner(job'[k], job[k]) /\ job'[k].status = job[k].status
  BY <1>0, OlderRows DEF Tick
<1>2. job'[k].age <= job[k].age + 1
  BY <1>0, <1>1 DEF Older, Row
<1>3. /\ att'[k] = IF att[k].pc = "idle" THEN att[k] ELSE [att[k] EXCEPT !.left = @ - 1]
      /\ att[k].pc # "idle" => att[k].left > 0
  BY DEF Tick, At
<1>4. /\ att'[k].pc = att[k].pc
      /\ att[k].pc # "idle" => att'[k].left = att[k].left - 1
  BY <1>0, <1>3 DEF Attempt
<1> QED BY <1>1, <1>2, <1>3, <1>4 DEF Tick, Ages, SameCharge, SameQueue, SameBatch, SameOwed, ghosts

LEMMA FaultSteps ==
  ASSUME TypeOK, NEW k \in Jobs, WorkerCrash \/ WorkerStop \/ ApiRestart
  PROVE  Unmoved(k) \/ Dies(k) \/ Forgotten(k)
<1>0. att[k] \in Attempt /\ marks \in [Jobs -> SUBSET Marks]
  BY DEF TypeOK
<1>1. CASE WorkerCrash \/ WorkerStop
  <2>1. /\ att' = [j \in Jobs |-> NoAttempt] /\ marks' = Interrupt(Live) /\ settled' = settled
        /\ SameRow(k) /\ SameBatch(k) /\ SameOwed(k) /\ SameQueue(k)
    BY <1>1 DEF WorkerCrash, WorkerStop, SameRow, SameBatch, SameOwed, SameQueue
  <2>2. CASE att[k].pc # "idle"
    <3>1. marks'[k] = marks[k] \cup {"interrupted"} /\ att'[k].pc = "idle"
      BY <2>1, <2>2 DEF Interrupt, Live, At, NoAttempt
    <3> QED BY <1>1, <2>1, <2>2, <3>1 DEF Dies, Marked
  <2>3. CASE att[k].pc = "idle"
    <3>1. marks'[k] = marks[k]
      BY <2>1, <2>3 DEF Interrupt, Live, At
    <3> QED BY <2>1, <2>3, <3>1 DEF Unmoved, SameCharge, SameLife, SameAttempt, NoAttempt
  <2> QED BY <2>2, <2>3
<1>2. CASE ApiRestart
  <2>1. /\ sweeper'.owed = {} /\ settled' = settled
        /\ marks'[k] = IF k \in sweeper.owed THEN marks[k] \cup {"dropped"} ELSE marks[k]
        /\ SameRow(k) /\ SameLife(k)
    BY <1>2 DEF ApiRestart, SameRow, SameLife, SameAttempt, SameQueue, SameBatch
  <2>2. CASE k \in sweeper.owed
    BY <2>1, <2>2 DEF Forgotten, Marked
  <2>3. CASE k \notin sweeper.owed
    BY <2>1, <2>3 DEF Unmoved, SameCharge, SameOwed
  <2> QED BY <2>2, <2>3
<1> QED BY <1>1, <1>2

(* What any step of the pipeline does to any one job.                      *)
LEMMA JobSteps ==
  ASSUME TypeOK, [Next]_vars, NEW k \in Jobs
  PROVE  JobStep(k)
<1>1. CASE UNCHANGED vars
  BY <1>1 DEF vars, JobStep, Unmoved, SameRow, SameCharge, SameLife, SameAttempt, SameQueue,
     SameBatch, SameOwed
<1>2. ASSUME NEW r \in Requests, Ingest(r) PROVE JobStep(k)
  BY <1>2, IngestSteps DEF JobStep
<1>3. ASSUME NEW j \in Jobs, Arq(j) \/ Work(j) \/ RefundSweptRow(j) PROVE JobStep(k)
  <2>1. CASE j # k
    BY <1>3, <2>1, OtherJobs DEF JobStep
  <2>2. CASE j = k /\ Arq(k)
    BY <2>2, OwnArq DEF JobStep, ByAttempt
  <2>3. CASE j = k /\ Work(k)
    BY <2>3, OwnWork DEF JobStep
  <2>4. CASE j = k /\ RefundSweptRow(k)
    BY <2>4, SweeperSteps DEF JobStep, ByOthers
  <2> QED BY <1>3, <2>1, <2>2, <2>3, <2>4
<1>4. CASE SweepRows \/ SweepError
  BY <1>4, SweeperSteps DEF JobStep, ByOthers
<1>5. CASE Tick
  BY <1>5, TickSteps DEF JobStep
<1>6. CASE WorkerCrash \/ WorkerStop \/ ApiRestart
  BY <1>6, FaultSteps DEF JobStep, ByOthers
<1> QED BY <1>1, <1>2, <1>3, <1>4, <1>5, <1>6 DEF Next

---------------------------------------------------------------------------
(* The pre-charge is not forgotten.  Between the exits of the job and the  *)
(* statements that settle it a terminal row is still owed: by the sweeper, *)
(* or by the attempt that has yet to refund.                               *)

Told(k) == settled[k] >= 1 \/ marks[k] \cap {"dropped", "interrupted"} # {}

ChargeOk(k) ==
  /\ job[k].status \in Terminal => Told(k) \/ k \in sweeper.owed \/ At(k, "notopicRefund")
  /\ att[k].pc \in {"commit", "finish", "markFailed"} => Told(k)

LEMMA ToldKept ==
  ASSUME TypeOK, NEW k \in Jobs
  PROVE  /\ SameCharge(k) /\ Told(k) => Told(k)'
         /\ Charged(k) => Told(k)'
         /\ \A m : Marked(k, m) /\ Told(k) => Told(k)'
         /\ Marked(k, "interrupted") \/ Marked(k, "dropped") => Told(k)'
<1>1. settled[k] \in Nat
  BY DEF TypeOK
<1>2. SameCharge(k) /\ Told(k) => Told(k)'
  BY DEF SameCharge, Told
<1>3. \A m : Marked(k, m) /\ Told(k) => Told(k)'
  BY DEF Marked, Told
<1>4. Marked(k, "interrupted") \/ Marked(k, "dropped") => Told(k)'
  BY DEF Marked, Told
<1>5. settled'[k] = settled[k] + 1 => Told(k)'
  BY <1>1 DEF Told
<1> QED BY <1>2, <1>3, <1>4, <1>5 DEF Charged

LEMMA ChargeStep ==
  ASSUME TypeOK, [Next]_vars, NEW k \in Jobs, ChargeOk(k)
  PROVE  ChargeOk(k)'
<1>1. CASE Told(k)'
  BY <1>1 DEF ChargeOk
<1>2. CASE Unmoved(k)
  BY <1>2, ToldKept DEF ChargeOk, Unmoved, SameRow, SameLife, SameAttempt, SameOwed, At
<1>3. CASE Ages(k)
  BY <1>3, ToldKept DEF ChargeOk, Ages, SameOwed, At
<1>4. CASE ByIngest(k)
  BY <1>4, ToldKept DEF ChargeOk, ByIngest, SameRow, SameOwed, At, Terminal
<1>5. CASE PlainMove(k) \/ PlainLeave(k) \/ Starts(k)
  BY <1>5, ToldKept DEF ChargeOk, PlainMove, PlainLeave, Starts, Moves, Leaves, SameRow, SameOwed, At
<1>6. CASE Revives(k)
  BY <1>6, ToldKept DEF ChargeOk, Revives, Moves, SameRow, SameOwed, At, Terminal
<1>7. CASE Skips(k)
  BY <1>7 DEF ChargeOk, Skips, Moves, At
<1>8. CASE Commits(k)
  BY <1>8, ToldKept DEF ChargeOk, Commits, Moves
<1>9. CASE Fails(k)
  BY <1>9, ToldKept DEF ChargeOk, Fails, Leaves
<1>10. CASE RollsBack(k)
  BY <1>10, ToldKept DEF ChargeOk, RollsBack, Moves
<1>11. CASE Swept(k)
  BY <1>11, ToldKept DEF ChargeOk, Swept, SameLife, SameAttempt
<1>12. CASE Refunds(k) \/ Bills(k) \/ RefundedLate(k) \/ Interrupted(k) \/ Dies(k) \/ Forgotten(k)
  BY <1>1, <1>12, ToldKept DEF Refunds, Bills, RefundedLate, Interrupted, Dies, Forgotten
<1> QED BY <1>2, <1>3, <1>4, <1>5, <1>6, <1>7, <1>8, <1>9, <1>10, <1>11, <1>12, JobSteps
        DEF JobStep, ByAttempt, ByOthers

(* Whatever way a job ends, its pre-charge is settled, or the best-effort  *)
(* statement that would have settled it is known to have been lost.        *)
THEOREM ChargeSettled == Spec => []NoSilentCharge
<1> DEFINE Inv == \A k \in Jobs : ChargeOk(k)
<1>1. Init => Inv
  BY DEF Init, ChargeOk, Absent, NoAttempt, Terminal
<1>2. IInv /\ Inv /\ [Next]_vars => Inv'
  BY ChargeStep DEF IInv
<1>3. Inv => NoSilentCharge
  BY DEF ChargeOk, NoSilentCharge, Told, At
<1> HIDE DEF Inv
<1> QED BY <1>1, <1>2, <1>3, Invariance, PTL DEF Spec

---------------------------------------------------------------------------
(* A job writes once: having written, its conversation is processed, and a *)
(* later attempt stops at one of the two idempotency checks.               *)

WriteOk(k) ==
  /\ writes[k] <= 1
  /\ writes[k] # 0 => job[k].status # "absent" /\ Processed(job[k].conv)
  /\ At(k, "commit") => writes[k] = 0

LEMMA BatchSteps ==
  ASSUME TypeOK, [Next]_vars, NEW k \in Jobs
  PROVE  /\ SameBatch(k) \/ Commits(k)
         /\ At(k, "commit")' => At(k, "commit") \/ Bills(k)
BY JobSteps DEF JobStep, ByAttempt, ByOthers, Unmoved, Ages, ByIngest, PlainMove, PlainLeave,
   Starts, Interrupted, Revives, Skips, Commits, Fails, RollsBack, Refunds, Bills, Swept,
   RefundedLate, Dies, Forgotten, Moves, Leaves, SameLife, SameAttempt, At

LEMMA CommitProcesses ==
  ASSUME TypeOK, NEW k \in Jobs, Phase3Commit(k), job[k].conv \in Convs
  PROVE  conv'[job[k].conv].processed
<1> DEFINE c == job[k].conv
<1>1. conv' = [conv EXCEPT ![c].processed = TRUE, ![c].batches = @ + 1]
  BY DEF Phase3Commit
<1>2. conv \in [Convs -> Conversation] /\ conv[c] \in Conversation /\ c \in Convs
  BY DEF TypeOK
<1> HIDE DEF c
<1>3. conv'[c].processed
  BY <1>1, <1>2 DEF Conversation
<1> QED BY <1>3 DEF c

LEMMA WriteStep ==
  ASSUME IInv, [Next]_vars, NEW k \in Jobs, WriteOk(k)
  PROVE  WriteOk(k)'
<1>0. TypeOK /\ RowsFilled /\ StartedAttempts /\ writes[k] \in Nat
  BY DEF IInv, TypeOK
<1>1. ASSUME job[k].status # "absent", Processed(job[k].conv)
      PROVE  job'[k].status # "absent" /\ Processed(job[k].conv)'
  <2>1. /\ job'[k].status # "absent" /\ job'[k].conv = job[k].conv /\ job[k].conv \in Convs
    BY <1>0, <1>1, RowsKept DEF SameOwner, RowsFilled
  <2>2. conv'[job[k].conv].processed
    BY <1>0, <1>1, <2>1, ProcessedKept DEF Processed
  <2> QED BY <2>1, <2>2 DEF Processed
<1>2. CASE SameBatch(k)
  <2>1. At(k, "commit")' => writes[k] = 0
    BY <1>0, BatchSteps DEF WriteOk, Bills
  <2> QED BY <1>1, <1>2, <2>1 DEF WriteOk, SameBatch
<1>3. CASE Commits(k)
  <2>1. writes[k] = 0 /\ writes'[k] = 1 /\ ~At(k, "commit")'
    BY <1>0, <1>3 DEF Commits, Moves, WriteOk, At
  <2>2. job[k].status # "absent" /\ job[k].conv \in Convs /\ Phase3Commit(k)
    BY <1>0, <1>3 DEF Commits, Moves, StartedAttempts, RowsFilled
  <2>3. job'[k].status # "absent" /\ job'[k].conv = job[k].conv
    BY <1>0, <2>2, RowsKept DEF SameOwner
  <2>4. conv'[job[k].conv].processed
    BY <1>0, <2>2, CommitProcesses
  <2> QED BY <2>1, <2>3, <2>4 DEF WriteOk, Processed
<1> QED BY <1>0, <1>2, <1>3, BatchSteps

(* Over crashes, time-outs and re-runs, the attempts of a job commit its   *)
(* entries at most once.                                                   *)
THEOREM EntriesWrittenOnce == Spec => []EntriesOncePerJob
<1> DEFINE Inv == \A k \in Jobs : WriteOk(k)
<1>1. Init => Inv
  BY DEF Init, WriteOk, NoAttempt, At
<1>2. IInv /\ Inv /\ [Next]_vars => Inv'
  BY WriteStep
<1>3. Inv => EntriesOncePerJob
  BY DEF WriteOk, EntriesOncePerJob
<1> HIDE DEF Inv
<1> QED BY <1>1, <1>2, <1>3, Invariance, PTL DEF Spec

---------------------------------------------------------------------------
(* A plain exit settles once.  A job that an ingest has yet to enqueue is  *)
(* neither queued nor run, and a job is enqueued by one request only: so a *)
(* job that was settled and left undisturbed is never run again.           *)

Unsent(rec) == IF rec.pc \in {"done", "dead"} THEN {} ELSE rec.enq \ rec.sent
Awaited(k) == \E r \in Requests : k \in Unsent(req[r])

EnqueuedOnce == \A r, q \in Requests : r # q => req[r].enq \cap req[q].enq = {}

LEMMA EnqueuedOnceStep ==
  ASSUME IInv, [Next]_vars, EnqueuedOnce
  PROVE  EnqueuedOnce'
<1> SUFFICES ASSUME NEW r \in Requests, NEW q \in Requests, r # q,
                    NEW k, k \in req'[r].enq, k \in req'[q].enq
             PROVE  FALSE
  BY DEF EnqueuedOnce
<1>0. TypeOK /\ EnqueuedRowsExist /\ req \in [Requests -> Request]
  BY DEF IInv, TypeOK
<1>1. /\ k \in req[r].enq \/ (k \in Jobs /\ CreateJob(r, k))
      /\ k \in req[q].enq \/ (k \in Jobs /\ CreateJob(q, k))
  BY <1>0, EnqueueSteps, QueueOthers
<1>2. ASSUME NEW p \in Requests, k \in Jobs, CreateJob(p, k)
      PROVE  /\ \A s \in Requests : k \notin req[s].enq
             /\ \A s \in Requests \ {p} : req'[s] = req[s]
  BY <1>0, <1>2 DEF CreateJob, EnqueuedRowsExist
<1> QED BY <1>1, <1>2 DEF EnqueuedOnce

LEMMA UnsentIngest ==
  ASSUME TypeOK, NEW r \in Requests, Ingest(r), NEW k, k \in Unsent(req'[r])
  PROVE  k \in Unsent(req[r]) \/ (k \in Jobs /\ CreateJob(r, k))
<1>0. req \in [Requests -> Request] /\ req[r] \in Request
  BY DEF TypeOK
<1>1. /\ \A body : Begin(req[r], body).enq = req[r].enq /\ Begin(req[r], body).sent = req[r].sent
      /\ \A u : TakeUp(req[r], u).enq = req[r].enq /\ TakeUp(req[r], u).sent = req[r].sent
      /\ Saved(req[r]).enq = req[r].enq /\ Saved(req[r]).sent = req[r].sent
      /\ Continue(req[r]).enq = req[r].enq /\ Continue(req[r]).sent = req[r].sent
      /\ OverBudget(req[r]).enq = req[r].enq /\ OverBudget(req[r]).sent = req[r].sent
      /\ Failed(req[r]).enq = req[r].enq /\ Failed(req[r]).sent = req[r].sent
      /\ \A pc : Leaving(req[r], pc).pc = pc
      /\ \A j : /\ Created(req[r], j).enq = req[r].enq \cup {j}
                /\ Created(req[r], j).sent = req[r].sent
  BY <1>0 DEF Begin, TakeUp, Saved, Continue, OverBudget, Failed, Leaving, Created, Request
<1>2. CASE StartRequest(r) \/ SaveConversation(r) \/ Txn2Error(r)
  BY <1>0, <1>1, <1>2 DEF StartRequest, SaveConversation, Txn2Error, Unsent
<1>3. CASE PreCharge(r) \/ EndLoop(r)
  <2>1. req[r].pc \in {"charge", "loop"}
    BY <1>3 DEF PreCharge, EndLoop
  <2>2. CASE req' = [req EXCEPT ![r] = OverBudget(@)]
    BY <1>0, <1>1, <2>1, <2>2 DEF Unsent
  <2>3. ASSUME NEW pc, req' = [req EXCEPT ![r].pc = pc] PROVE k \in Unsent(req[r])
    <3>1. req'[r].enq = req[r].enq /\ req'[r].sent = req[r].sent
      BY <1>0, <2>3 DEF Request
    <3> QED BY <2>1, <3>1 DEF Unsent
  <2> QED BY <1>3, <2>2, <2>3 DEF PreCharge, EndLoop
<1>4. CASE AbortRequest(r) \/ Respond(r)
  BY <1>0, <1>1, <1>4 DEF AbortRequest, Respond, Unsent
<1>5. ASSUME NEW u \in Uploads, DedupeCheck(r, u) PROVE k \in Unsent(req[r])
  <2>1. /\ [req EXCEPT ![r].todo = @ \ {u}][r].enq = req[r].enq
        /\ [req EXCEPT ![r].todo = @ \ {u}][r].sent = req[r].sent
    BY <1>0 DEF Request
  <2> QED BY <1>0, <1>1, <1>5, <2>1 DEF DedupeCheck, Unsent
<1>6. ASSUME NEW j \in Jobs, CreateJob(r, j) PROVE k \in Unsent(req[r]) \/ k = j
  BY <1>0, <1>1, <1>6 DEF CreateJob, Unsent
<1>7. ASSUME NEW j \in Jobs, Enqueue(r, j) PROVE k \in Unsent(req[r])
  <2>1. [req EXCEPT ![r].sent = @ \cup {j}][r] = [req[r] EXCEPT !.sent = @ \cup {j}]
    BY <1>0
  <2> QED BY <1>0, <1>7, <2>1 DEF Enqueue, Unsent, Request
<1> QED BY <1>2, <1>3, <1>4, <1>5, <1>6, <1>7 DEF Ingest

(* Requests are written by ingest steps and lost by an API restart.        *)
LEMMA RequestsOthers ==
  ASSUME [Next]_vars, ~(\E r \in Requests : Ingest(r)), ~ApiRestart
  PROVE  req' = req
BY DEF Next, vars, Arq, Work, Pickup, GiveUp, Timeout, Phase1Skip, Phase1, Phase1Error,
   Phase2, MarkSkippedNoTopic, NoTopicRefund, Phase3Skip, Phase3Write, Phase3Commit,
   PublishProgress, PersistError, FailRefund, MarkJobFailed, workerFrame, RefundSweptRow,
   SweepRows, SweepError, Tick, WorkerCrash, WorkerStop

LEMMA AwaitedSteps ==
  ASSUME TypeOK, [Next]_vars, NEW k \in Jobs, Awaited(k)'
  PROVE  Awaited(k) \/ \E r \in Requests : CreateJob(r, k)
<1>0. req \in [Requests -> Request]
  BY DEF TypeOK
<1>1. PICK q \in Requests : k \in Unsent(req'[q])
  BY DEF Awaited
<1>2. CASE req'[q] = req[q]
  BY <1>1, <1>2 DEF Awaited
<1>3. ASSUME NEW r \in Requests, Ingest(r) PROVE r = q \/ req'[q] = req[q]
  BY <1>0, <1>3 DEF Ingest, StartRequest, SaveConversation, PreCharge, Txn2Error, AbortRequest,
     EndLoop, Respond, DedupeCheck, CreateJob, Enqueue
<1>4. CASE \E r \in Requests : Ingest(r)
  BY <1>1, <1>2, <1>3, <1>4, UnsentIngest DEF Awaited
<1>5. CASE ApiRestart
  <2>1. req'[q] = req[q] \/ req'[q] = Leaving(req[q], "dead")
    BY <1>5 DEF ApiRestart
  <2>2. Leaving(req[q], "dead").pc = "dead"
    BY <1>0 DEF Leaving, Request
  <2> QED BY <1>1, <1>2, <2>1, <2>2 DEF Unsent
<1> QED BY <1>2, <1>4, <1>5, RequestsOthers

LEMMA EnqueueSends ==
  ASSUME TypeOK, EnqueuedOnce, NEW r \in Requests, NEW k \in Jobs, Enqueue(r, k)
  PROVE  Awaited(k) /\ ~Awaited(k)'
<1>0. req \in [Requests -> Request] /\ req[r] \in Request
  BY DEF TypeOK
<1>1. k \in Unsent(req[r]) /\ k \in req[r].enq
  BY DEF Enqueue, Unsent
<1>2. req'[r] = [req[r] EXCEPT !.sent = @ \cup {k}] /\ \A q \in Requests \ {r} : req'[q] = req[q]
  BY <1>0 DEF Enqueue
<1>3. k \notin Unsent(req'[r])
  BY <1>0, <1>2 DEF Unsent, Request
<1>4. \A q \in Requests \ {r} : k \notin Unsent(req'[q])
  BY <1>1, <1>2 DEF EnqueuedOnce, Unsent
<1> QED BY <1>1, <1>3, <1>4 DEF Awaited

Disturbed(k) == marks[k] \cap {"swept", "interrupted", "rolledBack"} # {}
Spent(k) == At(k, "idle") /\ k \notin queue /\ ~Awaited(k)

SettleOk(k) ==
  /\ settled[k] # 0 => job[k].status # "absent"
  /\ k \in sweeper.owed => "swept" \in marks[k] /\ job[k].status # "absent"
  /\ Awaited(k) => At(k, "idle") /\ k \notin queue
  /\ ~Disturbed(k) /\ settled[k] # 0 =>
       settled[k] = 1 /\ (att[k].pc \in {"commit", "finish", "markFailed"} \/ Spent(k))

LEMMA SettleCreate ==
  ASSUME IInv, NEW k \in Jobs, SettleOk(k), NEW r \in Requests, CreateJob(r, k)
  PROVE  SettleOk(k)'
<1>1. /\ job[k].status = "absent" /\ settled' = settled /\ sweeper' = sweeper
      /\ att' = att /\ queue' = queue
  BY DEF CreateJob, ingestFrame
<1>2. settled[k] = 0 /\ k \notin sweeper.owed
  BY <1>1 DEF SettleOk
<1>3. At(k, "idle") /\ k \notin queue
  BY <1>1 DEF IInv, WorkerNeverAheadOfRow
<1> QED BY <1>1, <1>2, <1>3 DEF SettleOk, At

LEMMA SettleEnqueue ==
  ASSUME IInv, EnqueuedOnce, NEW k \in Jobs, SettleOk(k), NEW r \in Requests, Enqueue(r, k)
  PROVE  SettleOk(k)'
<1>1. /\ job' = job /\ settled' = settled /\ sweeper' = sweeper /\ marks' = marks
      /\ Awaited(k) /\ ~Awaited(k)'
  BY EnqueueSends DEF Enqueue, IInv
<1>2. At(k, "idle") /\ ~Spent(k)
  BY <1>1 DEF SettleOk, Spent
<1>3. ~Disturbed(k) => settled[k] = 0
  BY <1>2 DEF SettleOk, At
<1> QED BY <1>1, <1>3 DEF SettleOk, Disturbed

(* The other steps await nothing new.                                      *)
LEMMA SettleOthers ==
  ASSUME IInv, NEW k \in Jobs, SettleOk(k), JobStep(k), ~ByIngest(k),
         Awaited(k)' => Awaited(k),
         job[k].status # "absent" => job'[k].status # "absent"
  PROVE  SettleOk(k)'
<1>0. /\ settled \in [Jobs -> Nat] /\ settled[k] \in Nat /\ marks[k] \in SUBSET Marks
      /\ att[k].pc # "idle" => job[k].status # "absent"
  BY DEF IInv, TypeOK, WorkerNeverAheadOfRow, At
<1>1. settled'[k] # 0 => job'[k].status # "absent"
  <2>1. settled'[k] = settled[k] \/ att[k].pc # "idle" \/ k \in sweeper.owed
    BY DEF JobStep, ByAttempt, ByOthers, Unmoved, Ages, PlainMove, PlainLeave, Starts,
       Interrupted, Revives, Skips, Commits, Fails, RollsBack, Refunds, Bills, Swept,
       RefundedLate, Dies, Forgotten, Moves, Leaves, SameCharge, Charged, Marked
  <2> QED BY <1>0, <2>1 DEF SettleOk
<1>2. marks[k] \subseteq marks'[k]
  BY DEF JobStep, ByAttempt, ByOthers, Unmoved, Ages, PlainMove, PlainLeave, Starts, Interrupted,
     Revives, Skips, Commits, Fails, RollsBack, Refunds, Bills, Swept, RefundedLate, Dies,
     Forgotten, SameCharge, Charged, Marked
<1>3. k \in sweeper'.owed => "swept" \in marks'[k] /\ job'[k].status # "absent"
  <2>1. k \in sweeper'.owed => k \in sweeper.owed \/ Swept(k)
    BY DEF JobStep, ByAttempt, ByOthers, Unmoved, Ages, PlainMove, PlainLeave, Starts,
       Interrupted, Revives, Skips, Commits, Fails, RollsBack, Refunds, Bills, RefundedLate, Dies,
       Forgotten, Moves, Leaves, SameOwed
  <2>2. Swept(k) => "swept" \in marks'[k] /\ job[k].status # "absent"
    BY DEF Swept, Marked, Active
  <2> QED BY <1>2, <2>1, <2>2 DEF SettleOk
<1>4. At(k, "idle") /\ k \notin queue => At(k, "idle")' /\ k \notin queue'
  BY DEF JobStep, ByAttempt, ByOthers, Unmoved, Ages, PlainMove, PlainLeave, Starts, Interrupted,
     Revives, Skips, Commits, Fails, RollsBack, Refunds, Bills, Swept, RefundedLate, Dies,
     Forgotten, Moves, Leaves, SameLife, SameAttempt, SameQueue, At
<1>5. Awaited(k)' => At(k, "idle")' /\ k \notin queue'
  BY <1>4 DEF SettleOk
<1>6. Spent(k) => Spent(k)'
  BY <1>4 DEF Spent
<1>7. ASSUME ~Disturbed(k)', settled'[k] # 0
      PROVE  settled'[k] = 1 /\ (att'[k].pc \in {"commit", "finish", "markFailed"} \/ Spent(k)')
  <2>0. /\ ~Disturbed(k) /\ k \notin sweeper.owed
        /\ ~Interrupted(k) /\ ~Dies(k) /\ ~RollsBack(k) /\ ~Swept(k)
    BY <1>2, <1>7 DEF Disturbed, SettleOk, Interrupted, Dies, RollsBack, Swept, Marked
  <2>1. CASE Unmoved(k) \/ Ages(k)
    BY <1>6, <1>7, <2>0, <2>1 DEF SettleOk, Unmoved, Ages, SameCharge, SameLife, SameAttempt
  <2>2. CASE PlainMove(k) \/ Starts(k) \/ Revives(k) \/ Skips(k)
    <3>1. settled[k] # 0 /\ att[k].pc \notin {"commit", "finish", "markFailed"} /\ ~Spent(k)
      BY <1>7, <2>2 DEF PlainMove, Starts, Revives, Skips, Moves, SameCharge, Spent, At
    <3> QED BY <2>0, <3>1 DEF SettleOk
  <2>3. CASE Commits(k)
    BY <1>7, <2>0, <2>3 DEF SettleOk, Commits, Moves, SameCharge, Spent, At
  <2>4. CASE PlainLeave(k) \/ Fails(k)
    <3>1. settled[k] = 1 /\ settled'[k] = 1 /\ At(k, "idle")' /\ k \notin queue'
      BY <1>7, <2>0, <2>4 DEF SettleOk, PlainLeave, Fails, Leaves, SameCharge, At
    <3>2. ~Awaited(k)
      BY <2>0, <3>1 DEF SettleOk, Spent, At
    <3> QED BY <3>1, <3>2 DEF Spent
  <2>5. CASE Refunds(k) \/ Bills(k)
    <3>1. /\ att[k].pc \in {"failing", "notopicRefund", "phase3"} /\ ~Awaited(k)
          /\ Charged(k)
      BY <2>5 DEF Refunds, Bills, Moves, Leaves, SettleOk, At
    <3>2. settled[k] = 0
      BY <2>0, <3>1 DEF SettleOk, Spent, At
    <3>3. settled'[k] = 1
      BY <1>7, <3>1, <3>2 DEF Charged, Marked
    <3>4. att'[k].pc \in {"commit", "markFailed"} \/ (At(k, "idle")' /\ k \notin queue')
      BY <2>5 DEF Refunds, Bills, Moves, Leaves, At
    <3> QED BY <3>1, <3>3, <3>4 DEF Spent
  <2>6. ~RefundedLate(k) /\ ~Forgotten(k)
    BY <2>0 DEF RefundedLate, Forgotten
  <2> QED BY <2>0, <2>1, <2>2, <2>3, <2>4, <2>5, <2>6 DEF JobStep, ByAttempt, ByOthers
<1> QED BY <1>1, <1>3, <1>5, <1>7 DEF SettleOk

LEMMA SettleStep ==
  ASSUME IInv, EnqueuedOnce, [Next]_vars, NEW k \in Jobs, SettleOk(k)
  PROVE  SettleOk(k)'
<1>1. TypeOK
  BY DEF IInv
<1>2. CASE \E r \in Requests : CreateJob(r, k) \/ Enqueue(r, k)
  BY <1>2, SettleCreate, SettleEnqueue
<1>3. CASE ~(\E r \in Requests : CreateJob(r, k) \/ Enqueue(r, k))
  <2>1. JobStep(k) /\ ~ByIngest(k)
    BY <1>1, <1>3, JobSteps DEF ByIngest
  <2>2. Awaited(k)' => Awaited(k)
    BY <1>1, <1>3, AwaitedSteps
  <2> QED BY <1>1, <2>1, <2>2, RowsKept, SettleOthers
<1> QED BY <1>2, <1>3

(* The exits of the job settle its pre-charge once; a second settlement    *)
(* has a cause that is recorded: the sweeper gave the row up, the attempt  *)
(* was interrupted, or phase 3 rolled back after the budget was charged.   *)
THEOREM SecondSettlementHasCause == Spec => []DoubleSettleHasCause
<1> DEFINE Inv == TypeOK /\ EnqueuedOnce /\ \A k \in Jobs : SettleOk(k)
<1>1. Init => Inv
  <2> SUFFICES ASSUME Init PROVE Inv
    OBVIOUS
  <2>1. \A r \in Requests : req[r].enq = {}
    BY DEF Init
  <2>2. \A k \in Jobs : ~Awaited(k)
    BY <2>1 DEF Awaited, Unsent
  <2> QED BY <2>1, <2>2, TypeInit DEF Init, SettleOk, EnqueuedOnce
<1>2. IInv /\ Inv /\ [Next]_vars => Inv'
  BY SettleStep, EnqueuedOnceStep, IInvStep DEF IInv
<1>3. Inv => DoubleSettleHasCause
  <2> SUFFICES ASSUME Inv, NEW k \in Jobs, settled[k] > 1
               PROVE  marks[k] \cap {"swept", "interrupted", "rolledBack"} # {}
    BY DEF DoubleSettleHasCause
  <2>1. settled[k] \in Nat /\ settled[k] # 0 /\ settled[k] # 1
    BY DEF TypeOK
  <2>2. Disturbed(k)
    BY <2>1 DEF SettleOk
  <2> QED BY <2>2 DEF Disturbed
<1> HIDE DEF Inv
<1> QED BY <1>1, <1>2, <1>3, Invariance, PTL DEF Spec

---------------------------------------------------------------------------
(* The counters of a response.  Between transaction 1 and the end of       *)
(* transaction 2 one saved conversation is in none of the other counters.  *)

InFlight(rec) == IF rec.pc \in {"charge", "txn2"} THEN 1 ELSE 0

Balanced(rec) ==
  /\ IsFiniteSet(rec.enq)
  /\ rec.saved = Cardinality(rec.enq) + rec.skipBudget + rec.skipError + InFlight(rec)

AccountOk(rec) == rec.pc # "dead" => Balanced(rec)

(* A step that leaves the counters alone keeps the balance unless it       *)
(* enters or leaves the two transactions.                                  *)
LEMMA SameCounters ==
  ASSUME NEW rec, NEW new, Balanced(rec), InFlight(new) = InFlight(rec),
         new.enq = rec.enq, new.saved = rec.saved,
         new.skipBudget = rec.skipBudget, new.skipError = rec.skipError
  PROVE  Balanced(new)
BY DEF Balanced

LEMMA BalancedSteps ==
  ASSUME NEW rec \in Request, Balanced(rec)
  PROVE  /\ rec.pc = "idle" => \A body : Balanced(Begin(rec, body))
         /\ rec.pc = "loop" => \A u : Balanced(TakeUp(rec, u))
         /\ rec.pc = "save" => Balanced(Continue(rec)) /\ Balanced(Saved(rec))
         /\ rec.pc = "charge" => Balanced(OverBudget(rec))
         /\ rec.pc = "txn2" => /\ Balanced(Failed(rec))
                               /\ \A j : j \notin rec.enq => Balanced(Created(rec, j))
         /\ rec.pc = "enqueue" => Balanced(Leaving(rec, "done"))
<1>0. /\ rec.saved \in Nat /\ rec.skipBudget \in Nat /\ rec.skipError \in Nat
      /\ IsFiniteSet(rec.enq) /\ Cardinality(rec.enq) \in Nat
  BY FS_CardinalityType DEF Request, Balanced
<1>1. ASSUME rec.pc = "idle", NEW body PROVE Balanced(Begin(rec, body))
  <2> DEFINE new == Begin(rec, body)
  <2>1. /\ new.pc = "loop" /\ new.enq = rec.enq /\ new.saved = rec.saved
        /\ new.skipBudget = rec.skipBudget /\ new.skipError = rec.skipError
    BY DEF Begin, Request
  <2> HIDE DEF new
  <2>2. Balanced(new)
    BY <1>1, <2>1, SameCounters DEF InFlight
  <2> QED BY <2>2 DEF new
<1>2. ASSUME rec.pc = "loop", NEW u PROVE Balanced(TakeUp(rec, u))
  <2> DEFINE new == TakeUp(rec, u)
  <2>1. /\ new.pc = "save" /\ new.enq = rec.enq /\ new.saved = rec.saved
        /\ new.skipBudget = rec.skipBudget /\ new.skipError = rec.skipError
    BY DEF TakeUp, Request
  <2> HIDE DEF new
  <2>2. Balanced(new)
    BY <1>2, <2>1, SameCounters DEF InFlight
  <2> QED BY <2>2 DEF new
<1>3. ASSUME rec.pc = "save" PROVE Balanced(Continue(rec)) /\ Balanced(Saved(rec))
  <2>1. /\ Continue(rec).pc = "loop" /\ Continue(rec).enq = rec.enq
        /\ Continue(rec).saved = rec.saved /\ Continue(rec).skipBudget = rec.skipBudget
        /\ Continue(rec).skipError = rec.skipError
    BY DEF Continue, Request
  <2>2. /\ Saved(rec).pc = "charge" /\ Saved(rec).enq = rec.enq
        /\ Saved(rec).saved = rec.saved + 1 /\ Saved(rec).skipBudget = rec.skipBudget
        /\ Saved(rec).skipError = rec.skipError
    BY DEF Saved, Request
  <2>3. Balanced(Continue(rec))
    BY <1>3, <2>1, SameCounters DEF InFlight
  <2>4. Balanced(Saved(rec))
    BY <1>0, <1>3, <2>2 DEF InFlight, Balanced
  <2> QED BY <2>3, <2>4
<1>4. ASSUME rec.pc = "charge" PROVE Balanced(OverBudget(rec))
  <2>1. /\ OverBudget(rec).pc = "loop" /\ OverBudget(rec).enq = rec.enq
        /\ OverBudget(rec).saved = rec.saved /\ OverBudget(rec).skipError = rec.skipError
        /\ OverBudget(rec).skipBudget = rec.skipBudget + 1
    BY DEF OverBudget, Request
  <2> QED BY <1>0, <1>4, <2>1 DEF InFlight, Balanced
<1>5. ASSUME rec.pc = "txn2" PROVE Balanced(Failed(rec))
  <2>1. /\ Failed(rec).pc = "loop" /\ Failed(rec).enq = rec.enq
        /\ Failed(rec).saved = rec.saved /\ Failed(rec).skipBudget = rec.skipBudget
        /\ Failed(rec).skipError = rec.skipError + 1
    BY DEF Failed, Request
  <2> QED BY <1>0, <1>5, <2>1 DEF InFlight, Balanced
<1>6. ASSUME rec.pc = "txn2", NEW j, j \notin rec.enq PROVE Balanced(Created(rec, j))
  <2>1. /\ Created(rec, j).pc = "loop" /\ Created(rec, j).enq = rec.enq \cup {j}
        /\ Created(rec, j).saved = rec.saved /\ Created(rec, j).skipBudget = rec.skipBudget
        /\ Created(rec, j).skipError = rec.skipError
    BY DEF Created, Request
  <2>2. IsFiniteSet(rec.enq \cup {j}) /\ Cardinality(rec.enq \cup {j}) = Cardinality(rec.enq) + 1
    BY <1>0, <1>6, FS_AddElement
  <2> QED BY <1>0, <1>6, <2>1, <2>2 DEF InFlight, Balanced
<1>7. ASSUME rec.pc = "enqueue" PROVE Balanced(Leaving(rec, "done"))
  <2>1. /\ Leaving(rec, "done").pc = "done" /\ Leaving(rec, "done").enq = rec.enq
        /\ Leaving(rec, "done").saved = rec.saved
        /\ Leaving(rec, "done").skipBudget = rec.skipBudget
        /\ Leaving(rec, "done").skipError = rec.skipError
    BY DEF Leaving, Request
  <2> QED BY <1>7, <2>1, SameCounters DEF InFlight
<1> QED BY <1>1, <1>2, <1>3, <1>4, <1>5, <1>6, <1>7

LEMMA AccountIngest ==
  ASSUME IInv, NEW r \in Requests, Ingest(r), AccountOk(req[r])
  PROVE  AccountOk(req'[r])
<1>0. TypeOK /\ EnqueuedRowsExist /\ req \in [Requests -> Request] /\ req[r] \in Request
  BY DEF IInv, TypeOK
<1>1. req[r].pc \notin {"done", "dead"}
  BY DEF Ingest, StartRequest, SaveConversation, PreCharge, Txn2Error, AbortRequest, EndLoop,
     Respond, DedupeCheck, CreateJob, Enqueue
<1>2. Balanced(req[r])
  BY <1>1 DEF AccountOk
<1>3. CASE StartRequest(r) \/ SaveConversation(r) \/ Txn2Error(r) \/ Respond(r)
  <2>1. Balanced(req'[r])
    BY <1>0, <1>2, <1>3, BalancedSteps DEF StartRequest, SaveConversation, Txn2Error, Respond
  <2> QED BY <2>1 DEF AccountOk
<1>4. ASSUME NEW pc, req' = [req EXCEPT ![r].pc = pc],
             pc \in {"charge", "txn2"} <=> req[r].pc \in {"charge", "txn2"}
      PROVE  AccountOk(req'[r])
  <2> DEFINE new == req'[r]
  <2>1. /\ new.pc = pc /\ new.enq = req[r].enq /\ new.saved = req[r].saved
        /\ new.skipBudget = req[r].skipBudget /\ new.skipError = req[r].skipError
    BY <1>0, <1>4 DEF Request
  <2> HIDE DEF new
  <2>2. Balanced(new)
    BY <1>2, <1>4, <2>1, SameCounters DEF InFlight
  <2> QED BY <2>2 DEF AccountOk, new
<1>5. CASE PreCharge(r)
  <2>1. CASE req' = [req EXCEPT ![r] = OverBudget(@)]
    <3>1. Balanced(req'[r])
      BY <1>0, <1>2, <1>5, <2>1, BalancedSteps DEF PreCharge
    <3> QED BY <3>1 DEF AccountOk
  <2>2. CASE req' = [req EXCEPT ![r].pc = "txn2"]
    BY <1>4, <1>5, <2>2 DEF PreCharge
  <2> QED BY <1>5, <2>1, <2>2 DEF PreCharge
<1>6. CASE EndLoop(r)
  BY <1>4, <1>6 DEF EndLoop
<1>7. CASE AbortRequest(r)
  <2>1. req'[r].pc = "dead"
    BY <1>0, <1>7 DEF AbortRequest, Leaving, Request
  <2> QED BY <2>1 DEF AccountOk
<1>8. ASSUME NEW u \in Uploads, DedupeCheck(r, u) PROVE AccountOk(req'[r])
  <2>1. CASE req' = [req EXCEPT ![r] = TakeUp(@, u)]
    <3>1. Balanced(req'[r])
      BY <1>0, <1>2, <1>8, <2>1, BalancedSteps DEF DedupeCheck
    <3> QED BY <3>1 DEF AccountOk
  <2>2. CASE req' = [req EXCEPT ![r].todo = @ \ {u}]
    <3> DEFINE new == req'[r]
    <3>1. /\ new.pc = req[r].pc /\ new.enq = req[r].enq /\ new.saved = req[r].saved
          /\ new.skipBudget = req[r].skipBudget /\ new.skipError = req[r].skipError
      BY <1>0, <2>2 DEF Request
    <3> HIDE DEF new
    <3>2. Balanced(new)
      BY <1>2, <3>1, SameCounters DEF InFlight
    <3> QED BY <3>2 DEF AccountOk, new
  <2> QED BY <1>8, <2>1, <2>2 DEF DedupeCheck
<1>9. ASSUME NEW j \in Jobs, CreateJob(r, j) PROVE AccountOk(req'[r])
  <2>1. j \notin req[r].enq /\ req[r].pc = "txn2" /\ req'[r] = Created(req[r], j)
    BY <1>0, <1>9 DEF CreateJob, EnqueuedRowsExist
  <2>2. Balanced(req'[r])
    BY <1>0, <1>2, <2>1, BalancedSteps
  <2> QED BY <2>2 DEF AccountOk
<1>10. ASSUME NEW j \in Jobs, Enqueue(r, j) PROVE AccountOk(req'[r])
  <2> DEFINE new == req'[r]
  <2>1. /\ new.pc = req[r].pc /\ new.enq = req[r].enq /\ new.saved = req[r].saved
        /\ new.skipBudget = req[r].skipBudget /\ new.skipError = req[r].skipError
    BY <1>0, <1>10 DEF Enqueue, Request
  <2> HIDE DEF new
  <2>2. Balanced(new)
    BY <1>2, <2>1, SameCounters DEF InFlight
  <2> QED BY <2>2 DEF AccountOk, new
<1> QED BY <1>3, <1>5, <1>6, <1>7, <1>8, <1>9, <1>10 DEF Ingest

(* Whatever interrupts, skips or fails its conversations, the numbers an   *)
(* IngestConversationResponse reports add up to the conversations saved.   *)
THEOREM ResponseAddsUp == Spec => []ResponseAccounts
<1> DEFINE Inv == \A r \in Requests : AccountOk(req[r])
<1>1. Init => Inv
  <2>1. IsFiniteSet({}) /\ Cardinality({}) = 0
    BY FS_EmptySet
  <2> SUFFICES ASSUME Init, NEW r \in Requests PROVE Balanced(req[r])
    BY DEF AccountOk
  <2>2. /\ req[r].pc = "idle" /\ req[r].enq = {} /\ req[r].saved = 0
        /\ req[r].skipBudget = 0 /\ req[r].skipError = 0
    BY DEF Init
  <2> QED BY <2>1, <2>2 DEF Balanced, InFlight
<1>2. IInv /\ Inv /\ [Next]_vars => Inv'
  <2> SUFFICES ASSUME IInv, Inv, [Next]_vars, NEW r \in Requests PROVE AccountOk(req'[r])
    OBVIOUS
  <2>0. req \in [Requests -> Request]
    BY DEF IInv, TypeOK
  <2>1. req'[r] = req[r] \/ Ingest(r) \/ req'[r].pc = "dead"
    <3>1. ASSUME NEW q \in Requests, Ingest(q) PROVE q = r \/ req'[r] = req[r]
      BY <2>0, <3>1 DEF Ingest, StartRequest, SaveConversation, PreCharge, Txn2Error,
         AbortRequest, EndLoop, Respond, DedupeCheck, CreateJob, Enqueue
    <3>2. CASE ApiRestart
      <4>1. Leaving(req[r], "dead").pc = "dead"
        BY <2>0 DEF Leaving, Request
      <4> QED BY <3>2, <4>1 DEF ApiRestart
    <3>3. CASE ~(\E q \in Requests : Ingest(q)) /\ ~ApiRestart
      BY <3>3, RequestsOthers
    <3> QED BY <3>1, <3>2, <3>3
  <2>2. Ingest(r) => AccountOk(req'[r])
    BY AccountIngest
  <2> QED BY <2>1, <2>2 DEF AccountOk
<1>3. IInv /\ Inv => ResponseAccounts
  <2> SUFFICES ASSUME IInv, Inv, NEW r \in Requests, req[r].pc = "done"
               PROVE  req[r].saved = Cardinality(req[r].enq) + req[r].skipBudget + req[r].skipError
    BY DEF ResponseAccounts
  <2>1. Balanced(req[r]) /\ InFlight(req[r]) = 0
    BY DEF AccountOk, InFlight
  <2>2. /\ Cardinality(req[r].enq) \in Nat
        /\ req[r].skipBudget \in Nat /\ req[r].skipError \in Nat
    BY <2>1, FS_CardinalityType DEF Balanced, IInv, TypeOK, Request
  <2> QED BY <2>1, <2>2 DEF Balanced
<1> HIDE DEF Inv
<1> QED BY <1>1, <1>2, <1>3, Invariance, PTL DEF Spec

---------------------------------------------------------------------------
(* While no worker has died.  A job is attempted once, its row runs as     *)
(* long as the attempt does, and the row's clock and the attempt's         *)
(* deadline together stay within job_timeout.                              *)

Calm == faults.crash = 0 /\ faults.stop = 0

Fresh(k) == Awaited(k) \/ (At(k, "idle") /\ k \in queue) \/ At(k, "phase1")
InTime(k) == job[k].age + att[k].left <= JobTimeout

LiveOk(k) ==
  /\ Fresh(k) => job[k].status \notin {"running", "completed"}
  /\ att[k].pc \in Past1 => job[k].status = "running"
  /\ att[k].pc \in {"finish", "notopicRefund"} => job[k].status # "running"
  /\ ~At(k, "idle") => att[k].left <= JobTimeout
  /\ ~At(k, "idle") /\ job[k].status = "running" => InTime(k)

LEMMA FaultsKept ==
  ASSUME TypeOK, [Next]_vars, ~WorkerCrash, ~WorkerStop
  PROVE  Calm' <=> Calm
<1>1. CASE ApiRestart
  BY <1>1 DEF ApiRestart, Calm, TypeOK
<1>2. CASE ~ApiRestart
  <2>1. faults' = faults
    BY <1>2 DEF Next, vars, Ingest, StartRequest, SaveConversation, PreCharge, Txn2Error,
       AbortRequest, EndLoop, Respond, DedupeCheck, CreateJob, Enqueue, ingestFrame, Arq, Work,
       Pickup, GiveUp, Timeout, Phase1Skip, Phase1, Phase1Error, Phase2, MarkSkippedNoTopic,
       NoTopicRefund, Phase3Skip, Phase3Write, Phase3Commit, PublishProgress, PersistError,
       FailRefund, MarkJobFailed, workerFrame, RefundSweptRow, SweepRows, SweepError, Tick
  <2> QED BY <2>1 DEF Calm
<1> QED BY <1>1, <1>2

LEMMA CalmSteps ==
  ASSUME TypeOK, [Next]_vars, Calm'
  PROVE  Calm /\ ~WorkerCrash /\ ~WorkerStop
<1>1. ~WorkerCrash /\ ~WorkerStop
  BY DEF TypeOK, Calm, WorkerCrash, WorkerStop
<1> QED BY <1>1, FaultsKept

LEMMA CalmKept ==
  ASSUME MaxCrashes = 0, MaxStops = 0, TypeOK, [Next]_vars, Calm
  PROVE  Calm'
<1>1. ~WorkerCrash /\ ~WorkerStop
  BY DEF Calm, WorkerCrash, WorkerStop
<1> QED BY <1>1, FaultsKept

LEMMA LiveOthers ==
  ASSUME IInv, TypeOK', NEW k \in Jobs, SettleOk(k), LiveOk(k), JobStep(k), ~ByIngest(k),
         ~Dies(k), Awaited(k)' => Awaited(k)
  PROVE  LiveOk(k)'
<1>0. /\ job[k] \in Row /\ job[k].age \in Nat /\ att[k] \in Attempt /\ att[k].left \in Nat
      /\ JobTimeout \in Nat /\ RunningThreshold \in Nat
      /\ At(k, "idle") \/ job[k].status # "absent"
  BY ConstantsAssumption, AgeCapAssumption DEF IInv, TypeOK, Row, Attempt, WorkerNeverAheadOfRow
<1>1. ~At(k, "idle") => ~Awaited(k)'
  BY DEF SettleOk
<1>2. CASE Unmoved(k)
  <2>1. Fresh(k)' => Fresh(k)
    BY <1>2 DEF Unmoved, SameLife, SameAttempt, SameQueue, Fresh, At
  <2> QED BY <1>2, <2>1 DEF LiveOk, Unmoved, SameRow, SameLife, SameAttempt, InTime, At
<1>3. CASE Ages(k)
  <2>1. Fresh(k)' => Fresh(k)
    BY <1>3 DEF Ages, SameQueue, Fresh, At
  <2>2. ~At(k, "idle") => att'[k].left = att[k].left - 1
    BY <1>3 DEF Ages, At
  <2>3. job'[k].age <= job[k].age + 1 /\ job'[k].age \in Nat
    BY <1>3, AgeCapAssumption DEF Ages, TypeOK, Row
  <2> QED BY <1>0, <1>3, <2>1, <2>2, <2>3 DEF LiveOk, Ages, InTime, At
<1>4. CASE PlainMove(k)
  <2>1. ~Fresh(k)' /\ att'[k].left = att[k].left /\ job'[k] = job[k]
    BY <1>1, <1>4 DEF PlainMove, Moves, SameRow, Fresh, At
  <2>2. att'[k].pc \in Past1 => att[k].pc \in Past1
    BY <1>4 DEF PlainMove, Moves, Past1
  <2> QED BY <1>4, <2>1, <2>2 DEF LiveOk, PlainMove, Moves, InTime, At
<1>5. CASE PlainLeave(k) \/ Interrupted(k)
  <2>1. job'[k] = job[k] /\ att'[k].pc = "idle" /\ k \notin queue'
    BY <1>5 DEF PlainLeave, Interrupted, Leaves, SameRow
  <2>2. Fresh(k)' => Fresh(k)
    BY <2>1 DEF Fresh, At
  <2> QED BY <2>1, <2>2 DEF LiveOk, Past1, At
<1>6. CASE Starts(k)
  <2>1. Fresh(k)
    BY <1>6 DEF Starts, Fresh, At
  <2> QED BY <1>0, <1>6, <2>1 DEF LiveOk, Starts, SameRow, Past1, At
<1>7. CASE Revives(k)
  <2>1. At(k, "phase1") /\ ~At(k, "idle") /\ CanStart(job[k])
    <3>1. At(k, "phase1")
      BY <1>7 DEF Revives, Moves, At
    <3>2. job[k].status \notin {"absent", "running", "completed"}
      BY <1>0, <3>1 DEF LiveOk, Fresh, At
    <3> QED BY <1>0, <3>1, <3>2 DEF CanStart, Row, Active, Terminal, At
  <2>2. /\ job'[k].status = "running" /\ job'[k].age = 0
        /\ att'[k].pc = "llm" /\ att'[k].left = att[k].left
    BY <1>7, <2>1 DEF Revives, Moves
  <2>3. ~Fresh(k)'
    BY <1>1, <2>1, <2>2 DEF Fresh, At
  <2> QED BY <1>0, <2>1, <2>2, <2>3 DEF LiveOk, InTime
<1>8. CASE Skips(k) \/ Commits(k)
  <2>1. att[k].pc \in Past1 /\ ~At(k, "idle") /\ att'[k].pc \in {"finish", "notopicRefund"}
        /\ att'[k].left = att[k].left
    BY <1>8 DEF Skips, Commits, Moves, Past1, At
  <2>2. job'[k].status = "completed"
    BY <1>8, <2>1 DEF LiveOk, Skips, Commits, Closes, Active
  <2>3. ~Fresh(k)'
    BY <1>1, <2>1 DEF Fresh, At
  <2> QED BY <2>1, <2>2, <2>3 DEF LiveOk, Past1
<1>9. CASE Fails(k)
  <2>1. ~At(k, "idle") /\ At(k, "idle")' /\ k \notin queue'
    BY <1>9 DEF Fails, Leaves, At
  <2>2. ~Fresh(k)'
    BY <1>1, <2>1 DEF Fresh, At
  <2> QED BY <2>1, <2>2 DEF LiveOk, Past1, At
<1>10. CASE RollsBack(k) \/ Bills(k)
  <2>1. /\ att[k].pc \in Past1 /\ ~At(k, "idle") /\ att'[k].pc \in {"failing", "commit"}
        /\ att'[k].left = att[k].left /\ job'[k] = job[k]
    BY <1>10 DEF RollsBack, Bills, Moves, SameRow, Past1, At
  <2>2. ~Fresh(k)'
    BY <1>1, <2>1 DEF Fresh, At
  <2> QED BY <2>1, <2>2 DEF LiveOk, InTime
<1>11. CASE Refunds(k)
  <2>1. CASE Moves(k, {"failing"}, {"markFailed"})
    <3>1. ~At(k, "idle") /\ att'[k].pc = "markFailed" /\ att'[k].left = att[k].left
          /\ job'[k] = job[k]
      BY <1>11, <2>1 DEF Refunds, Moves, SameRow, At
    <3>2. ~Fresh(k)'
      BY <1>1, <3>1 DEF Fresh, At
    <3> QED BY <3>1, <3>2 DEF LiveOk, InTime, Past1
  <2>2. CASE Leaves(k, {"notopicRefund"})
    <3>1. ~At(k, "idle") /\ At(k, "idle")' /\ k \notin queue'
      BY <2>2 DEF Leaves, At
    <3>2. ~Fresh(k)'
      BY <1>1, <3>1 DEF Fresh, At
    <3> QED BY <3>1, <3>2 DEF LiveOk, Past1, At
  <2> QED BY <1>11, <2>1, <2>2 DEF Refunds
<1>12. CASE Swept(k)
  <2>1. At(k, "idle") \/ job[k].status # "running"
    BY <1>0, <1>12, ThresholdAssumption DEF Swept, LiveOk, InTime
  <2>2. /\ job'[k].status = "failed" /\ att'[k].pc = att[k].pc
        /\ ~At(k, "idle") => att'[k].left = att[k].left
    BY <1>12 DEF Swept, SameLife, SameAttempt, At
  <2> QED BY <2>1, <2>2 DEF LiveOk, Past1, At
<1>13. CASE RefundedLate(k) \/ Forgotten(k)
  <2>1. Fresh(k)' => Fresh(k)
    BY <1>13 DEF RefundedLate, Forgotten, SameLife, SameAttempt, SameQueue, Fresh, At
  <2> QED BY <1>13, <2>1 DEF LiveOk, RefundedLate, Forgotten, SameRow, SameLife, SameAttempt,
             InTime, At
<1> QED BY <1>2, <1>3, <1>4, <1>5, <1>6, <1>7, <1>8, <1>9, <1>10, <1>11, <1>12, <1>13
        DEF JobStep, ByAttempt, ByOthers

LEMMA LiveStep ==
  ASSUME IInv, EnqueuedOnce, [Next]_vars, Calm', NEW k \in Jobs, SettleOk(k), LiveOk(k)
  PROVE  LiveOk(k)'
<1>0. TypeOK /\ TypeOK' /\ ~WorkerCrash /\ ~WorkerStop
  BY CalmSteps, IInvStep DEF IInv
<1>1. ASSUME NEW r \in Requests, CreateJob(r, k) PROVE LiveOk(k)'
  <2>1. att' = att /\ job[k].status = "absent" /\ job'[k].status = "pending"
    BY <1>0, <1>1 DEF CreateJob, CreatePending, ingestFrame, TypeOK
  <2>2. At(k, "idle")
    BY <2>1 DEF IInv, WorkerNeverAheadOfRow
  <2> QED BY <2>1, <2>2 DEF LiveOk, Past1, At
<1>2. ASSUME NEW r \in Requests, Enqueue(r, k) PROVE LiveOk(k)'
  <2>1. att' = att /\ job' = job /\ Awaited(k)
    BY <1>0, <1>2, EnqueueSends DEF Enqueue
  <2>2. Fresh(k) /\ At(k, "idle")
    BY <2>1 DEF Fresh, SettleOk
  <2> QED BY <2>1, <2>2 DEF LiveOk, Past1, At
<1>3. CASE ~(\E r \in Requests : CreateJob(r, k) \/ Enqueue(r, k))
  <2>1. JobStep(k) /\ ~ByIngest(k) /\ ~Dies(k)
    BY <1>0, <1>3, JobSteps DEF ByIngest, Dies
  <2>2. Awaited(k)' => Awaited(k)
    BY <1>0, <1>3, AwaitedSteps
  <2> QED BY <1>0, <2>1, <2>2, LiveOthers
<1> QED BY <1>1, <1>2, <1>3

(* Rows carry what an upload carried; a conversation that one platform     *)
(* reaches has one slot.                                                   *)
RowsOfUploads ==
  \A k \in Jobs : job[k].status # "absent" =>
    \E u \in Uploads : job[k].conv = ConvOf[u] /\ job[k].source = SourceOf[u]

OnePlatform(c) == \A u, v \in Uploads : ConvOf[u] = c /\ ConvOf[v] = c => SourceOf[u] = SourceOf[v]

LEMMA UploadRowsStep ==
  ASSUME IInv, [Next]_vars, RowsOfUploads
  PROVE  RowsOfUploads'
<1> SUFFICES ASSUME NEW k \in Jobs, job'[k].status # "absent"
             PROVE  \E u \in Uploads : job'[k].conv = ConvOf[u] /\ job'[k].source = SourceOf[u]
  BY DEF RowsOfUploads
<1>0. TypeOK /\ UploadInHand /\ job \in [Jobs -> Row]
  BY DEF IInv, TypeOK
<1>1. CASE job[k].status # "absent"
  BY <1>0, <1>1, RowsKept DEF RowsOfUploads, SameOwner
<1>2. CASE job[k].status = "absent"
  <2>1. PICK r \in Requests : CreateJob(r, k)
    BY <1>0, <1>2, RowsKept
  <2>2. /\ req[r].cur \in Uploads
        /\ job'[k].conv = ConvOf[req[r].cur] /\ job'[k].source = SourceOf[req[r].cur]
    BY <1>0, <2>1 DEF UploadInHand, CreateJob, CreatePending
  <2> QED BY <2>2
<1> QED BY <1>1, <1>2

LEMMA OneRunning ==
  ASSUME IInv, RowsOfUploads, \A k \in Jobs : LiveOk(k), NEW c \in Convs, OnePlatform(c),
         NEW j \in Jobs, NEW k \in Jobs, att[j].pc \in Past1, att[k].pc \in Past1,
         job[j].conv = c, job[k].conv = c
  PROVE  j = k
<1>1. job[j].status = "running" /\ job[k].status = "running"
  BY DEF LiveOk
<1>2. job[j].source = job[k].source
  BY <1>1 DEF RowsOfUploads, OnePlatform
<1> QED BY <1>1, <1>2 DEF IInv, OneActivePerSlot, InSlot, Active

LEMMA BatchesCommitted ==
  ASSUME TypeOK, [Next]_vars, NEW c \in Convs
  PROVE  \/ conv'[c].batches = conv[c].batches
         \/ /\ \E j \in Jobs : Phase3Commit(j) /\ job[j].conv = c
            /\ conv'[c].batches = conv[c].batches + 1
<1>0. conv \in [Convs -> Conversation] /\ conv[c] \in Conversation
  BY DEF TypeOK
<1>1. ASSUME NEW r \in Requests, SaveConversation(r) PROVE conv'[c].batches = conv[c].batches
  BY <1>0, <1>1 DEF SaveConversation, Conversation
<1>2. ASSUME NEW j \in Jobs, MarkSkippedNoTopic(j) PROVE conv'[c].batches = conv[c].batches
  BY <1>0, <1>2 DEF MarkSkippedNoTopic, Conversation
<1>3. ASSUME NEW j \in Jobs, Phase3Commit(j)
      PROVE  \/ conv'[c].batches = conv[c].batches
             \/ job[j].conv = c /\ conv'[c].batches = conv[c].batches + 1
  <2>1. CASE job[j].conv = c
    <3>1. conv' = [conv EXCEPT ![c].processed = TRUE, ![c].batches = @ + 1]
      BY <1>3, <2>1 DEF Phase3Commit
    <3> QED BY <1>0, <2>1, <3>1 DEF Conversation
  <2>2. CASE job[j].conv # c
    BY <1>0, <1>3, <2>2 DEF Phase3Commit
  <2> QED BY <2>1, <2>2
<1>4. ASSUME ~(\E r \in Requests : SaveConversation(r)),
             ~(\E j \in Jobs : MarkSkippedNoTopic(j) \/ Phase3Commit(j))
      PROVE  conv' = conv
  BY <1>4 DEF Next, vars, Ingest, StartRequest, PreCharge, Txn2Error, AbortRequest, EndLoop,
     Respond, DedupeCheck, CreateJob, Enqueue, Arq, Work, Pickup, GiveUp, Timeout, Phase1Skip,
     Phase1, Phase1Error, Phase2, NoTopicRefund, Phase3Skip, Phase3Write, PublishProgress,
     PersistError, FailRefund, MarkJobFailed, RefundSweptRow, SweepRows, SweepError, Tick,
     WorkerCrash, WorkerStop, ApiRestart
<1> QED BY <1>1, <1>2, <1>3, <1>4

BatchOk(c) ==
  /\ conv[c].batches <= 1
  /\ conv[c].batches # 0 => Processed(c)
  /\ \A k \in Jobs : At(k, "commit") /\ job[k].conv = c => ~Processed(c)

LEMMA BatchStep ==
  ASSUME IInv, RowsOfUploads, [Next]_vars, \A k \in Jobs : LiveOk(k),
         NEW c \in Convs, OnePlatform(c), BatchOk(c)
  PROVE  BatchOk(c)'
<1>0. TypeOK /\ RowsFilled /\ conv[c].batches \in Nat
  BY DEF IInv, TypeOK, Conversation
<1>1. ASSUME NEW j \in Jobs, MarkSkippedNoTopic(j) \/ Phase3Commit(j), job[j].conv = c,
             NEW k \in Jobs, att[k].pc \in Past1, job[k].conv = c
      PROVE  j = k
  <2>1. att[j].pc \in Past1
    BY <1>1 DEF MarkSkippedNoTopic, Phase3Commit, Past1, At
  <2> QED BY <1>1, <2>1, OneRunning
<1>2. ASSUME NEW k \in Jobs, At(k, "commit")', job'[k].conv = c, Processed(c)' PROVE FALSE
  <2>1. att[k].pc \in {"commit", "phase3"}
    BY <1>0, <1>2, BatchSteps DEF Bills, Moves, At
  <2>2. job[k].conv = c /\ job[k].status # "absent"
    BY <1>0, <1>2, <2>1, RowsKept DEF SameOwner, IInv, WorkerNeverAheadOfRow, At
  <2>3. ~Processed(c)
    BY <1>0, <1>2, <2>2, BatchSteps DEF BatchOk, Bills
  <2>4. PICK j \in Jobs : (MarkSkippedNoTopic(j) \/ Phase3Commit(j)) /\ job[j].conv = c
    BY <1>0, <1>2, <2>3, ProcessedKept
  <2>5. j = k
    BY <1>1, <2>1, <2>2, <2>4 DEF Past1
  <2>6. ~At(k, "commit")'
    BY <1>0, <2>4, <2>5, OwnPlaces DEF MarkSkippedNoTopic, Phase3Commit, At
  <2> QED BY <1>2, <2>6
<1>3. CASE conv'[c].batches = conv[c].batches
  <2>1. Processed(c) => Processed(c)'
    BY <1>0, ProcessedKept
  <2> QED BY <1>2, <1>3, <2>1 DEF BatchOk
<1>4. ASSUME NEW j \in Jobs, Phase3Commit(j), job[j].conv = c,
             conv'[c].batches = conv[c].batches + 1
      PROVE  BatchOk(c)'
  <2>1. ~Processed(c) /\ conv[c].batches = 0
    BY <1>0, <1>4 DEF BatchOk, Phase3Commit
  <2>2. Processed(c)'
    BY <1>0, <1>4, CommitProcesses DEF Processed
  <2> QED BY <1>2, <1>4, <2>1, <2>2 DEF BatchOk
<1> QED BY <1>0, <1>3, <1>4, BatchesCommitted

CalmInv ==
  /\ EnqueuedOnce /\ RowsOfUploads /\ \A k \in Jobs : SettleOk(k)
  /\ Calm => /\ \A k \in Jobs : LiveOk(k)
             /\ \A c \in Convs : OnePlatform(c) => BatchOk(c)

LEMMA CalmInvariance == Spec => []CalmInv
<1>1. Init => CalmInv
  <2> SUFFICES ASSUME Init PROVE CalmInv
    OBVIOUS
  <2>1. \A r \in Requests : req[r].enq = {}
    BY DEF Init
  <2>2. \A k \in Jobs : ~Awaited(k) /\ At(k, "idle") /\ k \notin queue /\ job[k].status = "absent"
    BY <2>1 DEF Init, Awaited, Unsent, NoAttempt, Absent, At
  <2>3. \A k \in Jobs : SettleOk(k) /\ LiveOk(k)
    BY <2>2 DEF Init, SettleOk, LiveOk, Fresh, Past1, At
  <2>4. \A c \in Convs : BatchOk(c)
    BY <2>2 DEF Init, BatchOk, At
  <2> QED BY <2>1, <2>2, <2>3, <2>4 DEF CalmInv, EnqueuedOnce, RowsOfUploads
<1>2. IInv /\ CalmInv /\ [Next]_vars => CalmInv'
  <2> SUFFICES ASSUME IInv, CalmInv, [Next]_vars PROVE CalmInv'
    OBVIOUS
  <2>1. EnqueuedOnce' /\ RowsOfUploads' /\ \A k \in Jobs : SettleOk(k)'
    BY EnqueuedOnceStep, UploadRowsStep, SettleStep DEF CalmInv
  <2>2. Calm' => Calm
    BY CalmSteps DEF IInv
  <2>3. ASSUME Calm', NEW k \in Jobs PROVE LiveOk(k)'
    BY <2>2, <2>3, LiveStep DEF CalmInv
  <2>4. ASSUME Calm', NEW c \in Convs, OnePlatform(c) PROVE BatchOk(c)'
    BY <2>2, <2>4, BatchStep DEF CalmInv
  <2> QED BY <2>1, <2>3, <2>4 DEF CalmInv, OnePlatform
<1> QED BY <1>1, <1>2, Invariance, PTL DEF Spec

(* As long as no worker has died, however often jobs fail or time out, a   *)
(* conversation that one platform reaches gets its entries once.           *)
THEOREM EntriesOnceWhileCalm ==
  Spec => [](Calm => \A c \in Convs : OnePlatform(c) => conv[c].batches <= 1)
<1>1. CalmInv => (Calm => \A c \in Convs : OnePlatform(c) => conv[c].batches <= 1)
  BY DEF CalmInv, BatchOk
<1> QED BY <1>1, CalmInvariance, PTL

LEMMA CalmAlways ==
  ASSUME MaxCrashes = 0, MaxStops = 0
  PROVE  Spec => []Calm
<1>1. Init => Calm
  BY DEF Init, Calm
<1>2. IInv /\ Calm /\ [Next]_vars => Calm'
  BY CalmKept DEF IInv
<1> QED BY <1>1, <1>2, Invariance, PTL DEF Spec

(* So with no worker faults and a platform per conversation the two        *)
(* idempotency checks and the unique index keep entries from being         *)
(* written twice.                                                          *)
THEOREM EntriesOnce ==
  ASSUME MaxCrashes = 0, MaxStops = 0, \A c \in Convs : OnePlatform(c)
  PROVE  Spec => []EntriesAtMostOnce
<1>1. Spec => []Calm
  BY CalmAlways
<1>2. CalmInv /\ Calm => EntriesAtMostOnce
  BY DEF CalmInv, BatchOk, EntriesAtMostOnce
<1> QED BY <1>1, <1>2, CalmInvariance, PTL

(* A live job's row is never older than the job's own time-out, which the  *)
(* running threshold exceeds: while no worker has died, the running sweep  *)
(* takes the row of no job that a worker is at.                            *)
LEMMA SweepSpares ==
  ASSUME IInv, CalmInv, Calm, [Next]_vars, NEW k \in Jobs, ~WorkerCrash, ~WorkerStop,
         job[k].status = "running", job'[k].status = "failed", ~At(k, "idle")
  PROVE  att'[k].pc = "idle"
<1>0. /\ TypeOK /\ LiveOk(k) /\ job[k].age \in Nat /\ att[k].left \in Nat
      /\ JobTimeout \in Nat /\ RunningThreshold \in Nat
  BY ConstantsAssumption, AgeCapAssumption DEF IInv, CalmInv, TypeOK, Row, Attempt
<1>1. ~Swept(k)
  BY <1>0, ThresholdAssumption DEF Swept, LiveOk, InTime
<1>2. job'[k].status # job[k].status
  OBVIOUS
<1>3. Revives(k) \/ Skips(k) \/ Commits(k) \/ Fails(k)
  BY <1>0, <1>1, <1>2, JobSteps DEF JobStep, ByAttempt, ByOthers, Unmoved, Ages, ByIngest,
     PlainMove, PlainLeave, Starts, Interrupted, RollsBack, Refunds, Bills, RefundedLate, Dies,
     Forgotten, SameRow
<1>4. ~Revives(k)
  BY <1>2 DEF Revives, CanStart, SameRow
<1>5. ~Skips(k) /\ ~Commits(k)
  BY DEF Skips, Commits, Closes, Active
<1> QED BY <1>3, <1>4, <1>5 DEF Fails, Leaves

(* With no worker faults, only the worker at a job fails its row.          *)
THEOREM LiveJobsSpared ==
  ASSUME MaxCrashes = 0, MaxStops = 0
  PROVE  Spec => SweepSparesLiveJob
<1> DEFINE Spared == \A j \in Jobs :
             job[j].status = "running" /\ job'[j].status = "failed" /\ ~At(j, "idle")
             => att'[j].pc = "idle"
<1>1. IInv /\ CalmInv /\ Calm /\ [Next]_vars => [Spared]_vars
  <2> SUFFICES ASSUME IInv, CalmInv, Calm, [Next]_vars, NEW k \in Jobs,
                      job[k].status = "running", job'[k].status = "failed", ~At(k, "idle")
               PROVE  att'[k].pc = "idle"
    OBVIOUS
  <2>1. ~WorkerCrash /\ ~WorkerStop
    BY DEF Calm, WorkerCrash, WorkerStop
  <2> QED BY <2>1, SweepSpares
<1>2. Spec => []Calm
  BY CalmAlways
<1>3. [Spared]_vars <=> [\A j \in Jobs :
             /\ job[j].status = "running" /\ job'[j].status = "failed"
             /\ ~At(j, "idle")
             => att'[j].pc = "idle"]_vars
  OBVIOUS
<1> HIDE DEF Spared
<1> QED BY <1>1, <1>2, <1>3, Invariance, CalmInvariance, PTL DEF Spec, SweepSparesLiveJob

---------------------------------------------------------------------------
(* How often a row can be made active.  Ingest does it once, each of arq's *)
(* tries at most once, and nothing else does.                              *)

TriesOk(k) == tries[k] <= MaxTries /\ (k \notin queue => At(k, "idle") /\ tries[k] = 0)

ActivationsLeft(k) ==
  IF job[k].status = "absent" THEN MaxTries + 1
  ELSE IF Awaited(k) THEN MaxTries
  ELSE IF k \in queue THEN MaxTries - tries[k] + IF At(k, "phase1") THEN 1 ELSE 0
  ELSE 0

RowsSettleDown ==
  [][\A k \in Jobs :
       /\ ActivationsLeft(k) \in 0 .. MaxTries + 1 /\ ActivationsLeft(k)' <= ActivationsLeft(k)
       /\ job[k].status \notin Active /\ job'[k].status \in Active =>
            ActivationsLeft(k)' < ActivationsLeft(k)]_vars

(* arq's counter and the queue change together.                            *)
LEMMA TriesSteps ==
  ASSUME TypeOK, [Next]_vars, NEW k \in Jobs
  PROVE  \/ Pickup(k) \/ Leave(k)
         \/ /\ tries'[k] = tries[k] /\ (k \in queue => k \in queue')
            /\ att'[k].pc = "phase1" => att[k].pc = "phase1"
            /\ att'[k].pc # "idle" => att[k].pc # "idle"
<1>0. tries \in [Jobs -> Nat] /\ att \in [Jobs -> Attempt]
  BY DEF TypeOK
<1>1. CASE UNCHANGED vars
  BY <1>1 DEF vars
<1>2. ASSUME NEW r \in Requests, Ingest(r)
      PROVE  tries' = tries /\ att' = att /\ queue \subseteq queue'
  BY <1>2 DEF Ingest, StartRequest, SaveConversation, PreCharge, Txn2Error, AbortRequest, EndLoop,
     Respond, DedupeCheck, CreateJob, Enqueue, ingestFrame
<1>3. ASSUME NEW j \in Jobs, j # k, Arq(j) \/ Work(j)
      PROVE  tries'[k] = tries[k] /\ SameLife(k)
  <2>1. Unmoved(k)
    BY <1>3, OtherJobs
  <2>2. Leave(j) => tries'[k] = tries[k]
    BY <1>0, <1>3 DEF Leave
  <2>3. tries'[k] = tries[k]
    BY <1>0, <1>3, <2>2 DEF Arq, Work, Pickup, GiveUp, Timeout, Phase1Skip, Phase1, Phase1Error,
       Phase2, MarkSkippedNoTopic, NoTopicRefund, Phase3Skip, Phase3Write, Phase3Commit,
       PublishProgress, PersistError, FailRefund, MarkJobFailed, arqVars
  <2> QED BY <2>1, <2>3 DEF Unmoved
<1>4. CASE Arq(k)
  BY <1>4 DEF Arq, GiveUp, Timeout
<1>5. CASE Work(k)
  <2>1. Leave(k) \/ UNCHANGED arqVars
    BY <1>5 DEF Work, Phase1Skip, Phase1, Phase1Error, Phase2, MarkSkippedNoTopic, NoTopicRefund,
       Phase3Skip, Phase3Write, Phase3Commit, PublishProgress, PersistError, FailRefund,
       MarkJobFailed
  <2>2. att[k].pc # "idle"
    BY <1>5 DEF Work, Phase1Skip, Phase1, Phase1Error, Phase2, MarkSkippedNoTopic, NoTopicRefund,
       Phase3Skip, Phase3Write, Phase3Commit, PublishProgress, PersistError, FailRefund,
       MarkJobFailed, At
  <2>3. att'[k].pc # "phase1"
    BY <1>5, <2>2, OwnWork DEF ByAttempt, PlainMove, PlainLeave, Starts, Interrupted, Revives,
       Skips, Commits, Fails, RollsBack, Refunds, Bills, Moves, Leaves
  <2> QED BY <2>1, <2>2, <2>3 DEF arqVars
<1>6. ASSUME NEW j \in Jobs, RefundSweptRow(j) PROVE UNCHANGED <<tries, att, queue>>
  BY <1>6 DEF RefundSweptRow
<1>7. CASE SweepRows \/ SweepError
  BY <1>7 DEF SweepRows, SweepError
<1>8. CASE Tick
  BY <1>0, <1>8, TickSteps DEF Tick, Ages
<1>9. CASE WorkerCrash \/ WorkerStop
  BY <1>9 DEF WorkerCrash, WorkerStop, NoAttempt
<1>10. CASE ApiRestart
  BY <1>10 DEF ApiRestart
<1> QED BY <1>1, <1>2, <1>3, <1>4, <1>5, <1>6, <1>7, <1>8, <1>9, <1>10
        DEF Next, SameLife, SameAttempt, SameQueue

LEMMA TriesStep ==
  ASSUME TypeOK, [Next]_vars, NEW k \in Jobs, TriesOk(k)
  PROVE  TriesOk(k)'
<1>0. /\ tries \in [Jobs -> Nat] /\ tries[k] \in Nat /\ att \in [Jobs -> Attempt]
      /\ MaxTries \in Nat
  BY ConstantsAssumption DEF TypeOK
<1>1. CASE Pickup(k)
  <2>1. tries'[k] = tries[k] + 1 /\ tries[k] < MaxTries /\ k \in queue'
    BY <1>0, <1>1 DEF Pickup
  <2> QED BY <1>0, <2>1 DEF TriesOk
<1>2. CASE Leave(k)
  <2>1. tries'[k] = 0 /\ att'[k].pc = "idle"
    BY <1>0, <1>2 DEF Leave, NoAttempt
  <2> QED BY <1>0, <2>1 DEF TriesOk, At
<1>3. CASE /\ tries'[k] = tries[k] /\ (k \in queue => k \in queue')
           /\ att'[k].pc = "phase1" => att[k].pc = "phase1"
           /\ att'[k].pc # "idle" => att[k].pc # "idle"
  BY <1>3 DEF TriesOk, At
<1> QED BY <1>1, <1>2, <1>3, TriesSteps

LEMMA LeftTyped ==
  ASSUME TypeOK, NEW k \in Jobs, TriesOk(k)
  PROVE  ActivationsLeft(k) \in 0 .. MaxTries + 1
<1>1. tries[k] \in Nat /\ MaxTries \in Nat
  BY ConstantsAssumption DEF TypeOK
<1> QED BY <1>1 DEF ActivationsLeft, TriesOk

(* Only a request that creates the row, or mark_running, makes it active.  *)
LEMMA MadeActive ==
  ASSUME TypeOK, [Next]_vars, NEW k \in Jobs,
         job[k].status \notin Active, job'[k].status \in Active
  PROVE  (\E r \in Requests : CreateJob(r, k)) \/ Revives(k)
<1>1. job'[k].status # job[k].status
  OBVIOUS
<1> QED BY <1>1, JobSteps DEF JobStep, Unmoved, Ages, ByIngest, ByAttempt, ByOthers, PlainMove,
        PlainLeave, Starts, Interrupted, Skips, Commits, Fails, RollsBack, Refunds, Bills, Swept,
        RefundedLate, Dies, Forgotten, SameRow, Closes

(* Only Enqueue puts a job in the queue.                                   *)
LEMMA QueuedBefore ==
  ASSUME TypeOK, [Next]_vars, NEW k \in Jobs, ~(\E r \in Requests : Enqueue(r, k)), k \in queue'
  PROVE  k \in queue
<1>1. CASE \E r \in Requests : Ingest(r)
  BY <1>1 DEF Ingest, StartRequest, SaveConversation, PreCharge, Txn2Error, AbortRequest, EndLoop,
     Respond, DedupeCheck, CreateJob, Enqueue, ingestFrame
<1>2. CASE ~(\E r \in Requests : Ingest(r))
  BY <1>2, QueueOthers
<1> QED BY <1>1, <1>2

LEMMA LeftStep ==
  ASSUME IInv, EnqueuedOnce, [Next]_vars, NEW k \in Jobs, SettleOk(k), TriesOk(k), TriesOk(k)'
  PROVE  /\ ActivationsLeft(k)' <= ActivationsLeft(k)
         /\ job[k].status \notin Active /\ job'[k].status \in Active =>
              ActivationsLeft(k)' < ActivationsLeft(k)
<1>0. /\ TypeOK /\ TypeOK' /\ MaxTries \in Nat /\ tries \in [Jobs -> Nat]
      /\ tries[k] \in Nat /\ tries'[k] \in Nat /\ att \in [Jobs -> Attempt]
      /\ ActivationsLeft(k) \in 0 .. MaxTries + 1
  BY ConstantsAssumption, IInvStep, LeftTyped DEF IInv, TypeOK
<1>1. CASE \E r \in Requests : CreateJob(r, k)
  <2>1. job[k].status = "absent" /\ job'[k].status = "pending" /\ queue' = queue
    BY <1>0, <1>1 DEF CreateJob, CreatePending, ingestFrame, TypeOK
  <2>2. k \notin queue'
    BY <2>1 DEF IInv, WorkerNeverAheadOfRow
  <2>3. ActivationsLeft(k) = MaxTries + 1 /\ ActivationsLeft(k)' \in {0, MaxTries}
    BY <2>1, <2>2 DEF ActivationsLeft
  <2> QED BY <1>0, <2>3
<1>2. CASE \E r \in Requests : Enqueue(r, k)
  <2>1. /\ job' = job /\ att' = att /\ tries' = tries /\ k \in queue'
        /\ Awaited(k) /\ ~Awaited(k)'
    BY <1>0, <1>2, EnqueueSends DEF Enqueue
  <2>2. At(k, "idle") /\ tries[k] = 0
    BY <2>1 DEF SettleOk, TriesOk
  <2>3. job[k].status # "absent"
    <3>1. PICK r \in Requests : k \in req[r].enq
      BY <1>2 DEF Enqueue
    <3> QED BY <3>1 DEF IInv, EnqueuedRowsExist
  <2>4. ActivationsLeft(k) = MaxTries
    BY <2>1, <2>3 DEF ActivationsLeft
  <2>5. ActivationsLeft(k)' = MaxTries - tries'[k]
    BY <1>0, <2>1, <2>2, <2>3 DEF ActivationsLeft, At
  <2> QED BY <1>0, <2>1, <2>2, <2>4, <2>5
<1>3. CASE ~(\E r \in Requests : CreateJob(r, k) \/ Enqueue(r, k))
  <2>1. /\ JobStep(k) /\ ~ByIngest(k) /\ (Awaited(k)' => Awaited(k))
        /\ job[k].status = "absent" <=> job'[k].status = "absent"
    BY <1>0, <1>3, JobSteps, AwaitedSteps, RowsKept DEF ByIngest
  <2>2. CASE job[k].status = "absent"
    BY <1>0, <2>1, <2>2 DEF ActivationsLeft, Active
  <2>3. CASE job[k].status # "absent" /\ k \notin queue'
    <3>1. ActivationsLeft(k)' = IF Awaited(k)' THEN MaxTries ELSE 0
      BY <2>1, <2>3 DEF ActivationsLeft
    <3>2. Awaited(k)' => ActivationsLeft(k) = MaxTries
      BY <2>1, <2>3 DEF ActivationsLeft
    <3>3. ~Revives(k)
      <4>1. Revives(k) => att'[k].pc = "llm"
        BY DEF Revives, Moves
      <4> QED BY <2>3, <4>1 DEF TriesOk, At
    <3> QED BY <1>0, <1>3, <3>1, <3>2, <3>3, MadeActive
  <2>4. CASE job[k].status # "absent" /\ k \in queue'
    <3>1. k \in queue
      BY <1>0, <1>3, <2>4, QueuedBefore
    <3>2. ~Awaited(k) /\ ~Awaited(k)'
      BY <2>1, <3>1 DEF SettleOk
    <3> DEFINE before == IF att[k].pc = "phase1" THEN 1 ELSE 0
               after  == IF att'[k].pc = "phase1" THEN 1 ELSE 0
    <3>3. /\ ActivationsLeft(k) = MaxTries - tries[k] + before
          /\ ActivationsLeft(k)' = MaxTries - tries'[k] + after
      BY <2>1, <2>4, <3>1, <3>2 DEF ActivationsLeft, At
    <3>4. CASE Pickup(k)
      <4>1. tries'[k] = tries[k] + 1 /\ job' = job /\ before = 0
        BY <1>0, <3>4 DEF Pickup, At
      <4> HIDE DEF before
      <4> QED BY <1>0, <3>3, <4>1
    <3>5. CASE ~Pickup(k)
      <4>1. tries'[k] = tries[k] /\ (att'[k].pc = "phase1" => att[k].pc = "phase1")
        BY <1>0, <2>4, <3>5, TriesSteps, OwnPlaces
      <4>2. Revives(k) => before = 1 /\ after = 0
        BY DEF Revives, Moves
      <4>3. after <= before /\ before \in {0, 1} /\ after \in {0, 1}
        BY <4>1
      <4> HIDE DEF before, after
      <4> QED BY <1>0, <1>3, <3>3, <4>1, <4>2, <4>3, MadeActive
    <3> QED BY <3>4, <3>5
  <2> QED BY <2>2, <2>3, <2>4
<1> QED BY <1>1, <1>2, <1>3

(* A row is made active at most MaxTries + 1 times: once by the request    *)
(* that creates it (create_pending), and once by each try that arq grants  *)
(* the job (mark_running, which revives a failed row).  The number of      *)
(* times left never grows, and each time lowers it.                        *)
THEOREM ActivationsBounded == Spec => RowsSettleDown
<1> DEFINE Inv == EnqueuedOnce /\ \A k \in Jobs : SettleOk(k) /\ TriesOk(k)
<1>1. Init => Inv
  <2> SUFFICES ASSUME Init PROVE Inv
    OBVIOUS
  <2>1. \A r \in Requests : req[r].enq = {}
    BY DEF Init
  <2>2. \A k \in Jobs : ~Awaited(k)
    BY <2>1 DEF Awaited, Unsent
  <2>3. \A k \in Jobs : tries[k] = 0 /\ At(k, "idle") /\ MaxTries \in Nat
    BY ConstantsAssumption DEF Init, NoAttempt, At
  <2> QED BY <2>1, <2>2, <2>3 DEF Init, SettleOk, EnqueuedOnce, TriesOk
<1>2. IInv /\ Inv /\ [Next]_vars => Inv'
  BY SettleStep, EnqueuedOnceStep, TriesStep DEF IInv
<1>3. IInv /\ Inv /\ Inv' /\ [Next]_vars =>
        \A k \in Jobs :
          /\ ActivationsLeft(k) \in 0 .. MaxTries + 1 /\ ActivationsLeft(k)' <= ActivationsLeft(k)
          /\ job[k].status \notin Active /\ job'[k].status \in Active =>
               ActivationsLeft(k)' < ActivationsLeft(k)
  BY LeftTyped, LeftStep DEF IInv
<1> HIDE DEF Inv
<1> QED BY <1>1, <1>2, <1>3, Invariance, PTL DEF Spec, RowsSettleDown
=============================================================================
