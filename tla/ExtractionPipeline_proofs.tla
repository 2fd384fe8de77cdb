--------------------- MODULE ExtractionPipeline_proofs ---------------------
(***************************************************************************)
(* Theorems about the extraction pipeline, for any number of requests,     *)
(* uploads, jobs and faults and for any thresholds.                        *)
(***************************************************************************)
EXTENDS ExtractionPipeline, TLAPS

(* The repository's statements map a table to a table.                     *)
LEMMA TableTypes ==
  ASSUME NEW tab \in [Jobs -> Row], NEW j \in Jobs
  PROVE  /\ \A c \in Convs, s \in Sources : CreatePending(tab, j, c, s) \in [Jobs -> Row]
         /\ MarkRunning(tab, j) \in [Jobs -> Row]
         /\ MarkCompleted(tab, j) \in [Jobs -> Row]
         /\ MarkFailed(tab, j) \in [Jobs -> Row]
<1>0. 0 \in 0 .. AgeCap
  BY AgeCapAssumption
<1>1. ASSUME NEW c \in Convs, NEW s \in Sources
      PROVE  CreatePending(tab, j, c, s) \in [Jobs -> Row]
  BY <1>0 DEF Row, Active, CreatePending
<1>2. MarkRunning(tab, j) \in [Jobs -> Row]
  <2>1. [tab EXCEPT ![j].status = "running", ![j].age = 0] \in [Jobs -> Row]
    BY <1>0 DEF Row, Active
  <2> QED BY <2>1 DEF MarkRunning
<1>3. ASSUME NEW status \in Terminal PROVE Close(tab, j, status) \in [Jobs -> Row]
  <2>1. [tab EXCEPT ![j].status = status, ![j].age = 0] \in [Jobs -> Row]
    BY <1>0 DEF Row, Terminal
  <2> QED BY <2>1 DEF Close
<1> QED BY <1>1, <1>2, <1>3 DEF MarkCompleted, MarkFailed, Terminal

LEMMA TableWideTypes ==
  ASSUME NEW tab \in [Jobs -> Row]
  PROVE  /\ \A S \in SUBSET Jobs : Sweep(tab, S) \in [Jobs -> Row]
         /\ Older(tab) \in [Jobs -> Row]
<1>1. ASSUME NEW S \in SUBSET Jobs PROVE Sweep(tab, S) \in [Jobs -> Row]
  <2>1. ASSUME NEW k \in Jobs
        PROVE  [tab[k] EXCEPT !.status = "failed", !.age = 0] \in Row
    <3>1. tab[k] \in Row /\ 0 \in 0 .. AgeCap
      BY AgeCapAssumption
    <3> QED BY <3>1 DEF Row, Terminal
  <2> QED BY <2>1 DEF Sweep
<1>2. Older(tab) \in [Jobs -> Row]
  <2> SUFFICES ASSUME NEW j \in Jobs, tab[j].status \in Active, tab[j].age < AgeCap
               PROVE  [tab[j] EXCEPT !.age = @ + 1] \in Row
    BY DEF Older
  <2>1. tab[j].age + 1 \in 0 .. AgeCap
    BY AgeCapAssumption DEF Row
  <2> QED BY <2>1 DEF Row
<1> QED BY <1>1, <1>2

----------------------------------------------------------------------------
(* Every reachable state is well typed, from the assumptions on the        *)
(* constants alone.                                                        *)

LEMMA TypeInit == Init => TypeOK
<1> SUFFICES ASSUME Init PROVE TypeOK
  OBVIOUS
<1>0. 0 \in 0 .. AgeCap
  BY AgeCapAssumption
<1>1. job \in [Jobs -> Row]
  BY <1>0 DEF Init, Row, Absent
<1>2. conv \in [Convs -> Conversation]
  BY DEF Init, Conversation
<1>3. req \in [Requests -> Request]
  BY DEF Init, Request, RequestPcs
<1>4. att \in [Jobs -> Attempt]
  BY <1>0 DEF Init, Attempt, NoAttempt
<1>5. lease \in [Jobs -> 0 .. AgeCap]
  BY <1>0 DEF Init
<1> QED BY <1>1, <1>2, <1>3, <1>4, <1>5 DEF Init, TypeOK

(* A request stays one whichever of its fields a step sets.                *)
LEMMA RequestFields ==
  ASSUME NEW rec \in Request
  PROVE  /\ \A pc \in RequestPcs : [rec EXCEPT !.pc = pc] \in Request
         /\ \A u \in Uploads \cup {None} : [rec EXCEPT !.cur = u] \in Request
         /\ \A body \in SUBSET Uploads : [rec EXCEPT !.todo = body] \in Request
         /\ \A S \in SUBSET Jobs : [rec EXCEPT !.enq = S] \in Request
         /\ \A S \in SUBSET Jobs : [rec EXCEPT !.sent = S] \in Request
         /\ \A n \in Nat : [rec EXCEPT !.saved = n] \in Request
         /\ \A n \in Nat : [rec EXCEPT !.skipBudget = n] \in Request
         /\ \A n \in Nat : [rec EXCEPT !.skipError = n] \in Request
BY DEF Request

LEMMA RequestSteps ==
  ASSUME NEW rec \in Request
  PROVE  /\ \A body \in SUBSET Uploads : Begin(rec, body) \in Request
         /\ Saved(rec) \in Request
         /\ \A u \in Uploads : TakeUp(rec, u) \in Request
         /\ Continue(rec) \in Request
         /\ OverBudget(rec) \in Request
         /\ Failed(rec) \in Request
         /\ \A j \in Jobs : Created(rec, j) \in Request
         /\ \A pc \in RequestPcs : Leaving(rec, pc) \in Request
<1>1. /\ rec.todo \in SUBSET Uploads /\ rec.enq \in SUBSET Jobs
      /\ rec.saved + 1 \in Nat /\ rec.skipBudget + 1 \in Nat /\ rec.skipError + 1 \in Nat
  BY DEF Request
<1>2. Continue(rec) \in Request
  <2>1. [rec EXCEPT !.pc = "loop"] \in Request
    BY RequestFields DEF RequestPcs
  <2> QED BY <2>1, RequestFields DEF Continue
<1>3. /\ OverBudget(rec) = [Continue(rec) EXCEPT !.skipBudget = rec.skipBudget + 1]
      /\ Failed(rec) = [Continue(rec) EXCEPT !.skipError = rec.skipError + 1]
      /\ \A j \in Jobs : Created(rec, j) = [Continue(rec) EXCEPT !.enq = rec.enq \cup {j}]
  BY DEF OverBudget, Failed, Created, Continue, Request
<1>4. Saved(rec) \in Request
  <2>1. [rec EXCEPT !.pc = "charge"] \in Request
    BY RequestFields DEF RequestPcs
  <2> QED BY <1>1, <2>1, RequestFields DEF Saved
<1>5. ASSUME NEW u \in Uploads PROVE TakeUp(rec, u) \in Request
  <2>1. [rec EXCEPT !.pc = "save"] \in Request
    BY RequestFields DEF RequestPcs
  <2>2. [rec EXCEPT !.pc = "save", !.cur = u] \in Request
    BY <2>1, RequestFields
  <2> QED BY <1>1, <2>2, RequestFields DEF TakeUp
<1>6. ASSUME NEW pc \in RequestPcs PROVE Leaving(rec, pc) \in Request
  <2>1. [rec EXCEPT !.pc = pc] \in Request
    BY RequestFields
  <2>2. [rec EXCEPT !.pc = pc, !.cur = None] \in Request
    BY <2>1, RequestFields
  <2>3. [rec EXCEPT !.pc = pc, !.cur = None, !.todo = {}] \in Request
    BY <2>2, RequestFields
  <2> QED BY <2>3, RequestFields DEF Leaving
<1>7. ASSUME NEW body \in SUBSET Uploads PROVE Begin(rec, body) \in Request
  <2>1. [rec EXCEPT !.pc = "loop"] \in Request
    BY RequestFields DEF RequestPcs
  <2> QED BY <2>1, RequestFields DEF Begin
<1>8. /\ OverBudget(rec) \in Request /\ Failed(rec) \in Request
      /\ \A j \in Jobs : Created(rec, j) \in Request
  BY <1>1, <1>2, <1>3, RequestFields
<1> QED BY <1>2, <1>4, <1>5, <1>6, <1>7, <1>8

LEMMA RequestPlaces ==
  ASSUME NEW rec \in Request
  PROVE  /\ \A body : Begin(rec, body).pc = "loop"
         /\ Continue(rec).pc = "loop"
         /\ OverBudget(rec).pc = "loop"
         /\ Failed(rec).pc = "loop"
         /\ \A j : Created(rec, j).pc = "loop"
         /\ \A pc : Leaving(rec, pc).pc = pc
         /\ \A u : TakeUp(rec, u).cur = u
         /\ Saved(rec).cur = rec.cur
BY DEF Request, Begin, Continue, OverBudget, Failed, Created, Leaving, TakeUp, Saved

Typed == TypeOK /\ UploadInHand

LEMMA TypeIngest ==
  ASSUME Typed, NEW r \in Requests, Ingest(r)
  PROVE  TypeOK'
<1> USE DEF Typed
<1>0. req \in [Requests -> Request] /\ req[r] \in Request
  BY DEF TypeOK
<1>1. CASE StartRequest(r)
  <2>1. PICK body \in SUBSET Uploads : req' = [req EXCEPT ![r] = Begin(@, body)]
    BY <1>1, ConstantsAssumption DEF StartRequest
  <2>2. req' \in [Requests -> Request]
    BY <1>0, <2>1, RequestSteps
  <2> QED BY <1>1, <2>2 DEF TypeOK, StartRequest, ingestFrame
<1>2. CASE SaveConversation(r)
  <2>1. ASSUME NEW c \in Convs, NEW p \in Pids
        PROVE  [conv EXCEPT ![c].pid = p] \in [Convs -> Conversation]
    BY DEF TypeOK, Conversation
  <2>3. req[r].cur \in Uploads
    BY <1>2 DEF UploadInHand, SaveConversation
  <2>4. PidOf[req[r].cur] \in Pids /\ ConvOf[req[r].cur] \in Convs
    BY <2>3, ConstantsAssumption
  <2>5. req' \in [Requests -> Request] /\ conv' \in [Convs -> Conversation]
    BY <1>0, <1>2, <2>1, <2>4, RequestSteps DEF SaveConversation, TypeOK
  <2> QED BY <1>2, <2>5 DEF TypeOK, SaveConversation, ingestFrame
<1>3. CASE PreCharge(r)
  <2>1. [req EXCEPT ![r].pc = "txn2"] \in [Requests -> Request]
    BY <1>0 DEF Request, RequestPcs
  <2>2. req' \in [Requests -> Request]
    BY <1>0, <1>3, <2>1, RequestSteps DEF PreCharge
  <2> QED BY <1>3, <2>2 DEF TypeOK, PreCharge, ingestFrame
<1>4. CASE Txn2Error(r)
  <2>1. req' \in [Requests -> Request]
    BY <1>0, <1>4, RequestSteps DEF Txn2Error
  <2> QED BY <1>4, <2>1 DEF TypeOK, Txn2Error, ingestFrame
<1>5. CASE AbortRequest(r)
  <2>1. req' \in [Requests -> Request]
    BY <1>0, <1>5, RequestSteps DEF AbortRequest, RequestPcs
  <2> QED BY <1>5, <2>1 DEF TypeOK, AbortRequest, ingestFrame
<1>6. CASE EndLoop(r)
  <2>1. [req EXCEPT ![r].pc = "enqueue"] \in [Requests -> Request]
    BY <1>0 DEF Request, RequestPcs
  <2> QED BY <1>6, <2>1 DEF TypeOK, EndLoop, ingestFrame
<1>7. CASE Respond(r)
  <2>1. req' \in [Requests -> Request]
    BY <1>0, <1>7, RequestSteps DEF Respond, RequestPcs
  <2> QED BY <1>7, <2>1 DEF TypeOK, Respond, ingestFrame
<1>8. ASSUME NEW u \in Uploads, DedupeCheck(r, u) PROVE TypeOK'
  <2>1. [req EXCEPT ![r].todo = @ \ {u}] \in [Requests -> Request]
    BY <1>0 DEF Request
  <2>2. req' \in [Requests -> Request]
    BY <1>0, <1>8, <2>1, RequestSteps DEF DedupeCheck
  <2> QED BY <1>8, <2>2 DEF TypeOK, DedupeCheck, ingestFrame
<1>9. ASSUME NEW j \in Jobs, CreateJob(r, j) PROVE TypeOK'
  <2>1. req' \in [Requests -> Request]
    BY <1>0, <1>9, RequestSteps DEF CreateJob
  <2>2. ConvOf[req[r].cur] \in Convs /\ SourceOf[req[r].cur] \in Sources
    BY <1>9, ConstantsAssumption DEF UploadInHand, CreateJob
  <2>3. job' \in [Jobs -> Row]
    BY <1>9, <2>2, TableTypes DEF TypeOK, CreateJob
  <2> QED BY <1>9, <2>1, <2>3 DEF TypeOK, CreateJob, ingestFrame
<1>10. ASSUME NEW j \in Jobs, Enqueue(r, j) PROVE TypeOK'
  <2>1. [req EXCEPT ![r].sent = @ \cup {j}] \in [Requests -> Request]
    BY <1>0 DEF Request
  <2> QED BY <1>10, <2>1 DEF TypeOK, Enqueue
<1> QED BY <1>1, <1>2, <1>3, <1>4, <1>5, <1>6, <1>7, <1>8, <1>9, <1>10 DEF Ingest

(* What a request holds is set only by its own steps; a restart drops it.  *)
LEMMA InHandIngest ==
  ASSUME Typed, NEW r \in Requests, Ingest(r)
  PROVE  UploadInHand'
<1> USE DEF Typed
<1>0. req \in [Requests -> Request] /\ req[r] \in Request
  BY DEF TypeOK
<1>1. \A q \in Requests \ {r} : req'[q] = req[q]
  BY <1>0 DEF Ingest, StartRequest, SaveConversation, PreCharge, Txn2Error, AbortRequest,
              EndLoop, Respond, DedupeCheck, CreateJob, Enqueue
<1>2. req'[r].pc \in {"save", "charge", "txn2"} => req'[r].cur \in Uploads
  <2> SUFFICES ASSUME req'[r].pc \in {"save", "charge", "txn2"}
               PROVE  req'[r].cur \in Uploads
    OBVIOUS
  <2>1. ASSUME NEW u \in Uploads, DedupeCheck(r, u) PROVE req'[r].cur \in Uploads
    <3>1. [req EXCEPT ![r].todo = @ \ {u}][r].pc = "loop"
      BY <1>0, <2>1 DEF DedupeCheck, Request
    <3> QED BY <1>0, <2>1, <3>1, RequestPlaces DEF DedupeCheck
  <2>2. CASE SaveConversation(r)
    BY <1>0, <2>2, RequestPlaces DEF SaveConversation, UploadInHand
  <2>3. CASE PreCharge(r)
    <3>1. [req EXCEPT ![r].pc = "txn2"][r].cur = req[r].cur
      BY <1>0 DEF Request
    <3> QED BY <1>0, <2>3, <3>1, RequestPlaces DEF PreCharge, UploadInHand
  <2>4. CASE StartRequest(r)
    BY <1>0, <2>4, RequestPlaces DEF StartRequest
  <2>5. CASE EndLoop(r)
    BY <1>0, <2>5 DEF EndLoop, Request
  <2>6. ASSUME NEW j \in Jobs, Enqueue(r, j) PROVE req'[r].cur \in Uploads
    BY <1>0, <2>6 DEF Enqueue, Request
  <2>7. CASE Txn2Error(r) \/ AbortRequest(r) \/ Respond(r) \/ \E j \in Jobs : CreateJob(r, j)
    BY <1>0, <2>7, RequestPlaces DEF Txn2Error, AbortRequest, Respond, CreateJob, RequestPcs
  <2> QED BY <2>1, <2>2, <2>3, <2>4, <2>5, <2>6, <2>7 DEF Ingest
<1> QED BY <1>1, <1>2 DEF UploadInHand

(* What the steps of the worker and of arq do to an attempt, the counters  *)
(* and the conversations.                                                  *)
LEMMA AttemptSteps ==
  ASSUME TypeOK, NEW j \in Jobs
  PROVE  /\ NoAttempt \in Attempt
         /\ [att EXCEPT ![j] = NoAttempt] \in [Jobs -> Attempt]
         /\ \A pc \in AttemptPcs : [att EXCEPT ![j].pc = pc] \in [Jobs -> Attempt]
         /\ \A pc \in AttemptPcs, known \in BOOLEAN :
              [att EXCEPT ![j].pc = pc, ![j].known = known] \in [Jobs -> Attempt]
<1>1. att \in [Jobs -> Attempt] /\ att[j] \in Attempt
  BY DEF TypeOK
<1>2. NoAttempt \in Attempt
  <2>1. 0 \in 0 .. AgeCap
    BY AgeCapAssumption
  <2> QED BY <2>1 DEF NoAttempt, Attempt
<1>3. ASSUME NEW pc \in AttemptPcs PROVE [att EXCEPT ![j].pc = pc] \in [Jobs -> Attempt]
  <2>1. [att[j] EXCEPT !.pc = pc] \in Attempt
    BY <1>1 DEF Attempt
  <2> QED BY <1>1, <2>1
<1>4. ASSUME NEW pc \in AttemptPcs, NEW known \in BOOLEAN
      PROVE  [att EXCEPT ![j].pc = pc, ![j].known = known] \in [Jobs -> Attempt]
  <2>1. [att[j] EXCEPT !.pc = pc, !.known = known] \in Attempt
    BY <1>1 DEF Attempt
  <2> QED BY <1>1, <2>1
<1> QED BY <1>1, <1>2, <1>3, <1>4

LEMMA SettleTypes ==
  ASSUME TypeOK, NEW j \in Jobs, SettleOrDrop(j)
  PROVE  settled' \in [Jobs -> Nat] /\ marks' \in [Jobs -> SUBSET Marks]
BY DEF TypeOK, SettleOrDrop, Marks

LEMMA LeaveTypes ==
  ASSUME TypeOK, NEW j \in Jobs, Leave(j)
  PROVE  /\ att' \in [Jobs -> Attempt] /\ queue' \in SUBSET Jobs
         /\ lease' \in [Jobs -> 0 .. AgeCap] /\ tries' \in [Jobs -> Nat]
<1>1. 0 \in 0 .. AgeCap
  BY AgeCapAssumption
<1>2. att' \in [Jobs -> Attempt]
  BY AttemptSteps DEF Leave
<1> QED BY <1>1, <1>2 DEF TypeOK, Leave

LEMMA ProcessedTypes ==
  ASSUME TypeOK, NEW c
  PROVE  /\ [conv EXCEPT ![c].processed = TRUE] \in [Convs -> Conversation]
         /\ [conv EXCEPT ![c].processed = TRUE, ![c].batches = @ + 1]
              \in [Convs -> Conversation]
<1>1. ASSUME NEW d \in Convs
      PROVE  /\ [conv[d] EXCEPT !.processed = TRUE] \in Conversation
             /\ [conv[d] EXCEPT !.processed = TRUE, !.batches = @ + 1] \in Conversation
  <2>1. conv[d] \in Conversation
    BY DEF TypeOK
  <2>2. [conv[d] EXCEPT !.processed = TRUE] \in Conversation
    BY <2>1 DEF Conversation
  <2>3. conv[d].batches + 1 \in Nat
    BY <2>1 DEF Conversation
  <2> QED BY <2>1, <2>2, <2>3 DEF Conversation
<1> QED BY <1>1 DEF TypeOK

LEMMA TypeArq ==
  ASSUME TypeOK, NEW j \in Jobs, Arq(j)
  PROVE  TypeOK'
<1>1. CASE Pickup(j)
  <2>1. LeaseTTL \in 0 .. AgeCap /\ JobTimeout \in 0 .. AgeCap
    BY ConstantsAssumption
  <2>2. [pc |-> "phase1", left |-> JobTimeout, known |-> FALSE] \in Attempt
    BY <2>1 DEF Attempt, AttemptPcs
  <2>3. att' \in [Jobs -> Attempt]
    BY <1>1, <2>2 DEF TypeOK, Pickup
  <2> QED BY <1>1, <2>1, <2>3 DEF TypeOK, Pickup, ghosts, workerFrame
<1>2. CASE GiveUp(j)
  <2>1. Leave(j)
    BY <1>2 DEF GiveUp
  <2> QED BY <1>2, <2>1, LeaveTypes DEF TypeOK, GiveUp, ghosts, workerFrame
<1>3. CASE Timeout(j)
  <2>1. Leave(j)
    BY <1>3 DEF Timeout
  <2>2. marks' \in [Jobs -> SUBSET Marks]
    BY <1>3 DEF TypeOK, Timeout, Interrupt, Marks
  <2> QED BY <1>3, <2>1, <2>2, LeaveTypes DEF TypeOK, Timeout, workerFrame
<1> QED BY <1>1, <1>2, <1>3 DEF Arq

LEMMA TypeWork ==
  ASSUME TypeOK, NEW j \in Jobs, Work(j)
  PROVE  TypeOK'
<1>1. CASE Phase1Skip(j) \/ Phase3Skip(j) \/ PublishProgress(j)
  <2>1. Leave(j) /\ UNCHANGED <<job, conv>> /\ UNCHANGED ghosts /\ workerFrame
    BY <1>1 DEF Phase1Skip, Phase3Skip, PublishProgress
  <2> QED BY <2>1, LeaveTypes DEF TypeOK, ghosts, workerFrame
<1>2. CASE Phase1(j)
  <2>1. att' \in [Jobs -> Attempt]
    BY <1>2, AttemptSteps DEF Phase1, AttemptPcs
  <2>2. job' \in [Jobs -> Row]
    BY <1>2, TableTypes DEF TypeOK, Phase1
  <2> QED BY <1>2, <2>1, <2>2 DEF TypeOK, Phase1, arqVars, ghosts, workerFrame
<1>3. CASE Phase1Error(j) \/ Phase2(j)
  <2>1. /\ UNCHANGED <<job, conv>> /\ UNCHANGED arqVars /\ UNCHANGED ghosts /\ workerFrame
    BY <1>3 DEF Phase1Error, Phase2
  <2>2. att' \in [Jobs -> Attempt]
    <3>1. CASE Phase1Error(j)
      <4>1. "failing" \in AttemptPcs
        BY DEF AttemptPcs
      <4> QED BY <3>1, <4>1, AttemptSteps DEF Phase1Error
    <3>2. CASE Phase2(j)
      <4>1. \E pc \in AttemptPcs : att' = [att EXCEPT ![j].pc = pc]
        BY <3>2 DEF Phase2, Goto, AttemptPcs
      <4> QED BY <4>1, AttemptSteps
    <3> QED BY <1>3, <3>1, <3>2
  <2> QED BY <2>1, <2>2 DEF TypeOK, arqVars, ghosts, workerFrame
<1>4. CASE MarkSkippedNoTopic(j)
  <2>1. att' \in [Jobs -> Attempt]
    BY <1>4, AttemptSteps DEF MarkSkippedNoTopic, Goto, AttemptPcs
  <2>2. job' \in [Jobs -> Row]
    BY <1>4, TableTypes DEF TypeOK, MarkSkippedNoTopic
  <2>3. conv' \in [Convs -> Conversation]
    BY <1>4, ProcessedTypes DEF MarkSkippedNoTopic
  <2> QED BY <1>4, <2>1, <2>2, <2>3 DEF TypeOK, MarkSkippedNoTopic, arqVars, ghosts, workerFrame
<1>5. CASE NoTopicRefund(j)
  <2>1. Leave(j) /\ SettleOrDrop(j)
    BY <1>5 DEF NoTopicRefund
  <2> QED BY <1>5, <2>1, LeaveTypes, SettleTypes DEF TypeOK, NoTopicRefund, workerFrame
<1>6. CASE Phase3Write(j)
  <2>1. att' \in [Jobs -> Attempt]
    BY <1>6, AttemptSteps DEF Phase3Write, Goto, AttemptPcs
  <2> QED BY <1>6, <2>1, SettleTypes DEF TypeOK, Phase3Write, arqVars, workerFrame
<1>7. CASE Phase3Commit(j)
  <2>1. att' \in [Jobs -> Attempt]
    BY <1>7, AttemptSteps DEF Phase3Commit, Goto, AttemptPcs
  <2>2. job' \in [Jobs -> Row]
    BY <1>7, TableTypes DEF TypeOK, Phase3Commit
  <2>3. conv' \in [Convs -> Conversation]
    BY <1>7, ProcessedTypes DEF Phase3Commit
  <2>4. writes' \in [Jobs -> Nat]
    BY <1>7 DEF TypeOK, Phase3Commit
  <2> QED BY <1>7, <2>1, <2>2, <2>3, <2>4 DEF TypeOK, Phase3Commit, arqVars, workerFrame
<1>8. CASE PersistError(j)
  <2>1. att' \in [Jobs -> Attempt]
    BY <1>8, AttemptSteps DEF PersistError, Goto, AttemptPcs
  <2>2. marks' \in [Jobs -> SUBSET Marks]
    BY <1>8 DEF TypeOK, PersistError, Marks
  <2> QED BY <1>8, <2>1, <2>2 DEF TypeOK, PersistError, arqVars, workerFrame
<1>9. CASE FailRefund(j)
  <2>1. att' \in [Jobs -> Attempt]
    BY <1>9, AttemptSteps DEF FailRefund, Goto, AttemptPcs
  <2>2. settled' \in [Jobs -> Nat] /\ marks' \in [Jobs -> SUBSET Marks]
    BY <1>9, SettleTypes DEF TypeOK, FailRefund, Marks
  <2> QED BY <1>9, <2>1, <2>2 DEF TypeOK, FailRefund, arqVars, workerFrame
<1>10. CASE MarkJobFailed(j)
  <2>1. Leave(j)
    BY <1>10 DEF MarkJobFailed
  <2>2. job' \in [Jobs -> Row]
    <3>1. job \in [Jobs -> Row]
      BY DEF TypeOK
    <3>2. MarkFailed(job, j) \in [Jobs -> Row]
      BY <3>1, TableTypes
    <3> QED BY <1>10, <3>1, <3>2 DEF MarkJobFailed
  <2> QED BY <1>10, <2>1, <2>2, LeaveTypes DEF TypeOK, MarkJobFailed, ghosts, workerFrame
<1> QED BY <1>1, <1>2, <1>3, <1>4, <1>5, <1>6, <1>7, <1>8, <1>9, <1>10 DEF Work

LEMMA TypeSweeper ==
  ASSUME TypeOK, SweepRows \/ SweepError \/ \E j \in Jobs : RefundSweptRow(j)
  PROVE  TypeOK'
<1>1. CASE SweepRows
  <2> DEFINE swept == Stale(job, sweeper.next, Threshold(sweeper.next))
  <2>1. swept \in SUBSET Jobs
    BY DEF Stale
  <2>2. job' = Sweep(job, swept)
    BY <1>1 DEF SweepRows
  <2>3. job' \in [Jobs -> Row]
    BY <2>1, <2>2, TableWideTypes DEF TypeOK
  <2>4. /\ sweeper' \in [next : {"pending", "running"}, owed : SUBSET Jobs]
        /\ marks' \in [Jobs -> SUBSET Marks]
    BY <1>1, <2>1 DEF TypeOK, SweepRows, NextSweep, Marks
  <2> QED BY <1>1, <2>3, <2>4 DEF TypeOK, SweepRows
<1>2. ASSUME NEW j \in Jobs, RefundSweptRow(j) PROVE TypeOK'
  <2>1. SettleOrDrop(j)
    BY <1>2 DEF RefundSweptRow
  <2>2. sweeper' \in [next : {"pending", "running"}, owed : SUBSET Jobs]
    BY <1>2 DEF TypeOK, RefundSweptRow
  <2> QED BY <1>2, <2>1, <2>2, SettleTypes DEF TypeOK, RefundSweptRow
<1>3. CASE SweepError
  <2>1. sweeper' \in [next : {"pending", "running"}, owed : SUBSET Jobs]
    BY <1>3 DEF TypeOK, SweepError
  <2> QED BY <1>3, <2>1 DEF TypeOK, SweepError
<1> QED BY <1>1, <1>2, <1>3

LEMMA TypeTick ==
  ASSUME TypeOK, Tick
  PROVE  TypeOK'
<1>1. job' \in [Jobs -> Row]
  BY TableWideTypes DEF TypeOK, Tick
<1>2. lease' \in [Jobs -> 0 .. AgeCap]
  <2>1. ASSUME NEW j \in Jobs PROVE (IF lease[j] > 0 THEN lease[j] - 1 ELSE 0) \in 0 .. AgeCap
    BY AgeCapAssumption DEF TypeOK
  <2> QED BY <2>1 DEF Tick
<1>3. att' \in [Jobs -> Attempt]
  <2>1. ASSUME NEW j \in Jobs, ~At(j, "idle") PROVE [att[j] EXCEPT !.left = @ - 1] \in Attempt
    <3>1. att[j] \in Attempt /\ att[j].left > 0
      BY <2>1 DEF TypeOK, Tick
    <3>2. att[j].left - 1 \in 0 .. AgeCap
      BY <3>1, AgeCapAssumption DEF Attempt
    <3> QED BY <3>1, <3>2 DEF Attempt
  <2> QED BY <2>1 DEF TypeOK, Tick
<1> QED BY <1>1, <1>2, <1>3 DEF TypeOK, Tick, ghosts

LEMMA TypeFaults ==
  ASSUME TypeOK, WorkerCrash \/ WorkerStop \/ ApiRestart
  PROVE  TypeOK'
<1>0. 0 \in 0 .. AgeCap
  BY AgeCapAssumption
<1>1. [j \in Jobs |-> NoAttempt] \in [Jobs -> Attempt]
  BY <1>0 DEF NoAttempt, Attempt
<1>2. Interrupt(Live) \in [Jobs -> SUBSET Marks]
  BY DEF TypeOK, Interrupt, Marks
<1>3. CASE WorkerCrash
  <2>1. faults' \in [crash : Nat, stop : Nat, restart : Nat]
    BY <1>3 DEF TypeOK, WorkerCrash
  <2> QED BY <1>1, <1>2, <1>3, <2>1 DEF TypeOK, WorkerCrash
<1>4. CASE WorkerStop
  <2>1. faults' \in [crash : Nat, stop : Nat, restart : Nat]
    BY <1>4 DEF TypeOK, WorkerStop
  <2>2. lease' \in [Jobs -> 0 .. AgeCap]
    BY <1>0, <1>4 DEF TypeOK, WorkerStop
  <2> QED BY <1>1, <1>2, <1>4, <2>1, <2>2 DEF TypeOK, WorkerStop
<1>5. CASE ApiRestart
  <2>1. faults' \in [crash : Nat, stop : Nat, restart : Nat]
    BY <1>5 DEF TypeOK, ApiRestart
  <2>2. req' \in [Requests -> Request]
    BY <1>5, RequestSteps DEF TypeOK, ApiRestart, RequestPcs
  <2>3. sweeper' \in [next : {"pending", "running"}, owed : SUBSET Jobs]
    BY <1>5 DEF ApiRestart
  <2>4. marks' \in [Jobs -> SUBSET Marks]
    BY <1>5 DEF TypeOK, ApiRestart, Marks
  <2> QED BY <1>5, <2>1, <2>2, <2>3, <2>4 DEF TypeOK, ApiRestart
<1> QED BY <1>3, <1>4, <1>5

(* What a request holds is safe from everybody else.                       *)
LEMMA InHandOthers ==
  ASSUME Typed, ~(\E r \in Requests : Ingest(r)), [Next]_vars
  PROVE  UploadInHand'
<1> USE DEF Typed
<1>1. CASE UNCHANGED req
  BY <1>1 DEF UploadInHand
<1>2. CASE ApiRestart
  <2> SUFFICES ASSUME NEW r \in Requests
               PROVE  req'[r].pc \in {"save", "charge", "txn2"} => req'[r].cur \in Uploads
    BY DEF UploadInHand
  <2>1. req[r] \in Request
    BY DEF TypeOK
  <2>2. req'[r] = req[r] \/ req'[r] = Leaving(req[r], "dead")
    BY <1>2 DEF ApiRestart
  <2> QED BY <2>1, <2>2, RequestPlaces DEF UploadInHand
<1>3. ASSUME NEW j \in Jobs, Arq(j) \/ Work(j) PROVE UNCHANGED req
  BY <1>3 DEF Arq, Work, Pickup, GiveUp, Timeout, Phase1Skip, Phase1, Phase1Error, Phase2,
              MarkSkippedNoTopic, NoTopicRefund, Phase3Skip, Phase3Write, Phase3Commit,
              PublishProgress, PersistError, FailRefund, MarkJobFailed, workerFrame
<1>4. ASSUME \/ \E j \in Jobs : RefundSweptRow(j)
             \/ SweepRows \/ SweepError \/ Tick \/ WorkerCrash \/ WorkerStop
      PROVE  UNCHANGED req
  BY <1>4 DEF RefundSweptRow, SweepRows, SweepError, Tick, WorkerCrash, WorkerStop
<1> QED BY <1>1, <1>2, <1>3, <1>4 DEF Next, vars

LEMMA TypedStep == Typed /\ [Next]_vars => Typed'
<1> SUFFICES ASSUME Typed, [Next]_vars PROVE Typed'
  OBVIOUS
<1>1. TypeOK'
  <2>1. CASE UNCHANGED vars
    BY <2>1 DEF Typed, TypeOK, vars
  <2>2. CASE Next
    BY <2>2, TypeIngest, TypeArq, TypeWork, TypeSweeper, TypeTick, TypeFaults DEF Next, Typed
  <2> QED BY <2>1, <2>2
<1>2. UploadInHand'
  BY InHandIngest, InHandOthers
<1> QED BY <1>1, <1>2 DEF Typed

(* Type correctness, for any number of requests, jobs and faults.          *)
THEOREM TypeCorrect == Spec => []TypeOK
<1>1. Init => Typed
  BY TypeInit DEF Typed, Init, UploadInHand
<1>2. Typed => TypeOK
  BY DEF Typed
<1> QED BY <1>1, <1>2, TypedStep, PTL DEF Spec

----------------------------------------------------------------------------
(* What a statement of the repository does to each row of the table.       *)
SameOwner(row, old) == row.conv = old.conv /\ row.source = old.source

LEMMA RunningRows ==
  ASSUME NEW tab \in [Jobs -> Row], NEW j \in Jobs, NEW k \in Jobs
  PROVE  /\ SameOwner(MarkRunning(tab, j)[k], tab[k])
         /\ MarkRunning(tab, j)[k].status =
              IF k = j /\ CanStart(tab[j]) THEN "running" ELSE tab[k].status
         /\ ~CanStart(tab[k]) => MarkRunning(tab, j)[k] = tab[k]
<1>1. tab[j] \in Row /\ tab[k] \in Row
  OBVIOUS
<1> QED BY <1>1 DEF MarkRunning, SameOwner, Row

LEMMA ClosedRows ==
  ASSUME NEW tab \in [Jobs -> Row], NEW j \in Jobs, NEW k \in Jobs, NEW status
  PROVE  /\ SameOwner(Close(tab, j, status)[k], tab[k])
         /\ Close(tab, j, status)[k].status =
              IF k = j /\ tab[j].status \in Active THEN status ELSE tab[k].status
         /\ tab[k].status \notin Active => Close(tab, j, status)[k] = tab[k]
<1>1. tab[j] \in Row /\ tab[k] \in Row
  OBVIOUS
<1> QED BY <1>1 DEF Close, SameOwner, Row

LEMMA SweptRows ==
  ASSUME NEW tab \in [Jobs -> Row], NEW S \in SUBSET Jobs, NEW k \in Jobs
  PROVE  /\ SameOwner(Sweep(tab, S)[k], tab[k])
         /\ Sweep(tab, S)[k].status = IF k \in S THEN "failed" ELSE tab[k].status
         /\ k \notin S => Sweep(tab, S)[k] = tab[k]
<1>1. tab[k] \in Row
  OBVIOUS
<1> QED BY <1>1 DEF Sweep, SameOwner, Row

LEMMA OlderRows ==
  ASSUME NEW tab \in [Jobs -> Row], NEW k \in Jobs
  PROVE  /\ SameOwner(Older(tab)[k], tab[k])
         /\ Older(tab)[k].status = tab[k].status
         /\ tab[k].status \notin Active => Older(tab)[k] = tab[k]
<1>1. tab[k] \in Row
  OBVIOUS
<1> QED BY <1>1 DEF Older, SameOwner, Row

(* The only steps that write the table.                                    *)
LEMMA TableSteps ==
  ASSUME [Next]_vars
  PROVE  \/ UNCHANGED job
         \/ \E r \in Requests, j \in Jobs : CreateJob(r, j)
         \/ \E j \in Jobs : Phase1(j)
         \/ \E j \in Jobs : MarkSkippedNoTopic(j) \/ Phase3Commit(j)
         \/ \E j \in Jobs : MarkJobFailed(j) /\ job' = MarkFailed(job, j)
         \/ SweepRows
         \/ Tick
<1>1. ASSUME NEW r \in Requests, Ingest(r)
      PROVE  UNCHANGED job \/ \E j \in Jobs : CreateJob(r, j)
  BY <1>1 DEF Ingest, StartRequest, SaveConversation, PreCharge, Txn2Error, AbortRequest,
              EndLoop, Respond, DedupeCheck, Enqueue
<1>2. ASSUME NEW j \in Jobs, Arq(j)
      PROVE  UNCHANGED job
  BY <1>2 DEF Arq, Pickup, GiveUp, Timeout
<1>3. ASSUME NEW j \in Jobs, Work(j)
      PROVE  \/ UNCHANGED job \/ Phase1(j) \/ MarkSkippedNoTopic(j) \/ Phase3Commit(j)
             \/ MarkJobFailed(j) /\ job' = MarkFailed(job, j)
  BY <1>3 DEF Work, Phase1Skip, Phase1Error, Phase2, NoTopicRefund, Phase3Skip, Phase3Write,
              PublishProgress, PersistError, FailRefund, MarkJobFailed
<1>4. ASSUME \/ \E j \in Jobs : RefundSweptRow(j)
             \/ SweepError \/ WorkerCrash \/ WorkerStop \/ ApiRestart
      PROVE  UNCHANGED job
  BY <1>4 DEF RefundSweptRow, SweepError, WorkerCrash, WorkerStop, ApiRestart
<1> QED BY <1>1, <1>2, <1>3, <1>4 DEF Next, vars

(* A row that exists stays, with its conversation and source; one that was *)
(* started never becomes pending again; a row appears only by CreateJob.   *)
LEMMA RowsKept ==
  ASSUME TypeOK, [Next]_vars, NEW k \in Jobs
  PROVE  /\ job[k].status # "absent" =>
              job'[k].status # "absent" /\ SameOwner(job'[k], job[k])
         /\ job[k].status \notin {"absent", "pending"} =>
              job'[k].status \notin {"absent", "pending"}
         /\ job[k].status = "absent" /\ job'[k].status # "absent" =>
              \E r \in Requests : CreateJob(r, k)
<1>0. job \in [Jobs -> Row] /\ job[k] \in Row
  BY DEF TypeOK
<1>1. CASE UNCHANGED job
  BY <1>1 DEF SameOwner
<1>2. ASSUME NEW r \in Requests, NEW j \in Jobs, CreateJob(r, j) PROVE j = k \/ job'[k] = job[k]
  BY <1>0, <1>2 DEF CreateJob, CreatePending
<1>3. ASSUME NEW r \in Requests, CreateJob(r, k) PROVE job[k].status = "absent"
  BY <1>3 DEF CreateJob
<1>4. ASSUME NEW j \in Jobs, Phase1(j)
      PROVE  /\ SameOwner(job'[k], job[k])
             /\ \/ job'[k].status = job[k].status
                \/ job'[k].status = "running" /\ job[k].status \in {"pending", "failed"}
  <2>1. job' = MarkRunning(job, j)
    BY <1>4 DEF Phase1
  <2>2. /\ SameOwner(job'[k], job[k])
        /\ job'[k].status = IF k = j /\ CanStart(job[j]) THEN "running" ELSE job[k].status
    BY <1>0, <2>1, RunningRows
  <2> QED BY <2>2 DEF CanStart
<1>5. ASSUME NEW j \in Jobs, MarkSkippedNoTopic(j) \/ Phase3Commit(j)
      PROVE  /\ SameOwner(job'[k], job[k])
             /\ \/ job'[k].status = job[k].status
                \/ job'[k].status = "completed" /\ job[k].status \in Active
  <2>1. job' = Close(job, j, "completed")
    BY <1>5 DEF MarkSkippedNoTopic, Phase3Commit, MarkCompleted
  <2>2. /\ SameOwner(job'[k], job[k])
        /\ job'[k].status = IF k = j /\ job[j].status \in Active THEN "completed"
                            ELSE job[k].status
    BY <1>0, <2>1, ClosedRows
  <2> QED BY <2>2
<1>6. ASSUME NEW j \in Jobs, job' = MarkFailed(job, j)
      PROVE  /\ SameOwner(job'[k], job[k])
             /\ \/ job'[k].status = job[k].status
                \/ job'[k].status = "failed" /\ job[k].status \in Active
  <2>1. job' = Close(job, j, "failed")
    BY <1>6 DEF MarkFailed
  <2>2. /\ SameOwner(job'[k], job[k])
        /\ job'[k].status = IF k = j /\ job[j].status \in Active THEN "failed"
                            ELSE job[k].status
    BY <1>0, <2>1, ClosedRows
  <2> QED BY <2>2
<1>7. ASSUME SweepRows
      PROVE  /\ SameOwner(job'[k], job[k])
             /\ \/ job'[k].status = job[k].status
                \/ job'[k].status = "failed" /\ job[k].status \in Active
  <2> DEFINE swept == Stale(job, sweeper.next, Threshold(sweeper.next))
  <2>1. swept \in SUBSET Jobs
    BY DEF Stale
  <2>2. job' = Sweep(job, swept)
    BY <1>7 DEF SweepRows
  <2>3. k \in swept => job[k].status \in Active
    BY DEF Stale, TypeOK, Active
  <2> HIDE DEF swept
  <2>4. /\ SameOwner(job'[k], job[k])
        /\ job'[k].status = IF k \in swept THEN "failed" ELSE job[k].status
    BY <1>0, <2>1, <2>2, SweptRows
  <2> QED BY <2>3, <2>4
<1>8. ASSUME Tick PROVE SameOwner(job'[k], job[k]) /\ job'[k].status = job[k].status
  BY <1>0, <1>8, OlderRows DEF Tick
<1>9. \/ job'[k] = job[k]
      \/ \E r \in Requests : CreateJob(r, k)
      \/ /\ SameOwner(job'[k], job[k])
         /\ \/ job'[k].status = job[k].status
            \/ job'[k].status = "running" /\ job[k].status \in {"pending", "failed"}
            \/ job'[k].status \in Terminal /\ job[k].status \in Active
  BY <1>1, <1>2, <1>4, <1>5, <1>6, <1>7, <1>8, TableSteps DEF Terminal
<1> QED BY <1>3, <1>9 DEF Active, Terminal, SameOwner

----------------------------------------------------------------------------
(* The strengthened invariant, one conjunct at a time.                     *)

Past1 == {"llm", "notopic", "phase3", "commit"}

(* An attempt appears only by Pickup, and gets past phase 1 only by Phase1. *)
LEMMA AttemptsKept ==
  ASSUME TypeOK, [Next]_vars, NEW k \in Jobs
  PROVE  /\ att'[k].pc # "idle" => att[k].pc # "idle" \/ Pickup(k)
         /\ att'[k].pc \in Past1 => att[k].pc \in Past1 \/ Phase1(k)
<1>0. att \in [Jobs -> Attempt] /\ att[k] \in Attempt /\ NoAttempt.pc = "idle"
  BY DEF TypeOK, NoAttempt
<1>1. ASSUME NEW r \in Requests, Ingest(r) PROVE att' = att
  BY <1>1 DEF Ingest, StartRequest, SaveConversation, PreCharge, Txn2Error, AbortRequest,
              EndLoop, Respond, DedupeCheck, CreateJob, Enqueue, ingestFrame
<1>2. ASSUME (\E j \in Jobs : RefundSweptRow(j)) \/ SweepRows \/ SweepError \/ ApiRestart
      PROVE  att' = att
  BY <1>2 DEF RefundSweptRow, SweepRows, SweepError, ApiRestart
<1>3. ASSUME WorkerCrash \/ WorkerStop PROVE att'[k].pc = "idle"
  BY <1>0, <1>3 DEF WorkerCrash, WorkerStop
<1>4. ASSUME Tick PROVE att'[k].pc = att[k].pc
  <2>1. att'[k] = IF At(k, "idle") THEN att[k] ELSE [att[k] EXCEPT !.left = @ - 1]
    BY <1>4 DEF Tick
  <2> QED BY <1>0, <2>1 DEF Attempt
<1>5. ASSUME NEW j \in Jobs, Leave(j)
      PROVE  att'[k] = att[k] \/ att'[k].pc = "idle"
  BY <1>0, <1>5 DEF Leave
<1>6. ASSUME NEW j \in Jobs, Pickup(j)
      PROVE  att'[k] = att[k] \/ (k = j /\ att'[k].pc = "phase1")
  BY <1>0, <1>6 DEF Pickup
<1>7. ASSUME NEW j \in Jobs, NEW pc \in AttemptPcs, Goto(j, pc)
      PROVE  att'[k] = att[k] \/ (k = j /\ att'[k].pc = pc)
  BY <1>0, <1>7 DEF Goto, Attempt
<1>8. ASSUME NEW j \in Jobs, Phase1(j)
      PROVE  att'[k] = att[k] \/ (k = j /\ att[k].pc = "phase1")
  BY <1>0, <1>8 DEF Phase1, At
<1>9. ASSUME NEW j \in Jobs, Phase1Error(j)
      PROVE  att'[k] = att[k] \/ (k = j /\ att[k].pc = "phase1" /\ att'[k].pc = "failing")
  BY <1>0, <1>9 DEF Phase1Error, At, Attempt
<1>10. ASSUME NEW j \in Jobs, Arq(j) \/ Work(j)
       PROVE  \/ att'[k] = att[k] \/ att'[k].pc = "idle"
              \/ Pickup(k) /\ att'[k].pc = "phase1"
              \/ Phase1(k) /\ att[k].pc = "phase1"
              \/ att[k].pc # "idle" /\ att'[k].pc \notin Past1
              \/ att[k].pc \in Past1
  <2>1. CASE GiveUp(j) \/ Timeout(j) \/ Phase1Skip(j) \/ NoTopicRefund(j) \/ Phase3Skip(j)
             \/ PublishProgress(j) \/ MarkJobFailed(j)
    <3>1. Leave(j)
      BY <2>1 DEF GiveUp, Timeout, Phase1Skip, NoTopicRefund, Phase3Skip, PublishProgress,
                  MarkJobFailed
    <3> QED BY <3>1, <1>5
  <2>2. CASE Pickup(j)
    BY <2>2, <1>6
  <2>3. CASE Phase1(j)
    BY <2>3, <1>8
  <2>4. CASE Phase1Error(j)
    BY <2>4, <1>9 DEF Past1
  <2>5. CASE Phase2(j) \/ MarkSkippedNoTopic(j) \/ Phase3Write(j) \/ Phase3Commit(j)
             \/ PersistError(j)
    <3>1. att[j].pc \in Past1
      BY <2>5 DEF Phase2, MarkSkippedNoTopic, Phase3Write, Phase3Commit, PersistError, At, Past1
    <3>2. \E pc \in AttemptPcs : Goto(j, pc)
      BY <2>5 DEF Phase2, MarkSkippedNoTopic, Phase3Write, Phase3Commit, PersistError, AttemptPcs
    <3> QED BY <3>1, <3>2, <1>7
  <2>6. CASE FailRefund(j)
    <3>1. At(j, "failing") /\ Goto(j, "markFailed")
      BY <2>6 DEF FailRefund
    <3> QED BY <3>1, <1>7 DEF At, Past1, AttemptPcs
  <2> QED BY <1>10, <2>1, <2>2, <2>3, <2>4, <2>5, <2>6 DEF Arq, Work
<1>11. CASE UNCHANGED vars
  BY <1>11 DEF vars
<1> QED BY <1>1, <1>2, <1>3, <1>4, <1>10, <1>11 DEF Next, Past1

(* Jobs enter a request's enq by CreateJob only and arq's queue by Enqueue *)
(* only.                                                                   *)
LEMMA EnqueueSteps ==
  ASSUME TypeOK, NEW r \in Requests, Ingest(r)
  PROVE  /\ \A q \in Requests : \A k \in req'[q].enq :
              k \in req[q].enq \/ (k \in Jobs /\ CreateJob(q, k))
         /\ \A k \in queue' : k \in queue \/ k \in req[r].enq
<1>0. /\ req \in [Requests -> Request] /\ req[r] \in Request
      /\ \A q \in Requests \ {r} : req'[q] = req[q]
  BY DEF TypeOK, Ingest, StartRequest, SaveConversation, PreCharge, Txn2Error, AbortRequest,
         EndLoop, Respond, DedupeCheck, CreateJob, Enqueue
<1>1. /\ \A body : Begin(req[r], body).enq = req[r].enq
      /\ \A u : TakeUp(req[r], u).enq = req[r].enq
      /\ Saved(req[r]).enq = req[r].enq /\ Continue(req[r]).enq = req[r].enq
      /\ OverBudget(req[r]).enq = req[r].enq /\ Failed(req[r]).enq = req[r].enq
      /\ \A pc : Leaving(req[r], pc).enq = req[r].enq
      /\ \A j : Created(req[r], j).enq = req[r].enq \cup {j}
  BY <1>0 DEF Begin, TakeUp, Saved, Continue, OverBudget, Failed, Leaving, Created, Request
<1>2. CASE StartRequest(r) \/ SaveConversation(r)
  BY <1>0, <1>1, <1>2 DEF StartRequest, SaveConversation, ingestFrame
<1>3. CASE PreCharge(r)
  <2>1. [req EXCEPT ![r].pc = "txn2"][r].enq = req[r].enq
    BY <1>0 DEF Request
  <2> QED BY <1>0, <1>1, <1>3, <2>1 DEF PreCharge, ingestFrame
<1>4. CASE Txn2Error(r) \/ AbortRequest(r) \/ Respond(r)
  BY <1>0, <1>1, <1>4 DEF Txn2Error, AbortRequest, Respond, ingestFrame
<1>5. CASE EndLoop(r)
  BY <1>0, <1>5 DEF EndLoop, Request, ingestFrame
<1>6. ASSUME NEW u \in Uploads, DedupeCheck(r, u)
      PROVE  req'[r].enq = req[r].enq /\ queue' = queue
  <2>1. [req EXCEPT ![r].todo = @ \ {u}][r].enq = req[r].enq
    BY <1>0 DEF Request
  <2> QED BY <1>0, <1>1, <1>6, <2>1 DEF DedupeCheck, ingestFrame
<1>7. ASSUME NEW j \in Jobs, CreateJob(r, j)
      PROVE  req'[r].enq = req[r].enq \cup {j} /\ queue' = queue
  BY <1>0, <1>1, <1>7 DEF CreateJob, ingestFrame
<1>8. ASSUME NEW j \in Jobs, Enqueue(r, j)
      PROVE  req'[r].enq = req[r].enq /\ queue' = queue \cup {j} /\ j \in req[r].enq
  BY <1>0, <1>8 DEF Enqueue, Request
<1> QED BY <1>0, <1>2, <1>3, <1>4, <1>5, <1>6, <1>7, <1>8 DEF Ingest

LEMMA QueueOthers ==
  ASSUME TypeOK, [Next]_vars, ~(\E r \in Requests : Ingest(r))
  PROVE  /\ queue' \subseteq queue
         /\ \A q \in Requests : req'[q].enq = req[q].enq
<1>1. CASE UNCHANGED vars
  BY <1>1 DEF vars
<1>2. ASSUME NEW j \in Jobs, Arq(j) \/ Work(j)
      PROVE  queue' \subseteq queue /\ req' = req
  BY <1>2 DEF Arq, Work, Pickup, GiveUp, Timeout, Phase1Skip, Phase1, Phase1Error, Phase2,
              MarkSkippedNoTopic, NoTopicRefund, Phase3Skip, Phase3Write, Phase3Commit,
              PublishProgress, PersistError, FailRefund, MarkJobFailed, workerFrame, arqVars, Leave
<1>3. ASSUME \/ \E j \in Jobs : RefundSweptRow(j)
             \/ SweepRows \/ SweepError \/ Tick \/ WorkerCrash \/ WorkerStop
      PROVE  queue' = queue /\ req' = req
  BY <1>3 DEF RefundSweptRow, SweepRows, SweepError, Tick, WorkerCrash, WorkerStop
<1>4. CASE ApiRestart
  <2>1. queue' = queue
    BY <1>4 DEF ApiRestart
  <2>2. ASSUME NEW q \in Requests PROVE req'[q].enq = req[q].enq
    <3>1. req[q] \in Request
      BY DEF TypeOK
    <3>2. Leaving(req[q], "dead").enq = req[q].enq
      BY <3>1 DEF Leaving, Request
    <3> QED BY <1>4, <3>2 DEF ApiRestart
  <2> QED BY <2>1, <2>2
<1> QED BY <1>1, <1>2, <1>3, <1>4 DEF Next

LEMMA EnqueuedStep ==
  ASSUME IInv, [Next]_vars
  PROVE  EnqueuedRowsExist'
<1> SUFFICES ASSUME NEW q \in Requests, NEW k \in req'[q].enq
             PROVE  job'[k].status # "absent"
  BY DEF EnqueuedRowsExist
<1>0. TypeOK /\ EnqueuedRowsExist
  BY DEF IInv
<1>1. k \in req[q].enq \/ (k \in Jobs /\ CreateJob(q, k))
  BY <1>0, EnqueueSteps, QueueOthers
<1>2. CASE k \in req[q].enq
  <2>1. k \in Jobs /\ job[k].status # "absent"
    BY <1>0, <1>2 DEF TypeOK, Request, EnqueuedRowsExist
  <2> QED BY <1>0, <2>1, RowsKept
<1>3. CASE k \in Jobs /\ CreateJob(q, k)
  BY <1>0, <1>3 DEF CreateJob, CreatePending, TypeOK
<1> QED BY <1>1, <1>2, <1>3

LEMMA WorkerStep ==
  ASSUME IInv, [Next]_vars
  PROVE  WorkerNeverAheadOfRow'
<1> SUFFICES ASSUME NEW k \in Jobs, k \in queue' \/ att'[k].pc # "idle"
             PROVE  job'[k].status # "absent"
  BY DEF WorkerNeverAheadOfRow, At
<1>0. TypeOK /\ EnqueuedRowsExist /\ WorkerNeverAheadOfRow
  BY DEF IInv
<1>1. k \in queue' => k \in queue \/ \E r \in Requests : k \in req[r].enq
  BY <1>0, EnqueueSteps, QueueOthers
<1>2. att'[k].pc # "idle" => att[k].pc # "idle" \/ k \in queue
  BY <1>0, AttemptsKept DEF Pickup
<1>3. job[k].status # "absent"
  BY <1>0, <1>1, <1>2 DEF EnqueuedRowsExist, WorkerNeverAheadOfRow, At
<1> QED BY <1>0, <1>3, RowsKept

LEMMA StartedStep ==
  ASSUME IInv, [Next]_vars
  PROVE  StartedAttempts'
<1> SUFFICES ASSUME NEW k \in Jobs, att'[k].pc \in Past1
             PROVE  job'[k].status \notin {"absent", "pending"}
  BY DEF StartedAttempts, Past1
<1>0. TypeOK /\ StartedAttempts /\ WorkerNeverAheadOfRow
  BY DEF IInv
<1>1. att[k].pc \in Past1 \/ Phase1(k)
  BY <1>0, AttemptsKept
<1>2. CASE att[k].pc \in Past1
  <2>1. job[k].status \notin {"absent", "pending"}
    BY <1>0, <1>2 DEF StartedAttempts, Past1
  <2> QED BY <1>0, <2>1, RowsKept
<1>3. CASE Phase1(k)
  <2>1. job[k].status # "absent"
    BY <1>0, <1>3 DEF Phase1, WorkerNeverAheadOfRow, At
  <2>2. job' = MarkRunning(job, k)
    BY <1>3 DEF Phase1
  <2>3. job'[k].status = IF CanStart(job[k]) THEN "running" ELSE job[k].status
    BY <1>0, <2>2, RunningRows DEF TypeOK
  <2> QED BY <2>1, <2>3 DEF CanStart
<1> QED BY <1>1, <1>2, <1>3

LEMMA FilledStep ==
  ASSUME IInv, [Next]_vars
  PROVE  RowsFilled'
<1> SUFFICES ASSUME NEW k \in Jobs, job'[k].status # "absent"
             PROVE  job'[k].conv \in Convs /\ job'[k].source \in Sources
  BY DEF RowsFilled
<1>0. TypeOK /\ UploadInHand /\ RowsFilled
  BY DEF IInv
<1>1. CASE job[k].status # "absent"
  BY <1>0, <1>1, RowsKept DEF RowsFilled, SameOwner
<1>2. CASE job[k].status = "absent"
  <2>1. PICK r \in Requests : CreateJob(r, k)
    BY <1>0, <1>2, RowsKept
  <2>2. ConvOf[req[r].cur] \in Convs /\ SourceOf[req[r].cur] \in Sources
    BY <1>0, <2>1, ConstantsAssumption DEF UploadInHand, CreateJob
  <2> QED BY <1>0, <2>1, <2>2 DEF CreateJob, CreatePending, TypeOK
<1> QED BY <1>1, <1>2

(* Apart from the rows that CreateJob and Phase1 activate, rows only leave *)
(* the active state.                                                       *)
LEMMA Activations ==
  ASSUME TypeOK, [Next]_vars, NEW k \in Jobs, job'[k].status \in Active
  PROVE  \/ job[k].status \in Active
         \/ \E r \in Requests : CreateJob(r, k)
         \/ Phase1(k) /\ CanStart(job[k])
<1>0. job \in [Jobs -> Row] /\ job[k] \in Row
  BY DEF TypeOK
<1>1. CASE UNCHANGED job
  BY <1>1
<1>2. ASSUME NEW r \in Requests, NEW j \in Jobs, CreateJob(r, j)
      PROVE  j = k \/ job'[k] = job[k]
  BY <1>0, <1>2 DEF CreateJob, CreatePending
<1>3. ASSUME NEW j \in Jobs, Phase1(j)
      PROVE  job'[k].status = job[k].status \/ (j = k /\ CanStart(job[k]))
  <2>1. job' = MarkRunning(job, j)
    BY <1>3 DEF Phase1
  <2> QED BY <1>0, <2>1, RunningRows
<1>4. ASSUME NEW j \in Jobs, NEW status \in Terminal, job' = Close(job, j, status)
      PROVE  job'[k].status = job[k].status
  <2>1. job'[k].status = IF k = j /\ job[j].status \in Active THEN status ELSE job[k].status
    BY <1>0, <1>4, ClosedRows
  <2> QED BY <1>4, <2>1 DEF Active, Terminal
<1>5. ASSUME SweepRows PROVE job'[k].status = job[k].status
  <2> DEFINE swept == Stale(job, sweeper.next, Threshold(sweeper.next))
  <2>1. swept \in SUBSET Jobs
    BY DEF Stale
  <2>2. job' = Sweep(job, swept)
    BY <1>5 DEF SweepRows
  <2> HIDE DEF swept
  <2>3. job'[k].status = IF k \in swept THEN "failed" ELSE job[k].status
    BY <1>0, <2>1, <2>2, SweptRows
  <2> QED BY <2>3 DEF Active
<1>6. ASSUME Tick PROVE job'[k].status = job[k].status
  BY <1>0, <1>6, OlderRows DEF Tick
<1>7. ASSUME NEW j \in Jobs, MarkSkippedNoTopic(j) \/ Phase3Commit(j) \/ job' = MarkFailed(job, j)
      PROVE  \E status \in Terminal : job' = Close(job, j, status)
  BY <1>7 DEF MarkSkippedNoTopic, Phase3Commit, MarkCompleted, MarkFailed, Terminal
<1> QED BY <1>1, <1>2, <1>3, <1>4, <1>5, <1>6, <1>7, TableSteps

LEMMA SlotStep ==
  ASSUME IInv, [Next]_vars
  PROVE  OneActivePerSlot'
<1> SUFFICES ASSUME NEW j \in Jobs, NEW k \in Jobs, j # k,
                    job'[j].status \in Active, job'[k].status \in Active,
                    SameOwner(job'[k], job'[j])
             PROVE  FALSE
  BY DEF OneActivePerSlot, InSlot, SameOwner
<1>0. TypeOK /\ OneActivePerSlot /\ job \in [Jobs -> Row]
  BY DEF IInv, TypeOK
<1>1. ASSUME NEW x \in Jobs, NEW y \in Jobs, x # y, NEW r \in Requests, CreateJob(r, x),
             job'[y].status \in Active
      PROVE  ~SameOwner(job'[x], job'[y])
  <2>1. job'[y] = job[y] /\ job'[x].conv = ConvOf[req[r].cur] /\ job'[x].source = SourceOf[req[r].cur]
    BY <1>0, <1>1 DEF CreateJob, CreatePending
  <2>2. ~InSlot(job[y], ConvOf[req[r].cur], SourceOf[req[r].cur])
    BY <1>1 DEF CreateJob, SlotTaken
  <2> QED BY <1>1, <2>1, <2>2 DEF InSlot, SameOwner
<1>2. ASSUME NEW x \in Jobs, NEW y \in Jobs, x # y, Phase1(x), CanStart(job[x]),
             job'[y].status \in Active
      PROVE  ~SameOwner(job'[x], job'[y])
  <2>1. job' = MarkRunning(job, x)
    BY <1>2 DEF Phase1
  <2>2. /\ SameOwner(job'[x], job[x]) /\ SameOwner(job'[y], job[y])
        /\ job'[y].status = job[y].status
    BY <1>0, <1>2, <2>1, RunningRows
  <2>3. ~InSlot(job[y], job[x].conv, job[x].source)
    BY <1>2 DEF Phase1, RevivalConflict, SlotTaken
  <2> QED BY <1>2, <2>2, <2>3 DEF InSlot, SameOwner
<1>3. CASE job[j].status \in Active /\ job[k].status \in Active
  <2>1. SameOwner(job'[j], job[j]) /\ SameOwner(job'[k], job[k])
    BY <1>0, <1>3, RowsKept DEF Active
  <2> QED BY <1>0, <1>3, <2>1 DEF OneActivePerSlot, InSlot, SameOwner
<1>4. CASE job[j].status \notin Active
  BY <1>0, <1>1, <1>2, <1>4, Activations DEF SameOwner
<1>5. CASE job[k].status \notin Active
  BY <1>0, <1>1, <1>2, <1>5, Activations DEF SameOwner
<1> QED BY <1>3, <1>4, <1>5

(* processed_at is never taken back.                                       *)
LEMMA ProcessedKept ==
  ASSUME TypeOK, [Next]_vars, NEW c \in Convs
  PROVE  /\ Processed(c) => Processed(c)'
         /\ Processed(c)' /\ ~Processed(c) =>
              \E j \in Jobs : /\ MarkSkippedNoTopic(j) \/ Phase3Commit(j)
                              /\ job[j].conv = c
<1>0. conv \in [Convs -> Conversation] /\ conv[c] \in Conversation
  BY DEF TypeOK
<1>1. CASE UNCHANGED conv
  BY <1>1 DEF Processed
<1>2. ASSUME NEW r \in Requests, SaveConversation(r) PROVE conv'[c].processed = conv[c].processed
  BY <1>0, <1>2 DEF SaveConversation, Conversation
<1>3. ASSUME NEW j \in Jobs, MarkSkippedNoTopic(j)
      PROVE  \/ conv'[c] = conv[c]
             \/ conv'[c].processed /\ job[j].conv = c
  BY <1>0, <1>3 DEF MarkSkippedNoTopic, Conversation
<1>4. ASSUME NEW j \in Jobs, Phase3Commit(j)
      PROVE  \/ conv'[c] = conv[c]
             \/ conv'[c].processed /\ job[j].conv = c
  <2>1. CASE job[j].conv = c
    <3>1. conv' = [conv EXCEPT ![c].processed = TRUE, ![c].batches = @ + 1]
      BY <1>4, <2>1 DEF Phase3Commit
    <3> QED BY <1>0, <2>1, <3>1 DEF Conversation
  <2>2. CASE job[j].conv # c
    BY <1>0, <1>4, <2>2 DEF Phase3Commit
  <2> QED BY <2>1, <2>2
<1>5. \/ UNCHANGED conv
      \/ \E r \in Requests : SaveConversation(r)
      \/ \E j \in Jobs : MarkSkippedNoTopic(j) \/ Phase3Commit(j)
  BY DEF Next, vars, Ingest, StartRequest, PreCharge, Txn2Error, AbortRequest, EndLoop, Respond,
         DedupeCheck, CreateJob, Enqueue, Arq, Work, Pickup, GiveUp, Timeout, Phase1Skip, Phase1,
         Phase1Error, Phase2, NoTopicRefund, Phase3Skip, Phase3Write, PublishProgress,
         PersistError, FailRefund, MarkJobFailed, RefundSweptRow, SweepRows, SweepError, Tick,
         WorkerCrash, WorkerStop, ApiRestart
<1> QED BY <1>1, <1>2, <1>3, <1>4, <1>5 DEF Processed

(* A completed row is never written again.                                 *)
LEMMA CompletedKept ==
  ASSUME TypeOK, [Next]_vars, NEW k \in Jobs, job[k].status = "completed"
  PROVE  job'[k] = job[k]
<1>0. job \in [Jobs -> Row] /\ ~CanStart(job[k]) /\ job[k].status \notin Active
  BY DEF TypeOK, CanStart, Active
<1>1. ASSUME NEW r \in Requests, NEW j \in Jobs, CreateJob(r, j) PROVE job'[k] = job[k]
  BY <1>0, <1>1 DEF CreateJob, CreatePending
<1>2. ASSUME NEW j \in Jobs, Phase1(j) PROVE job'[k] = job[k]
  BY <1>0, <1>2, RunningRows DEF Phase1
<1>3. ASSUME NEW j \in Jobs, NEW status, job' = Close(job, j, status) PROVE job'[k] = job[k]
  BY <1>0, <1>3, ClosedRows
<1>4. ASSUME SweepRows PROVE job'[k] = job[k]
  <2> DEFINE swept == Stale(job, sweeper.next, Threshold(sweeper.next))
  <2>1. swept \in SUBSET Jobs /\ job' = Sweep(job, swept)
    BY <1>4 DEF SweepRows, Stale
  <2>2. k \notin swept
    BY <1>0 DEF Stale, TypeOK, Active
  <2> HIDE DEF swept
  <2> QED BY <1>0, <2>1, <2>2, SweptRows
<1>5. ASSUME Tick PROVE job'[k] = job[k]
  BY <1>0, <1>5, OlderRows DEF Tick
<1>6. ASSUME NEW j \in Jobs, MarkSkippedNoTopic(j) \/ Phase3Commit(j) \/ job' = MarkFailed(job, j)
      PROVE  \E status : job' = Close(job, j, status)
  BY <1>6 DEF MarkSkippedNoTopic, Phase3Commit, MarkCompleted, MarkFailed
<1> QED BY <1>1, <1>2, <1>3, <1>4, <1>5, <1>6, TableSteps

(* A row completes only with the processed_at of its conversation.         *)
LEMMA Completions ==
  ASSUME TypeOK, [Next]_vars, NEW k \in Jobs,
         job'[k].status = "completed", job[k].status # "completed"
  PROVE  job[k].status \in Active /\ (MarkSkippedNoTopic(k) \/ Phase3Commit(k))
<1>0. job \in [Jobs -> Row] /\ job[k] \in Row
  BY DEF TypeOK
<1>1. ~ \E r \in Requests, j \in Jobs : CreateJob(r, j)
  BY <1>0 DEF CreateJob, CreatePending
<1>2. ~ \E j \in Jobs : Phase1(j)
  <2> SUFFICES ASSUME NEW j \in Jobs, Phase1(j) PROVE FALSE
    OBVIOUS
  <2>1. job' = MarkRunning(job, j)
    BY DEF Phase1
  <2>2. job'[k].status = IF k = j /\ CanStart(job[j]) THEN "running" ELSE job[k].status
    BY <1>0, <2>1, RunningRows
  <2> QED BY <2>2
<1>3. ~ \E j \in Jobs : job' = MarkFailed(job, j)
  <2> SUFFICES ASSUME NEW j \in Jobs, job' = Close(job, j, "failed") PROVE FALSE
    BY DEF MarkFailed
  <2>1. job'[k].status = IF k = j /\ job[j].status \in Active THEN "failed" ELSE job[k].status
    BY <1>0, ClosedRows
  <2> QED BY <2>1
<1>4. ~SweepRows
  <2> SUFFICES ASSUME SweepRows PROVE FALSE
    OBVIOUS
  <2> DEFINE swept == Stale(job, sweeper.next, Threshold(sweeper.next))
  <2>1. swept \in SUBSET Jobs /\ job' = Sweep(job, swept)
    BY DEF SweepRows, Stale
  <2> HIDE DEF swept
  <2>2. job'[k].status = IF k \in swept THEN "failed" ELSE job[k].status
    BY <1>0, <2>1, SweptRows
  <2> QED BY <2>2
<1>5. ~Tick
  BY <1>0, OlderRows DEF Tick
<1>6. PICK j \in Jobs : MarkSkippedNoTopic(j) \/ Phase3Commit(j)
  BY <1>1, <1>2, <1>3, <1>4, <1>5, TableSteps
<1>7. job' = Close(job, j, "completed")
  BY <1>6 DEF MarkSkippedNoTopic, Phase3Commit, MarkCompleted
<1>8. job'[k].status = IF k = j /\ job[j].status \in Active THEN "completed" ELSE job[k].status
  BY <1>0, <1>7, ClosedRows
<1> QED BY <1>6, <1>8

LEMMA CompletedStep ==
  ASSUME IInv, [Next]_vars
  PROVE  CompletedMeansProcessed'
<1> SUFFICES ASSUME NEW k \in Jobs, job'[k].status = "completed"
             PROVE  conv'[job'[k].conv].processed
  BY DEF CompletedMeansProcessed, Processed
<1>0. TypeOK /\ CompletedMeansProcessed /\ RowsFilled
  BY DEF IInv
<1>1. CASE job[k].status = "completed"
  <2>1. job'[k] = job[k] /\ job[k].conv \in Convs /\ Processed(job[k].conv)
    BY <1>0, <1>1, CompletedKept DEF RowsFilled, CompletedMeansProcessed
  <2> QED BY <1>0, <2>1, ProcessedKept DEF Processed
<1>2. CASE job[k].status # "completed"
  <2>1. job[k].status \in Active /\ (MarkSkippedNoTopic(k) \/ Phase3Commit(k))
    BY <1>0, <1>2, Completions
  <2>2. job'[k].conv = job[k].conv /\ job[k].conv \in Convs
    BY <1>0, <2>1, RowsKept DEF SameOwner, RowsFilled, Active
  <2>3. conv[job[k].conv] \in Conversation /\ conv \in [Convs -> Conversation]
    BY <1>0, <2>2 DEF TypeOK
  <2>4. CASE MarkSkippedNoTopic(k)
    BY <2>2, <2>3, <2>4 DEF MarkSkippedNoTopic, Conversation
  <2>5. CASE Phase3Commit(k)
    <3> DEFINE c == job[k].conv
    <3>1. conv' = [conv EXCEPT ![c].processed = TRUE, ![c].batches = @ + 1]
      BY <2>5 DEF Phase3Commit
    <3> HIDE DEF c
    <3>2. c \in Convs => conv'[c].processed
      BY <2>3, <3>1 DEF Conversation
    <3> QED BY <2>2, <3>2 DEF c
  <2> QED BY <2>1, <2>4, <2>5
<1> QED BY <1>1, <1>2

----------------------------------------------------------------------------
(* The theorems of safety.                                                 *)

LEMMA IInvInit == Init => IInv
<1> SUFFICES ASSUME Init PROVE IInv
  OBVIOUS
<1>1. /\ \A j \in Jobs : job[j].status = "absent" /\ att[j].pc = "idle"
      /\ \A r \in Requests : req[r].pc = "idle" /\ req[r].enq = {}
      /\ queue = {}
  BY DEF Init, Absent, NoAttempt
<1> QED BY <1>1, TypeInit DEF IInv, UploadInHand, RowsFilled, EnqueuedRowsExist,
        WorkerNeverAheadOfRow, StartedAttempts, OneActivePerSlot, CompletedMeansProcessed,
        At, Active

LEMMA IInvStep == IInv /\ [Next]_vars => IInv'
<1> SUFFICES ASSUME IInv, [Next]_vars PROVE IInv'
  OBVIOUS
<1>1. TypeOK' /\ UploadInHand'
  BY TypedStep DEF IInv, Typed
<1> QED BY <1>1, FilledStep, EnqueuedStep, WorkerStep, StartedStep, SlotStep, CompletedStep
        DEF IInv

(* The strengthened invariant holds in every reachable state.              *)
THEOREM Invariance == Spec => []IInv
BY IInvInit, IInvStep, PTL DEF Spec

(* create_pending, mark_running and the sweeps keep at most one active job *)
(* per (conversation, source), whatever the interleaving and the faults.   *)
THEOREM SlotSafety == Spec => []OneActivePerSlot
<1>1. IInv => OneActivePerSlot
  BY DEF IInv
<1> QED BY <1>1, Invariance, PTL

(* A completed job's conversation is processed.                            *)
THEOREM CompletionSafety == Spec => []CompletedMeansProcessed
<1>1. IInv => CompletedMeansProcessed
  BY DEF IInv
<1> QED BY <1>1, Invariance, PTL

(* The worker never runs a job whose row is not committed: ingest enqueues *)
(* after its transactions.                                                 *)
THEOREM EnqueueSafety == Spec => []WorkerNeverAheadOfRow
<1>1. IInv => WorkerNeverAheadOfRow
  BY DEF IInv
<1> QED BY <1>1, Invariance, PTL

(* No retry, late failure or sweep overwrites a completed row.             *)
THEOREM CompletionIsFinal == Spec => CompletedIsFinal
<1>1. IInv /\ [Next]_vars => [\A j \in Jobs : job[j].status = "completed" => job'[j] = job[j]]_vars
  <2> SUFFICES ASSUME IInv, [Next]_vars, NEW j \in Jobs, job[j].status = "completed"
               PROVE  job'[j] = job[j]
    OBVIOUS
  <2> QED BY CompletedKept DEF IInv
<1> QED BY <1>1, Invariance, PTL DEF Spec, CompletedIsFinal

----------------------------------------------------------------------------
(* The pipeline implements JobLifecycle: queue, workers, clocks and faults *)
(* are invisible in the table but for the steps the lifecycle allows.      *)

LStatus == [j \in Jobs |-> job[j].status]
LSlot == [j \in Jobs |-> IF job[j].status = "absent" THEN None
                         ELSE <<job[j].conv, job[j].source>>]
LDone == {c \in Convs : conv[c].processed}

LEMMA SameSlots ==
  ASSUME TypeOK, [Next]_vars, \A k \in Jobs : job[k].status = "absent" => job'[k].status = "absent"
  PROVE  LSlot' = LSlot
<1>1. ASSUME NEW k \in Jobs
      PROVE  (IF job'[k].status = "absent" THEN None ELSE <<job'[k].conv, job'[k].source>>)
               = (IF job[k].status = "absent" THEN None ELSE <<job[k].conv, job[k].source>>)
  BY RowsKept DEF SameOwner
<1> QED BY <1>1 DEF LSlot

LEMMA DoneSteps ==
  ASSUME IInv, [Next]_vars
  PROVE  \/ LDone' = LDone
         \/ \E j \in Jobs : MarkSkippedNoTopic(j) \/ Phase3Commit(j)
<1>1. TypeOK
  BY DEF IInv
<1>2. ASSUME ~ \E j \in Jobs : MarkSkippedNoTopic(j) \/ Phase3Commit(j) PROVE LDone' = LDone
  <2>1. \A c \in Convs : conv'[c].processed <=> conv[c].processed
    BY <1>1, <1>2, ProcessedKept DEF Processed
  <2> QED BY <2>1 DEF LDone
<1> QED BY <1>2

LEMMA CompletionDone ==
  ASSUME IInv, NEW j \in Jobs, MarkSkippedNoTopic(j) \/ Phase3Commit(j)
  PROVE  /\ LDone' = LDone \cup {job[j].conv}
         /\ job' = Close(job, j, "completed")
         /\ job[j].status \in {"running", "completed", "failed"}
<1>0. TypeOK /\ RowsFilled /\ StartedAttempts /\ job[j] \in Row
  BY DEF IInv, TypeOK
<1>1. job[j].status \in {"running", "completed", "failed"}
  BY <1>0 DEF StartedAttempts, MarkSkippedNoTopic, Phase3Commit, At, Row, Active, Terminal
<1>2. job[j].conv \in Convs
  BY <1>0, <1>1 DEF RowsFilled
<1>3. conv \in [Convs -> Conversation]
  BY <1>0 DEF TypeOK
<1>4. ASSUME NEW c \in Convs PROVE conv'[c].processed <=> conv[c].processed \/ c = job[j].conv
  <2>1. conv[c] \in Conversation
    BY <1>3
  <2>2. CASE MarkSkippedNoTopic(j)
    BY <1>2, <1>3, <2>1, <2>2 DEF MarkSkippedNoTopic, Conversation
  <2>3. CASE Phase3Commit(j)
    <3> DEFINE d == job[j].conv
    <3>1. conv' = [conv EXCEPT ![d].processed = TRUE, ![d].batches = @ + 1]
      BY <2>3 DEF Phase3Commit
    <3> HIDE DEF d
    <3>2. conv'[c].processed <=> conv[c].processed \/ c = d
      BY <1>3, <2>1, <3>1 DEF Conversation
    <3> QED BY <3>2 DEF d
  <2> QED BY <2>2, <2>3
<1>5. LDone' = LDone \cup {job[j].conv}
  BY <1>2, <1>4 DEF LDone
<1> QED BY <1>1, <1>5 DEF MarkSkippedNoTopic, Phase3Commit, MarkCompleted

LEMMA RefineCreate ==
  ASSUME IInv, [Next]_vars, NEW r \in Requests, NEW j \in Jobs, CreateJob(r, j)
  PROVE  Lifecycle!Create(j)
<1> DEFINE c == ConvOf[req[r].cur]
           s == SourceOf[req[r].cur]
<1>0. TypeOK /\ job \in [Jobs -> Row] /\ job[j].status = "absent" /\ LDone' = LDone
  BY DEF IInv, TypeOK, CreateJob, LDone
<1>1. c \in Convs /\ s \in Sources
  BY ConstantsAssumption DEF IInv, UploadInHand, CreateJob
<1>2. job' = [job EXCEPT ![j] = [status |-> "pending", conv |-> c, source |-> s, age |-> 0]]
      /\ ~SlotTaken(job, j, c, s)
  BY DEF CreateJob, CreatePending
<1> HIDE DEF c, s
<1>3. LStatus' = [LStatus EXCEPT ![j] = "pending"] /\ LSlot' = [LSlot EXCEPT ![j] = <<c, s>>]
  BY <1>0, <1>2 DEF LStatus, LSlot
<1>4. Lifecycle!Free(j, <<c, s>>)
  <2> SUFFICES ASSUME NEW k \in Jobs \ {j}, LSlot[k] = <<c, s>>
               PROVE  LStatus[k] \notin {"pending", "running"}
    BY DEF Lifecycle!Free, LSlot, LStatus
  <2>1. CASE job[k].status = "absent"
    BY <2>1 DEF LStatus
  <2>2. CASE job[k].status # "absent"
    BY <1>2, <2>2 DEF LSlot, LStatus, SlotTaken, InSlot, Active
  <2> QED BY <2>1, <2>2
<1> QED BY <1>0, <1>1, <1>3, <1>4 DEF Lifecycle!Create, LStatus, LSlot, LDone

LEMMA RefinePhase1 ==
  ASSUME IInv, [Next]_vars, NEW j \in Jobs, Phase1(j)
  PROVE  Lifecycle!Start(j) \/ UNCHANGED <<LStatus, LSlot, LDone>>
<1>0. /\ TypeOK /\ job \in [Jobs -> Row] /\ RowsFilled
      /\ LDone' = LDone /\ job[j].status # "absent"
      /\ job' = MarkRunning(job, j)
  BY DEF IInv, TypeOK, Phase1, LDone, WorkerNeverAheadOfRow, At
<1>1. CASE ~CanStart(job[j])
  <2>1. job' = job
    BY <1>0, <1>1 DEF MarkRunning
  <2> QED BY <1>0, <2>1 DEF LStatus, LSlot
<1>2. CASE CanStart(job[j])
  <2>1. ASSUME NEW k \in Jobs
        PROVE  job'[k].status = IF k = j THEN "running" ELSE job[k].status
    BY <1>0, <1>2, RunningRows
  <2>2. LSlot' = LSlot
    BY <1>0, <2>1, SameSlots
  <2>3. LStatus' = [LStatus EXCEPT ![j] = "running"]
    BY <2>1 DEF LStatus
  <2>4. LSlot[j] = <<job[j].conv, job[j].source>>
    BY <1>0 DEF LSlot
  <2>5. Lifecycle!Free(j, LSlot[j])
    <3> SUFFICES ASSUME NEW k \in Jobs \ {j}, LSlot[k] = LSlot[j]
                 PROVE  LStatus[k] \notin {"pending", "running"}
      BY DEF Lifecycle!Free, LSlot, LStatus
    <3>1. CASE job[k].status = "absent"
      BY <3>1 DEF LStatus
    <3>2. CASE job[k].status # "absent"
      <4>1. job[k].conv = job[j].conv /\ job[k].source = job[j].source
        BY <2>4, <3>2 DEF LSlot
      <4>2. ~SlotTaken(job, j, job[j].conv, job[j].source)
        BY <1>2 DEF Phase1, RevivalConflict
      <4> QED BY <4>1, <4>2 DEF LStatus, SlotTaken, InSlot, Active
    <3> QED BY <3>1, <3>2
  <2>6. LSlot[j][1] \notin LDone
    <3>1. ~conv[job[j].conv].processed
      BY DEF Phase1, Processed
    <3> QED BY <2>4, <3>1 DEF LDone
  <2>7. LStatus[j] \in {"pending", "failed"}
    BY <1>2 DEF LStatus, CanStart
  <2> QED BY <1>0, <2>2, <2>3, <2>5, <2>6, <2>7 DEF Lifecycle!Start, LStatus, LSlot, LDone
<1> QED BY <1>1, <1>2

LEMMA RefineComplete ==
  ASSUME IInv, [Next]_vars, NEW j \in Jobs, MarkSkippedNoTopic(j) \/ Phase3Commit(j)
  PROVE  \/ Lifecycle!Complete(j) \/ Lifecycle!ProcessOnly(j)
         \/ UNCHANGED <<LStatus, LSlot, LDone>>
<1>0. TypeOK /\ job \in [Jobs -> Row] /\ RowsFilled /\ CompletedMeansProcessed
  BY DEF IInv, TypeOK
<1>1. /\ LDone' = LDone \cup {job[j].conv}
      /\ job' = Close(job, j, "completed")
      /\ job[j].status \in {"running", "completed", "failed"}
  BY CompletionDone
<1>2. LSlot[j][1] = job[j].conv /\ LStatus[j] = job[j].status
  BY <1>1 DEF LSlot, LStatus
<1>3. ASSUME NEW k \in Jobs
      PROVE  job'[k].status = IF k = j /\ job[j].status \in Active THEN "completed"
                                                                  ELSE job[k].status
  BY <1>0, <1>1, ClosedRows
<1>4. LSlot' = LSlot
  BY <1>1, <1>3, <1>0, SameSlots
<1>5. CASE job[j].status = "running"
  <2>1. LStatus' = [LStatus EXCEPT ![j] = "completed"]
    BY <1>3, <1>5 DEF LStatus, Active
  <2> QED BY <1>1, <1>2, <1>4, <1>5, <2>1 DEF Lifecycle!Complete, LStatus, LSlot, LDone
<1>6. CASE job[j].status # "running"
  <2>1. LStatus' = LStatus
    BY <1>1, <1>3, <1>6 DEF LStatus, Active
  <2>2. CASE job[j].status = "failed"
    BY <1>1, <1>2, <1>4, <2>1, <2>2 DEF Lifecycle!ProcessOnly, LStatus, LSlot, LDone
  <2>3. CASE job[j].status = "completed"
    <3>1. job[j].conv \in LDone
      BY <1>0, <2>3 DEF LDone, RowsFilled, CompletedMeansProcessed, Processed
    <3> QED BY <1>1, <1>4, <2>1, <3>1
  <2> QED BY <1>1, <1>6, <2>2, <2>3
<1> QED BY <1>5, <1>6

LEMMA RefineFail ==
  ASSUME IInv, [Next]_vars, NEW S \in SUBSET Jobs, UNCHANGED conv,
         \A k \in S : job[k].status \in Active,
         \A k \in Jobs : job'[k].status = IF k \in S THEN "failed" ELSE job[k].status
  PROVE  Lifecycle!Next
<1>1. TypeOK
  BY DEF IInv
<1>2. LSlot' = LSlot
  BY <1>1, SameSlots DEF Active
<1>3. LStatus' = [k \in Jobs |-> IF k \in S THEN "failed" ELSE LStatus[k]]
  BY DEF LStatus
<1>4. \A k \in S : LStatus[k] \in {"pending", "running"}
  BY DEF LStatus, Active
<1>5. LDone' = LDone
  BY DEF LDone
<1>6. Lifecycle!Fail(S)
  BY <1>2, <1>3, <1>4, <1>5 DEF Lifecycle!Fail, LStatus, LSlot, LDone
<1> QED BY <1>6 DEF Lifecycle!Next

LEMMA RefineNext ==
  ASSUME IInv, [Next]_vars
  PROVE  [Lifecycle!Next]_(<<LStatus, LSlot, LDone>>)
<1>0. TypeOK /\ job \in [Jobs -> Row]
  BY DEF IInv, TypeOK
<1>1. ASSUME NEW r \in Requests, NEW j \in Jobs, CreateJob(r, j) PROVE Lifecycle!Next
  BY <1>1, RefineCreate DEF Lifecycle!Next
<1>2. ASSUME NEW j \in Jobs, Phase1(j)
      PROVE  Lifecycle!Next \/ UNCHANGED <<LStatus, LSlot, LDone>>
  BY <1>2, RefinePhase1 DEF Lifecycle!Next
<1>3. ASSUME NEW j \in Jobs, MarkSkippedNoTopic(j) \/ Phase3Commit(j)
      PROVE  Lifecycle!Next \/ UNCHANGED <<LStatus, LSlot, LDone>>
  BY <1>3, RefineComplete DEF Lifecycle!Next
<1>4. ASSUME NEW j \in Jobs, MarkJobFailed(j), job' = MarkFailed(job, j) PROVE Lifecycle!Next
  <2> DEFINE S == {k \in {j} : job[k].status \in Active}
  <2>1. S \in SUBSET Jobs /\ \A k \in S : job[k].status \in Active
    OBVIOUS
  <2>2. ASSUME NEW k \in Jobs
        PROVE  job'[k].status = IF k \in S THEN "failed" ELSE job[k].status
    <3>1. job'[k].status = IF k = j /\ job[j].status \in Active THEN "failed" ELSE job[k].status
      BY <1>0, <1>4, ClosedRows DEF MarkFailed
    <3> QED BY <3>1
  <2>3. UNCHANGED conv
    BY <1>4 DEF MarkJobFailed
  <2> HIDE DEF S
  <2> QED BY <2>1, <2>2, <2>3, RefineFail
<1>5. ASSUME SweepRows PROVE Lifecycle!Next
  <2> DEFINE swept == Stale(job, sweeper.next, Threshold(sweeper.next))
  <2>1. swept \in SUBSET Jobs /\ job' = Sweep(job, swept) /\ UNCHANGED conv
    BY <1>5 DEF SweepRows, Stale
  <2>2. \A k \in swept : job[k].status \in Active
    BY <1>0 DEF Stale, TypeOK, Active
  <2> HIDE DEF swept
  <2>3. ASSUME NEW k \in Jobs
        PROVE  job'[k].status = IF k \in swept THEN "failed" ELSE job[k].status
    BY <1>0, <2>1, SweptRows
  <2> QED BY <2>1, <2>2, <2>3, RefineFail
<1>6. ASSUME Tick PROVE UNCHANGED <<LStatus, LSlot, LDone>>
  <2>1. \A k \in Jobs : job'[k].status = job[k].status
    BY <1>0, <1>6, OlderRows DEF Tick
  <2>2. LSlot' = LSlot
    BY <1>0, <2>1, SameSlots
  <2> QED BY <1>6, <2>1, <2>2 DEF Tick, LStatus, LDone
<1>7. ASSUME UNCHANGED job, ~ \E j \in Jobs : MarkSkippedNoTopic(j) \/ Phase3Commit(j)
      PROVE  UNCHANGED <<LStatus, LSlot, LDone>>
  BY <1>7, DoneSteps DEF LStatus, LSlot
<1> QED BY <1>1, <1>2, <1>3, <1>4, <1>5, <1>6, <1>7, TableSteps

(* Every behaviour of the pipeline is a behaviour of the lifecycle.        *)
THEOREM Refinement == Spec => ImplementsLifecycle
<1>1. Init => Lifecycle!Init
  BY DEF Init, Absent, Lifecycle!Init
<1>2. IInv /\ [Next]_vars => [Lifecycle!Next]_(Lifecycle!lifeVars)
  BY RefineNext DEF Lifecycle!lifeVars, LStatus, LSlot, LDone
<1> QED BY <1>1, <1>2, Invariance, PTL DEF Spec, ImplementsLifecycle, Lifecycle!Spec
============================================================================
