------------------------ MODULE ExtractionPipeline ------------------------
(***************************************************************************)
(* From an uploaded conversation to its journal entries: the ingest        *)
(* endpoint (api/v1/ingest.py), the arq queue (external), the worker's job *)
(* function (extraction/jobs/extract_conversation.py) and the orphan       *)
(* sweeper (extraction/orphan_cleanup.py), interleaved over one user's     *)
(* rows, with worker crashes, graceful worker stops and API restarts.      *)
(*                                                                         *)
(* An upload is one element of a request body: its platform id, the        *)
(* conversations row its title's slug selects under "inbox", its platform. *)
(* PostgreSQL transactions are single actions (READ COMMITTED: what a      *)
(* transaction read earlier may be stale when it commits, so phase 3 of    *)
(* the worker is two actions); an await between two transactions is a pc.  *)
(* Time advances in quanta; every clock counts quanta up to AgeCap.        *)
(***************************************************************************)
EXTENDS ExtractionJobs, FiniteSets

CONSTANTS Requests,          \* POST /ingest/conversations requests
          Uploads,           \* elements of request bodies
          Pids,              \* platform ids
          PidOf, ConvOf, SourceOf,  \* what each upload carries
          Bodies,            \* the request bodies: sets of uploads
          PendingThreshold,  \* llm.orphan_cleanup_threshold_minutes
          RunningThreshold,  \* _RUNNING_THRESHOLD_SECS
          JobTimeout,        \* ARQ_JOB_TIMEOUT_SECS
          LeaseTTL,          \* life of arq's in-progress key
          MaxTries,          \* arq's max_tries
          MaxCrashes, MaxStops, MaxRestarts \* bounds: worker and API faults

ASSUME ConstantsAssumption ==
  /\ PidOf \in [Uploads -> Pids]
  /\ ConvOf \in [Uploads -> Convs]
  /\ SourceOf \in [Uploads -> Sources]
  /\ Bodies \subseteq SUBSET Uploads
  /\ None \notin Pids \cup Uploads
  /\ {PendingThreshold, RunningThreshold, JobTimeout, LeaseTTL} \subseteq 0 .. AgeCap
  /\ {MaxTries, MaxCrashes, MaxStops, MaxRestarts} \subseteq Nat

(* _RUNNING_THRESHOLD_SECS is two job time-outs by definition.             *)
ASSUME ThresholdAssumption == JobTimeout <= RunningThreshold

VARIABLES
  job,      \* the extraction_jobs table
  conv,     \* conversations: platform id, processed_at, committed batches
  req,      \* the requests being served
  queue,    \* jobs that arq knows: queued or in progress
  lease,    \* remaining life of each job's in-progress key, 0 when absent
  tries,    \* arq's attempt counter
  att,      \* the worker coroutine running each job, if any
  sweeper,  \* run_orphan_cleanup: next sweep, and swept rows not yet refunded
  settled,  \* how often record_actual_cost was applied for the job's pre-charge
  writes,   \* how often the job committed a batch of entries
  marks,    \* what disturbed the job (history)
  faults    \* faults so far

vars == <<job, conv, req, queue, lease, tries, att, sweeper, settled, writes,
          marks, faults>>

arqVars == <<queue, lease, tries>>
ghosts  == <<settled, writes, marks>>

\* Mutant: the idempotency check reads nothing.
ProcessedUnseen(c) == FALSE

Processed(c) == conv[c].processed

(* Applying a delta to the budget is best effort: a Redis error is logged  *)
(* and swallowed, and the delta is lost.                                   *)
SettleOrDrop(j) ==
  \/ settled' = [settled EXCEPT ![j] = @ + 1] /\ UNCHANGED marks
  \/ marks' = [marks EXCEPT ![j] = @ \cup {"dropped"}] /\ UNCHANGED settled

---------------------------------------------------------------------------
(* Types and initial state                                                 *)

NoAttempt == [pc |-> "idle", left |-> 0, known |-> FALSE]
AttemptPcs == {"phase1", "llm", "notopic", "notopicRefund", "phase3", "commit",
               "finish", "failing", "markFailed"}

RequestPcs == {"idle", "loop", "save", "charge", "txn2", "enqueue", "done", "dead"}
Marks == {"dropped", "interrupted", "rolledBack", "swept"}

Conversation == [pid : Pids \cup {None}, processed : BOOLEAN, batches : Nat]
Request == [pc : RequestPcs, todo : SUBSET Uploads, cur : Uploads \cup {None},
            enq : SUBSET Jobs, sent : SUBSET Jobs,
            saved : Nat, skipBudget : Nat, skipError : Nat]
Attempt == [pc : {"idle"} \cup AttemptPcs, left : 0 .. AgeCap, known : BOOLEAN]

TypeOK ==
  /\ job \in [Jobs -> Row]
  /\ conv \in [Convs -> Conversation]
  /\ req \in [Requests -> Request]
  /\ queue \in SUBSET Jobs
  /\ lease \in [Jobs -> 0 .. AgeCap]
  /\ tries \in [Jobs -> Nat]
  /\ att \in [Jobs -> Attempt]
  /\ sweeper \in [next : {"pending", "running"}, owed : SUBSET Jobs]
  /\ settled \in [Jobs -> Nat]
  /\ writes \in [Jobs -> Nat]
  /\ marks \in [Jobs -> SUBSET Marks]
  /\ faults \in [crash : Nat, stop : Nat, restart : Nat]

Init ==
  /\ job = [j \in Jobs |-> Absent]
  /\ conv = [c \in Convs |-> [pid |-> None, processed |-> FALSE, batches |-> 0]]
  /\ req = [r \in Requests |-> [pc |-> "idle", todo |-> {}, cur |-> None, enq |-> {},
                                sent |-> {}, saved |-> 0, skipBudget |-> 0,
                                skipError |-> 0]]
  /\ queue = {}
  /\ lease = [j \in Jobs |-> 0]
  /\ tries = [j \in Jobs |-> 0]
  /\ att = [j \in Jobs |-> NoAttempt]
  /\ sweeper = [next |-> "pending", owed |-> {}]
  /\ settled = [j \in Jobs |-> 0]
  /\ writes = [j \in Jobs |-> 0]
  /\ marks = [j \in Jobs |-> {}]
  /\ faults = [crash |-> 0, stop |-> 0, restart |-> 0]

---------------------------------------------------------------------------
(* ingest_conversations: one conversation of the body after the other,     *)
(* then the enqueue loop, outside any transaction                          *)

ingestFrame == UNCHANGED <<queue, lease, tries, att, sweeper, settled, writes, marks,
                           faults>>

(* What an iteration of the loop leaves behind: an upload taken up, saved, *)
(* given up (over budget, failed), or turned into a job to enqueue.        *)
Begin(rec, body) == [rec EXCEPT !.pc = "loop", !.todo = body]
TakeUp(rec, u) == [rec EXCEPT !.pc = "save", !.cur = u, !.todo = @ \ {u}]
Saved(rec) == [rec EXCEPT !.pc = "charge", !.saved = @ + 1]
Continue(rec) == [rec EXCEPT !.pc = "loop", !.cur = None]
OverBudget(rec) == [rec EXCEPT !.pc = "loop", !.cur = None, !.skipBudget = @ + 1]
Failed(rec) == [rec EXCEPT !.pc = "loop", !.cur = None, !.skipError = @ + 1]
Created(rec, j) == [rec EXCEPT !.pc = "loop", !.cur = None, !.enq = @ \cup {j}]
Leaving(rec, pc) == [rec EXCEPT !.pc = pc, !.cur = None, !.todo = {}, !.sent = {}]

StartRequest(r) ==
  /\ req[r].pc = "idle"
  /\ \E body \in Bodies :
       req' = [req EXCEPT ![r] = Begin(@, body)]
  /\ UNCHANGED <<job, conv>> /\ ingestFrame

Exists(u) == \E c \in Convs : conv[c].pid = PidOf[u]

(* The dedupe pre-check reads in a transaction of its own.                 *)
DedupeCheck(r, u) ==
  /\ req[r].pc = "loop" /\ u \in req[r].todo
  /\ req' = IF Exists(u) THEN [req EXCEPT ![r].todo = @ \ {u}]
            ELSE [req EXCEPT ![r] = TakeUp(@, u)]
  /\ UNCHANGED <<job, conv>> /\ ingestFrame

(* Transaction 1: upsert by (topic, slug), then set the platform id.  A    *)
(* platform id held by another row violates idx_conv_platform_dedup.       *)
SaveConversation(r) ==
  LET u == req[r].cur
      c == ConvOf[u]
  IN /\ req[r].pc = "save"
     /\ IF \E d \in Convs \ {c} : conv[d].pid = PidOf[u]
        THEN /\ req' = [req EXCEPT ![r] = Continue(@)]
             /\ UNCHANGED conv
        ELSE /\ req' = [req EXCEPT ![r] = Saved(@)]
             /\ conv' = [conv EXCEPT ![c].pid = PidOf[u]]
     /\ UNCHANGED job /\ ingestFrame

PreCharge(r) ==
  /\ req[r].pc = "charge"
  /\ \/ req' = [req EXCEPT ![r].pc = "txn2"]
     \/ req' = [req EXCEPT ![r] = OverBudget(@)]
  /\ UNCHANGED <<job, conv>> /\ ingestFrame

(* Transaction 2: the extraction_jobs row and its audit row.               *)
CreateJob(r, j) ==
  LET u == req[r].cur IN
  /\ req[r].pc = "txn2"
  /\ job[j].status = "absent"
  /\ ~SlotTaken(job, j, ConvOf[u], SourceOf[u])
  /\ job' = CreatePending(job, j, ConvOf[u], SourceOf[u])
  /\ req' = [req EXCEPT ![r] = Created(@, j)]
  /\ UNCHANGED conv /\ ingestFrame

\* Mutant: the error branch does not count the conversation.
Txn2ErrorUncounted(r) ==
  /\ req[r].pc = "txn2"
  /\ req' = [req EXCEPT ![r] = Continue(@)]
  /\ UNCHANGED <<job, conv>> /\ ingestFrame

\* Mutant: the job id is kept for the enqueue loop although the row is not.
Txn2ErrorEnqueued(r) ==
  /\ req[r].pc = "txn2"
  /\ \E j \in Jobs : /\ job[j].status = "absent"
                     /\ req' = [req EXCEPT ![r] = Created(@, j)]
  /\ UNCHANGED <<job, conv>> /\ ingestFrame

(* Transaction 2 rolls back.  This is also what an active job in the slot  *)
(* leads to: the failed INSERT aborts the transaction, so the SELECT that  *)
(* create_pending runs on it to find the existing job fails too.  The      *)
(* pre-charge is refunded and the conversation stays without a job.        *)
Txn2Error(r) ==
  /\ req[r].pc = "txn2"
  /\ req' = [req EXCEPT ![r] = Failed(@)]
  /\ UNCHANGED <<job, conv>> /\ ingestFrame

(* Any other exception (TXN 1, a raising pre_charge) ends the request with *)
(* an error before the enqueue loop, whatever it has committed.            *)
AbortRequest(r) ==
  /\ req[r].pc \in {"loop", "save", "charge"}
  /\ req' = [req EXCEPT ![r] = Leaving(@, "dead")]
  /\ UNCHANGED <<job, conv>> /\ ingestFrame

EndLoop(r) ==
  /\ req[r].pc = "loop" /\ req[r].todo = {}
  /\ req' = [req EXCEPT ![r].pc = "enqueue"]
  /\ UNCHANGED <<job, conv>> /\ ingestFrame

Enqueue(r, j) ==
  /\ req[r].pc = "enqueue" /\ j \in req[r].enq \ req[r].sent
  /\ queue' = queue \cup {j}
  /\ req' = [req EXCEPT ![r].sent = @ \cup {j}]
  /\ UNCHANGED <<job, conv, lease, tries, att, sweeper, settled, writes, marks, faults>>

(* The enqueue loop is over: all sent, no arq pool, or a Redis error that  *)
(* ends the loop early; the response is sent in all three cases.           *)
Respond(r) ==
  /\ req[r].pc = "enqueue"
  /\ req' = [req EXCEPT ![r] = Leaving(@, "done")]
  /\ UNCHANGED <<job, conv>> /\ ingestFrame

---------------------------------------------------------------------------
(* arq: pick up, time-out, expiry of the in-progress key                   *)

workerFrame == UNCHANGED <<req, sweeper, faults>>
At(j, pc) == att[j].pc = pc
Goto(j, pc) == att' = [att EXCEPT ![j].pc = pc]

Pickup(j) ==
  /\ j \in queue /\ At(j, "idle") /\ lease[j] = 0 /\ tries[j] < MaxTries
  /\ att' = [att EXCEPT ![j] = [pc |-> "phase1", left |-> JobTimeout, known |-> FALSE]]
  /\ lease' = [lease EXCEPT ![j] = LeaseTTL]
  /\ tries' = [tries EXCEPT ![j] = @ + 1]
  /\ UNCHANGED <<job, conv, queue>> /\ UNCHANGED ghosts /\ workerFrame

(* arq's finish_job: the coroutine returned or raised; the job and its     *)
(* in-progress and retry keys are deleted.                                 *)
Leave(j) ==
  /\ att' = [att EXCEPT ![j] = NoAttempt]
  /\ queue' = queue \ {j}
  /\ lease' = [lease EXCEPT ![j] = 0]
  /\ tries' = [tries EXCEPT ![j] = 0]

GiveUp(j) ==
  /\ j \in queue /\ At(j, "idle") /\ lease[j] = 0 /\ tries[j] >= MaxTries
  /\ Leave(j)
  /\ UNCHANGED <<job, conv>> /\ UNCHANGED ghosts /\ workerFrame

(* arq cancels the coroutine at job_timeout: CancelledError passes every   *)
(* "except Exception" of the job, open transactions roll back, and arq     *)
(* does not retry.                                                         *)
Interrupt(S) == [j \in Jobs |-> IF j \in S THEN marks[j] \cup {"interrupted"}
                                ELSE marks[j]]

Timeout(j) ==
  /\ ~At(j, "idle") /\ att[j].left = 0
  /\ Leave(j)
  /\ marks' = Interrupt({j})
  /\ UNCHANGED <<job, conv, settled, writes>> /\ workerFrame

---------------------------------------------------------------------------
(* extract_conversation                                                    *)

(* Phase 1, one transaction on conn1.                                      *)
Phase1Skip(j) ==
  /\ At(j, "phase1") /\ Processed(job[j].conv)
  /\ Leave(j)
  /\ UNCHANGED <<job, conv>> /\ UNCHANGED ghosts /\ workerFrame

\* Mutant: the index does not watch revivals.
RevivalUnwatched(j) == FALSE

RevivalConflict(j) == CanStart(job[j]) /\ SlotTaken(job, j, job[j].conv, job[j].source)

Phase1(j) ==
  /\ At(j, "phase1") /\ ~Processed(job[j].conv) /\ ~RevivalConflict(j)
  /\ job' = MarkRunning(job, j)
  /\ att' = [att EXCEPT ![j].pc = "llm", ![j].known = TRUE]
  /\ UNCHANGED conv /\ UNCHANGED arqVars /\ UNCHANGED ghosts /\ workerFrame

(* Phase 1 raises and rolls back, before or after the row's period_start   *)
(* was read; reviving a failed row whose slot was taken meanwhile violates *)
(* the unique index, before it was read.                                   *)
Phase1Error(j) ==
  /\ At(j, "phase1")
  /\ \E known \in BOOLEAN :
       /\ known => ~Processed(job[j].conv) /\ ~RevivalConflict(j)
       /\ att' = [att EXCEPT ![j].pc = "failing", ![j].known = known]
  /\ UNCHANGED <<job, conv>> /\ UNCHANGED arqVars /\ UNCHANGED ghosts /\ workerFrame

(* Phase 2, the LLM calls, no connection held: entries to write, no usable *)
(* topic, or an exception.                                                 *)
Phase2(j) ==
  /\ At(j, "llm")
  /\ \E pc \in {"phase3", "notopic", "failing"} : Goto(j, pc)
  /\ UNCHANGED <<job, conv>> /\ UNCHANGED arqVars /\ UNCHANGED ghosts /\ workerFrame

\* Mutant: processed_at is not set on the no-topic exit.
MarkSkippedUnprocessed(j) ==
  /\ At(j, "notopic")
  /\ job' = MarkCompleted(job, j)
  /\ Goto(j, "notopicRefund")
  /\ UNCHANGED conv /\ UNCHANGED arqVars /\ UNCHANGED ghosts /\ workerFrame

(* _mark_skipped_no_topic, then the refund.                                *)
MarkSkippedNoTopic(j) ==
  /\ At(j, "notopic")
  /\ conv' = [conv EXCEPT ![job[j].conv].processed = TRUE]
  /\ job' = MarkCompleted(job, j)
  /\ Goto(j, "notopicRefund")
  /\ UNCHANGED arqVars /\ UNCHANGED ghosts /\ workerFrame

NoTopicRefund(j) ==
  /\ At(j, "notopicRefund")
  /\ SettleOrDrop(j)
  /\ Leave(j)
  /\ UNCHANGED <<job, conv, writes>> /\ workerFrame

\* Mutant: the skip closes the row, as phase 3's other exit does.
Phase3SkipCompletes(j) ==
  /\ At(j, "phase3") /\ Processed(job[j].conv)
  /\ job' = MarkCompleted(job, j)
  /\ Leave(j)
  /\ UNCHANGED conv /\ UNCHANGED ghosts /\ workerFrame

(* Phase 3, one transaction on conn2: the second idempotency check ...     *)
Phase3Skip(j) ==
  /\ At(j, "phase3") /\ Processed(job[j].conv)
  /\ Leave(j)
  /\ UNCHANGED <<job, conv>> /\ UNCHANGED ghosts /\ workerFrame

(* ... the inserts, invisible until the commit, and the budget delta,      *)
(* which is applied before it ...                                          *)
Phase3Write(j) ==
  /\ At(j, "phase3") /\ ~Processed(job[j].conv)
  /\ SettleOrDrop(j)
  /\ Goto(j, "commit")
  /\ UNCHANGED <<job, conv, writes>> /\ UNCHANGED arqVars /\ workerFrame

(* ... and the commit: entries, processed_at, and the row if still active. *)
Phase3Commit(j) ==
  /\ At(j, "commit")
  /\ conv' = [conv EXCEPT ![job[j].conv].processed = TRUE, ![job[j].conv].batches = @ + 1]
  /\ writes' = [writes EXCEPT ![j] = @ + 1]
  /\ job' = MarkCompleted(job, j)
  /\ Goto(j, "finish")
  /\ UNCHANGED <<settled, marks>> /\ UNCHANGED arqVars /\ workerFrame

\* Mutant: a Redis error while publishing reaches the outer except.
PublishRaises(j) ==
  /\ At(j, "finish")
  /\ Goto(j, "failing")
  /\ UNCHANGED <<job, conv>> /\ UNCHANGED arqVars /\ UNCHANGED ghosts /\ workerFrame

(* Publishing the progress event cannot fail the job.                      *)
PublishProgress(j) ==
  /\ At(j, "finish")
  /\ Leave(j)
  /\ UNCHANGED <<job, conv>> /\ UNCHANGED ghosts /\ workerFrame

(* A transaction after phase 1 fails and rolls back; the budget delta of   *)
(* phase 3 is not undone.                                                  *)
PersistError(j) ==
  /\ att[j].pc \in {"notopic", "phase3", "commit"}
  /\ marks' = IF At(j, "commit") THEN [marks EXCEPT ![j] = @ \cup {"rolledBack"}]
                                 ELSE marks
  /\ Goto(j, "failing")
  /\ UNCHANGED <<job, conv, settled, writes>> /\ UNCHANGED arqVars /\ workerFrame

(* The outer except: refund if the period is known, then _mark_job_failed  *)
(* on a fresh connection, whose own failure is swallowed.                  *)
FailRefund(j) ==
  /\ At(j, "failing")
  /\ IF att[j].known THEN SettleOrDrop(j)
     ELSE marks' = [marks EXCEPT ![j] = @ \cup {"dropped"}] /\ UNCHANGED settled
  /\ Goto(j, "markFailed")
  /\ UNCHANGED <<job, conv, writes>> /\ UNCHANGED arqVars /\ workerFrame

MarkJobFailed(j) ==
  /\ At(j, "markFailed")
  /\ \/ job' = MarkFailed(job, j)
     \/ UNCHANGED job
  /\ Leave(j)
  /\ UNCHANGED conv /\ UNCHANGED ghosts /\ workerFrame

---------------------------------------------------------------------------
(* run_orphan_cleanup: two sweeps per cycle, each followed by one          *)
(* best-effort refund per swept row                                        *)

\* Mutant: the running threshold is below the job timeout.
EagerThreshold(status) == IF status = "pending" THEN PendingThreshold ELSE JobTimeout - 1

Threshold(status) == IF status = "pending" THEN PendingThreshold ELSE RunningThreshold
\* Mutant: the cycle has no running sweep.
NextSweepPendingOnly(status) == "pending"

NextSweep(status) == IF status = "pending" THEN "running" ELSE "pending"

\* Mutant: the pending sweep is a count without RETURNING: nobody is refunded.
SweepRowsUnrefunded ==
  LET swept == Stale(job, sweeper.next, Threshold(sweeper.next)) IN
  /\ sweeper.owed = {}
  /\ job' = Sweep(job, swept)
  /\ sweeper' = [next |-> NextSweep(sweeper.next),
                 owed |-> IF sweeper.next = "pending" THEN {} ELSE swept]
  /\ marks' = [j \in Jobs |-> IF j \in swept THEN marks[j] \cup {"swept"} ELSE marks[j]]
  /\ UNCHANGED <<conv, req, queue, lease, tries, att, settled, writes, faults>>

SweepRows ==
  LET swept == Stale(job, sweeper.next, Threshold(sweeper.next)) IN
  /\ sweeper.owed = {}
  /\ job' = Sweep(job, swept)
  /\ sweeper' = [next |-> NextSweep(sweeper.next), owed |-> swept]
  /\ marks' = [j \in Jobs |-> IF j \in swept THEN marks[j] \cup {"swept"} ELSE marks[j]]
  /\ UNCHANGED <<conv, req, queue, lease, tries, att, settled, writes, faults>>

(* A database error in the second sweep ends the cycle: the next one       *)
(* starts over (in the first sweep it changes nothing).                    *)
SweepError ==
  /\ sweeper.owed = {} /\ sweeper.next = "running"
  /\ sweeper' = [sweeper EXCEPT !.next = "pending"]
  /\ UNCHANGED <<job, conv, req, queue, lease, tries, att, settled, writes, marks, faults>>

RefundSweptRow(j) ==
  /\ j \in sweeper.owed
  /\ SettleOrDrop(j)
  /\ sweeper' = [sweeper EXCEPT !.owed = @ \ {j}]
  /\ UNCHANGED <<job, conv, req, queue, lease, tries, att, writes, faults>>

---------------------------------------------------------------------------
(* Time and faults                                                         *)

(* No quantum passes while a coroutine is past its deadline.               *)
Tick ==
  /\ \A j \in Jobs : ~At(j, "idle") => att[j].left > 0
  /\ job' = Older(job)
  /\ lease' = [j \in Jobs |-> IF lease[j] > 0 THEN lease[j] - 1 ELSE 0]
  /\ att' = [j \in Jobs |-> IF At(j, "idle") THEN att[j] ELSE [att[j] EXCEPT !.left = @ - 1]]
  /\ UNCHANGED <<conv, req, queue, tries, sweeper, faults>> /\ UNCHANGED ghosts

Live == {j \in Jobs : ~At(j, "idle")}

(* The worker process dies: in-progress keys stay until they expire.       *)
WorkerCrash ==
  /\ faults.crash < MaxCrashes /\ Live # {}
  /\ faults' = [faults EXCEPT !.crash = @ + 1]
  /\ att' = [j \in Jobs |-> NoAttempt]
  /\ marks' = Interrupt(Live)
  /\ UNCHANGED <<job, conv, req, queue, lease, tries, sweeper, settled, writes>>

(* A graceful stop cancels the coroutines; arq drops their in-progress     *)
(* keys and leaves the jobs in the queue.                                  *)
WorkerStop ==
  /\ faults.stop < MaxStops /\ Live # {}
  /\ faults' = [faults EXCEPT !.stop = @ + 1]
  /\ att' = [j \in Jobs |-> NoAttempt]
  /\ lease' = [j \in Jobs |-> IF j \in Live THEN 0 ELSE lease[j]]
  /\ marks' = Interrupt(Live)
  /\ UNCHANGED <<job, conv, req, queue, tries, sweeper, settled, writes>>

(* The API process dies with its requests and the sweeper's refund list.   *)
ApiRestart ==
  /\ faults.restart < MaxRestarts
  /\ faults' = [faults EXCEPT !.restart = @ + 1]
  /\ req' = [r \in Requests |-> IF req[r].pc \in {"idle", "done"} THEN req[r]
                                ELSE Leaving(req[r], "dead")]
  /\ sweeper' = [next |-> "pending", owed |-> {}]
  /\ marks' = [j \in Jobs |-> IF j \in sweeper.owed THEN marks[j] \cup {"dropped"}
                              ELSE marks[j]]
  /\ UNCHANGED <<job, conv, queue, lease, tries, att, settled, writes>>

---------------------------------------------------------------------------
Ingest(r) ==
  \/ StartRequest(r) \/ SaveConversation(r) \/ PreCharge(r) \/ Txn2Error(r)
  \/ AbortRequest(r) \/ EndLoop(r) \/ Respond(r)
  \/ \E u \in Uploads : DedupeCheck(r, u)
  \/ \E j \in Jobs : CreateJob(r, j) \/ Enqueue(r, j)

Work(j) ==
  \/ Phase1Skip(j) \/ Phase1(j) \/ Phase1Error(j) \/ Phase2(j)
  \/ MarkSkippedNoTopic(j) \/ NoTopicRefund(j)
  \/ Phase3Skip(j) \/ Phase3Write(j) \/ Phase3Commit(j) \/ PublishProgress(j)
  \/ PersistError(j) \/ FailRefund(j) \/ MarkJobFailed(j)

Arq(j) == Pickup(j) \/ GiveUp(j) \/ Timeout(j)

Next ==
  \/ \E r \in Requests : Ingest(r)
  \/ \E j \in Jobs : Arq(j) \/ Work(j) \/ RefundSweptRow(j)
  \/ SweepRows \/ SweepError \/ Tick \/ WorkerCrash \/ WorkerStop \/ ApiRestart

Spec == Init /\ [][Next]_vars

(* The clock runs, arq enforces job_timeout, and the sweeper's loop goes   *)
(* on: it survives database errors, which do not hit every cycle.  Nothing *)
(* is assumed of the worker.                                               *)
Fairness ==
  /\ WF_vars(Tick)
  /\ WF_vars(SweepRows) /\ SF_vars(sweeper.next = "running" /\ SweepRows)
  /\ \A j \in Jobs : WF_vars(RefundSweptRow(j)) /\ WF_vars(Timeout(j))

FairSpec == Spec /\ Fairness

---------------------------------------------------------------------------
(* Properties                                                              *)

(* The unique index: one active row per (conversation, source), through    *)
(* creation, failure and revival (mark_running, create_pending).           *)
OneActivePerSlot ==
  \A j, k \in Jobs :
    j # k /\ job[j].status \in Active => ~InSlot(job[k], job[j].conv, job[j].source)

(* A completed row speaks the truth: its conversation is processed         *)
(* (_persist_extraction and _mark_skipped_no_topic write both in one       *)
(* transaction).                                                           *)
CompletedMeansProcessed ==
  \A j \in Jobs : job[j].status = "completed" => Processed(job[j].conv)

(* The worker cannot race ahead of the rows: whatever arq knows or runs    *)
(* has a committed row (ingest enqueues after transaction 2).              *)
WorkerNeverAheadOfRow ==
  \A j \in Jobs : j \in queue \/ ~At(j, "idle") => job[j].status # "absent"

(* A conversation gets its entries at most once (the two idempotency       *)
(* checks and the unique index together).                                  *)
EntriesAtMostOnce == \A c \in Convs : conv[c].batches <= 1

(* The attempts of one job, over crashes and re-runs, write its entries at *)
(* most once.                                                              *)
EntriesOncePerJob == \A j \in Jobs : writes[j] <= 1

(* Once a row is terminal, no attempt runs and no refund is owed, its      *)
(* pre-charge has been settled, or a best-effort refund is known to have   *)
(* been dropped: no exit of the job forgets it.                            *)
NoSilentCharge ==
  \A j \in Jobs :
    /\ job[j].status \in Terminal /\ At(j, "idle") /\ j \notin sweeper.owed
    => \/ settled[j] >= 1
       \/ marks[j] \cap {"dropped", "interrupted"} # {}

(* A pre-charge is settled twice only after a sweep, an interruption or a  *)
(* rollback of phase 3: the plain exits of the job settle it once.         *)
DoubleSettleHasCause ==
  \A j \in Jobs :
    settled[j] > 1 => marks[j] \cap {"swept", "interrupted", "rolledBack"} # {}

(* The counters of a response add up (IngestConversationResponse).         *)
ResponseAccounts ==
  \A r \in Requests :
    req[r].pc = "done" =>
      req[r].saved = Cardinality(req[r].enq) + req[r].skipBudget + req[r].skipError

(* Completed is final: no retry, sweep or late failure overwrites it.      *)
CompletedIsFinal ==
  [][\A j \in Jobs : job[j].status = "completed" => job'[j] = job[j]]_vars

(* While a worker is at work on a job, only that worker fails its row: the *)
(* running sweep takes rows whose worker is gone.                          *)
SweepSparesLiveJob ==
  [][\A j \in Jobs :
       /\ job[j].status = "running" /\ job'[j].status = "failed"
       /\ ~At(j, "idle")
       => att'[j].pc = "idle"]_vars

(* The pending sweep takes rows whose enqueue was lost, not queued jobs.   *)
PendingSweepTakesLostEnqueues ==
  [][\A j \in Jobs : job[j].status = "pending" /\ job'[j].status = "failed"
                       /\ At(j, "idle") => j \notin queue]_vars

(* No row holds its slot for ever: with no help from any worker the        *)
(* sweeper closes it.                                                      *)
EventuallyClosed == <>[](\A j \in Jobs : job[j].status \notin Active)

(* The strengthening that makes the safety invariants inductive: rows and  *)
(* requests are filled in, jobs to enqueue are committed rows, and a job   *)
(* past phase 1 has a row that was started.                                *)
RowsFilled ==
  \A j \in Jobs : job[j].status # "absent" => job[j].conv \in Convs /\ job[j].source \in Sources

UploadInHand ==
  \A r \in Requests : req[r].pc \in {"save", "charge", "txn2"} => req[r].cur \in Uploads

EnqueuedRowsExist ==
  \A r \in Requests : \A j \in req[r].enq : job[j].status # "absent"

StartedAttempts ==
  \A j \in Jobs :
    att[j].pc \in {"llm", "notopic", "phase3", "commit"} => job[j].status \notin {"absent", "pending"}

IInv == /\ TypeOK /\ UploadInHand
        /\ RowsFilled /\ EnqueuedRowsExist /\ WorkerNeverAheadOfRow /\ StartedAttempts
        /\ OneActivePerSlot /\ CompletedMeansProcessed

(* The abstract lifecycle this module implements.                          *)
Lifecycle == INSTANCE JobLifecycle WITH
  status <- [j \in Jobs |-> job[j].status],
  slot   <- [j \in Jobs |-> IF job[j].status = "absent" THEN None
                            ELSE <<job[j].conv, job[j].source>>],
  done   <- {c \in Convs : conv[c].processed}

ImplementsLifecycle == Lifecycle!Spec
===========================================================================
