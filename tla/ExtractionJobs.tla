-------------------------- MODULE ExtractionJobs --------------------------
(***************************************************************************)
(* The extraction_jobs table and the functions of its repository           *)
(* (gubbi/storage/repositories/extraction_jobs.py).  Every function of the *)
(* repository is an operator from a table to the table after its UPDATE or *)
(* INSERT; ExtractionPipeline applies them inside its transactions.        *)
(*                                                                         *)
(* A row's "age" stands for now() - created_at while it is pending and for *)
(* now() - started_at while it is running, the only two readings of those  *)
(* columns that the code ever makes (the two sweeps).                      *)
(***************************************************************************)
EXTENDS Naturals

CONSTANTS Jobs,      \* ids of extraction_jobs rows
          Convs,     \* ids of conversations rows: one per (topic, slug)
          Sources,   \* values of the source column (the platform)
          None,      \* the columns of a row that was never inserted
          AgeCap     \* the clock readings above this are told apart by no guard

ASSUME AgeCapAssumption == AgeCap \in Nat
ASSUME NoneAssumption == None \notin Convs \cup Sources

Active == {"pending", "running"}
Terminal == {"completed", "failed"}

Row == [status : {"absent"} \cup Active \cup Terminal,
        conv   : Convs \cup {None},
        source : Sources \cup {None},
        age    : 0 .. AgeCap]

Absent == [status |-> "absent", conv |-> None, source |-> None, age |-> 0]

(* idx_extraction_jobs_active_per_conversation: the partial unique index   *)
(* on (user_id, conversation_id, source) over the rows that are not        *)
(* terminal.  SlotTaken is what makes an INSERT or an UPDATE violate it.   *)
InSlot(row, c, s) == row.status \in Active /\ row.conv = c /\ row.source = s

SlotTaken(tab, j, c, s) == \E k \in Jobs \ {j} : InSlot(tab[k], c, s)

CreatePending(tab, j, c, s) ==
  [tab EXCEPT ![j] = [status |-> "pending", conv |-> c, source |-> s, age |-> 0]]

(* mark_running accepts a pending or a failed row and restarts started_at; *)
(* on a row that is already running it is a no-op: started_at stays.       *)
CanStart(row) == row.status \in {"pending", "failed"}

MarkRunning(tab, j) ==
  IF CanStart(tab[j]) THEN [tab EXCEPT ![j].status = "running", ![j].age = 0]
                      ELSE tab

\* Mutant: the UPDATE has no status guard.
CloseUnguarded(tab, j, status) == [tab EXCEPT ![j].status = status, ![j].age = 0]

(* mark_completed and mark_failed never overwrite a terminal state.        *)
Close(tab, j, status) ==
  IF tab[j].status \in Active THEN [tab EXCEPT ![j].status = status, ![j].age = 0]
                              ELSE tab

MarkCompleted(tab, j) == Close(tab, j, "completed")
MarkFailed(tab, j) == Close(tab, j, "failed")

(* One sweep of run_orphan_cleanup: every row of the given status that is  *)
(* older than the threshold becomes failed, in one UPDATE ... RETURNING.   *)
Stale(tab, status, threshold) ==
  {j \in Jobs : tab[j].status = status /\ tab[j].age > threshold}

Sweep(tab, swept) ==
  [j \in Jobs |-> IF j \in swept THEN [tab[j] EXCEPT !.status = "failed", !.age = 0]
                                 ELSE tab[j]]

(* The clock advances by one quantum for every row.                        *)
Older(tab) ==
  [j \in Jobs |-> IF tab[j].status \in Active /\ tab[j].age < AgeCap
                  THEN [tab[j] EXCEPT !.age = @ + 1] ELSE tab[j]]
===========================================================================
