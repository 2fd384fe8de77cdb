--------------------------- MODULE JobLifecycle ---------------------------
(***************************************************************************)
(* What the extraction pipeline promises about extraction_jobs rows and    *)
(* processed_at, with no queue, no worker, no clock and no faults:         *)
(*   - a slot (conversation, source) holds at most one active row;         *)
(*   - a row starts from pending or failed, and only for a conversation    *)
(*     that is not processed;                                              *)
(*   - a row completes only from running, together with processed_at;      *)
(*   - completed is final, and so is processed_at.                         *)
(* ExtractionPipeline implements it (ExtractionPipeline_proofs).           *)
(***************************************************************************)
CONSTANTS Jobs, Convs, Sources, None

VARIABLES status,   \* of each row, "absent" before it exists
          slot,     \* <<conversation, source>> of each row, None before
          done      \* conversations with processed_at set

lifeVars == <<status, slot, done>>

Init == /\ status = [j \in Jobs |-> "absent"]
        /\ slot = [j \in Jobs |-> None]
        /\ done = {}

Free(j, s) == \A k \in Jobs \ {j} :
                slot[k] = s => status[k] \notin {"pending", "running"}

Create(j) ==
  \E c \in Convs, s \in Sources :
    /\ status[j] = "absent" /\ Free(j, <<c, s>>)
    /\ status' = [status EXCEPT ![j] = "pending"]
    /\ slot' = [slot EXCEPT ![j] = <<c, s>>]
    /\ UNCHANGED done

Start(j) ==
  /\ status[j] \in {"pending", "failed"} /\ Free(j, slot[j])
  /\ slot[j][1] \notin done
  /\ status' = [status EXCEPT ![j] = "running"]
  /\ UNCHANGED <<slot, done>>

Complete(j) ==
  /\ status[j] = "running"
  /\ status' = [status EXCEPT ![j] = "completed"]
  /\ done' = done \cup {slot[j][1]}
  /\ UNCHANGED slot

(* The row was given up while its worker was still at work on it.          *)
ProcessOnly(j) ==
  /\ status[j] = "failed"
  /\ done' = done \cup {slot[j][1]}
  /\ UNCHANGED <<status, slot>>

Fail(S) ==
  /\ \A j \in S : status[j] \in {"pending", "running"}
  /\ status' = [j \in Jobs |-> IF j \in S THEN "failed" ELSE status[j]]
  /\ UNCHANGED <<slot, done>>

Next == \/ \E j \in Jobs : Create(j) \/ Start(j) \/ Complete(j) \/ ProcessOnly(j)
        \/ \E S \in SUBSET Jobs : Fail(S)

Spec == Init /\ [][Next]_lifeVars
===========================================================================
