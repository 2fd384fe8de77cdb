----------------------------- MODULE AuditTrail -----------------------------
(***************************************************************************)
(* What becomes of a write to the journal and of its audit row.  The MCP   *)
(* tools commit, embed, return, and only then does their decorator         *)
(* (audit/decorator.py) write the audit row in a transaction of its own;   *)
(* moves and the topic endpoints write it in the transaction of the change *)
(* (entries.py, topics.py); other edits over REST write none.  A call can  *)
(* be refused, fail, raise after its commit, or be cancelled anywhere.     *)
(***************************************************************************)
EXTENDS Naturals

CONSTANTS
  Writes,   \* calls of write operations
  Pending   \* no answer yet

Decorated == {"append", "update", "delete", "create_topic", "save"}
InBand == {"patch_move", "move", "topic_admin"}
Unaudited == {"patch", "web_delete"}
Operations == Decorated \cup InBand \cup Unaudited

Edits == {"update", "patch", "patch_move", "move"}   \* of the entry below
Deletes == {"delete", "web_delete"}
Embeds == {"append", "update", "save", "patch", "patch_move"}

VARIABLES
  op,         \* what each call does
  stage,      \* begin, embed, mark, result, audit or over
  committed,  \* the calls whose transaction has committed
  recorded,   \* those with an audit row
  counted,    \* those whose audit failure was counted in the metrics
  answer,     \* what the client of each call is told
  alive       \* the entry that edits and deletes are about is not deleted

trailVars == <<op, stage, committed, recorded, counted, answer, alive>>

Answers == {"done", "refused", "not_found", "raised", "cancelled"}

ASSUME AuditAssumption == Pending \notin Answers

AuditTypeOK ==
  /\ op \in [Writes -> Operations]
  /\ stage \in [Writes -> {"begin", "embed", "mark", "result", "audit", "over"}]
  /\ committed \in SUBSET Writes /\ recorded \in SUBSET Writes /\ counted \in SUBSET Writes
  /\ answer \in [Writes -> Answers \cup {Pending}] /\ alive \in BOOLEAN

AuditInit ==
  /\ op \in [Writes -> Operations]
  /\ stage = [c \in Writes |-> "begin"]
  /\ committed = {} /\ recorded = {} /\ counted = {}
  /\ answer = [c \in Writes |-> Pending] /\ alive = TRUE

Advance(c, where) == stage' = [stage EXCEPT ![c] = where] /\ UNCHANGED <<op, answer>>

\* An error result says success = False.
\* Mutant: the old heuristic, which took refusals for successes.
AnyResult == {"done", "refused", "not_found"}
Successes == {"done"}

\* The handler returns; the decorator of a tool acts on what it returns.
Finish(c, told) ==
  /\ stage' = [stage EXCEPT ![c] = IF op[c] \in Decorated /\ told \in Successes THEN "audit" ELSE "over"]
  /\ answer' = [answer EXCEPT ![c] = told]
  /\ op' = op

\* It is left by an exception, which no decorator catches.
LeaveWrite(c, told) ==
  /\ stage' = [stage EXCEPT ![c] = "over"]
  /\ answer' = [answer EXCEPT ![c] = told]
  /\ op' = op

---------------------------------------------------------------------------
\* The input is not valid, the topic is unknown, the path is taken.
RefuseWrite(c) ==
  /\ stage[c] = "begin"
  /\ Finish(c, "refused")
  /\ UNCHANGED <<committed, recorded, counted, alive>>

Missing(c) ==
  /\ stage[c] = "begin" /\ op[c] \in Edits \cup Deletes /\ ~alive
  /\ Finish(c, "not_found")
  /\ UNCHANGED <<committed, recorded, counted, alive>>

\* The transaction fails, with its audit row when that is part of it.
RollBack(c) ==
  /\ stage[c] = "begin"
  /\ LeaveWrite(c, "raised")
  /\ UNCHANGED <<committed, recorded, counted, alive>>

Apply(c) ==
  /\ op[c] \in Edits \cup Deletes => alive
  /\ alive' = (alive /\ op[c] \notin Deletes)
  /\ committed' = committed \cup {c}
  /\ recorded' = IF op[c] \in InBand THEN recorded \cup {c} ELSE recorded

Commit(c) ==
  /\ stage[c] = "begin" /\ Apply(c)
  /\ Advance(c, IF op[c] \in Embeds THEN "embed" ELSE "result")
  /\ counted' = counted

\* Best effort, but for the mark that follows the vector of an append.
Embed(c) ==
  /\ stage[c] = "embed"
  /\ Advance(c, "result") \/ (op[c] = "append" /\ Advance(c, "mark"))
  /\ UNCHANGED <<committed, recorded, counted, alive>>

Mark(c) ==
  /\ stage[c] = "mark"
  /\ Advance(c, "result") \/ LeaveWrite(c, "raised")
  /\ UNCHANGED <<committed, recorded, counted, alive>>

\* PATCH reads the entry again to answer with it.
HandlerReturns(c) ==
  /\ stage[c] = "result"
  /\ Finish(c, IF op[c] \in {"patch", "patch_move"} /\ ~alive THEN "not_found" ELSE "done")
  /\ UNCHANGED <<committed, recorded, counted, alive>>

WriteAudit(c) ==
  /\ stage[c] = "audit"
  /\ \/ recorded' = recorded \cup {c} /\ counted' = counted
     \/ counted' = counted \cup {c} /\ recorded' = recorded
  /\ Advance(c, "over")
  /\ UNCHANGED <<committed, alive>>

\* The client goes away: a commit that was under way may have happened.
CancelWrite(c) ==
  /\ stage[c] # "over"
  /\ LeaveWrite(c, "cancelled")
  /\ \/ UNCHANGED <<committed, recorded, alive>>
     \/ stage[c] = "begin" /\ Apply(c)
  /\ counted' = counted

AuditNext ==
  \E c \in Writes :
    \/ RefuseWrite(c) \/ Missing(c) \/ RollBack(c) \/ Commit(c) \/ Embed(c) \/ Mark(c)
    \/ HandlerReturns(c) \/ WriteAudit(c) \/ CancelWrite(c)

AuditSpec == AuditInit /\ [][AuditNext]_trailVars

---------------------------------------------------------------------------
(* No ghost audit rows (tools/entries.py:282): a row means that the change *)
(* is committed.  A committed change that stays without a row is one over  *)
(* REST that writes none, one whose failed insert was counted              *)
(* (audit/decorator.py:162), or one whose client was told of an exception  *)
(* or went away; and a client is told that there is no such entry only     *)
(* when that is so, even if its own change went through first.             *)
AuditFollowsWrites ==
  /\ recorded \subseteq committed
  /\ \A c \in committed : stage[c] = "over" =>
       c \in recorded \/ op[c] \in Unaudited \/ c \in counted \/ answer[c] \in {"raised", "cancelled"}
  /\ \A c \in Writes : answer[c] = "not_found" => ~alive
=============================================================================
