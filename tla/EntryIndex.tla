---------------------------- MODULE EntryIndex ----------------------------
(***************************************************************************)
(* Entries and their vectors: the entries table with its indexed_at stamp, *)
(* the entry_embeddings table, the tools and web handlers that write a     *)
(* text and embed it afterwards outside the writing transaction, and the   *)
(* reindex passes (tools/admin.py) that embed whatever is not stamped.     *)
(*                                                                         *)
(* A vector is represented by the text it was computed from.  A            *)
(* transaction is one action, except the re-embed transaction: it reads    *)
(* the text, compares, and then writes without having locked the row, so   *)
(* it is two.  Encoding happens between transactions and may fail.         *)
(***************************************************************************)
EXTENDS Integers, FiniteSets, FiniteSetsExt

CONSTANTS Entries,    \* entry ids, in the order the reindex cursor walks them
          Linked,     \* ids of the entries that stand for a conversation
          Existing,   \* ids of the rows there are at the start
          Texts,      \* what (content, reasoning) can be
          None,
          Tools,      \* concurrent tool calls and web requests
          Workers,    \* concurrent reindex passes
          BatchSize   \* REINDEX_BATCH_SIZE

ASSUME IndexAssumption ==
  /\ Entries \subseteq Nat \ {0} /\ IsFiniteSet(Entries)
  /\ Linked \subseteq Entries /\ Existing \subseteq Entries
  /\ None \notin Texts /\ Texts # {}
  /\ BatchSize \in Nat \ {0}

VARIABLES
  entry,   \* entries: text (None: no row), deleted_at, indexed_at
  emb,     \* entry_embeddings: the text each vector was computed from
  tool,    \* the tool calls in flight
  pass,    \* the reindex passes in flight
  raced,   \* vectors that were stored for a text the entry no longer had
  lost     \* rows stamped with nobody left to embed them (history)

vars == <<entry, emb, tool, pass, raced, lost>>

---------------------------------------------------------------------------
(* Types and initial state                                                 *)

TextOrNone == Texts \cup {None}
EntryRow == [text : TextOrNone, deleted : BOOLEAN, indexed : BOOLEAN]
ToolCall == [pc : {"idle", "embed", "mark", "read", "reembed", "store", "linked"},
             id : Entries \cup {0}, text : TextOrNone]
Pass == [pc : {"idle", "claim", "embed", "drained"}, last : Entries \cup {0},
         text : [Entries -> TextOrNone],
         todo : SUBSET Entries, done : SUBSET Entries, failed : SUBSET Entries,
         owe : SUBSET Entries]

IdleTool == [pc |-> "idle", id |-> 0, text |-> None]
EndedPass(pc, owe) == [pc |-> pc, last |-> 0, text |-> [e \in Entries |-> None],
                       todo |-> {}, done |-> {}, failed |-> {}, owe |-> owe]

TypeOK ==
  /\ entry \in [Entries -> EntryRow]
  /\ emb \in [Entries -> TextOrNone]
  /\ tool \in [Tools -> ToolCall]
  /\ pass \in [Workers -> Pass]
  /\ raced \in SUBSET Entries
  /\ lost \in SUBSET Entries

Init ==
  /\ entry \in [Entries -> EntryRow]
  /\ \A e \in Entries : /\ (entry[e].text # None) <=> (e \in Existing)
                        /\ ~entry[e].deleted /\ ~entry[e].indexed
  /\ emb = [e \in Entries |-> None]
  /\ tool = [t \in Tools |-> IdleTool]
  /\ pass = [w \in Workers |-> EndedPass("idle", {})]
  /\ raced = {} /\ lost = {}

---------------------------------------------------------------------------
(* What the actions share                                                  *)

Present(e) == entry[e].text # None
Alive(e) == Present(e) /\ ~entry[e].deleted
Unindexed(e) == Alive(e) /\ ~entry[e].indexed

(* History: no pass owes anything to a row that a tool has touched.        *)
Touched(S) == pass' = [w \in Workers |-> [pass[w] EXCEPT !.owe = @ \ S]]

Write(e, text, indexed) ==
  entry' = [entry EXCEPT ![e] = [@ EXCEPT !.text = text, !.indexed = indexed]]

(* save_by_vector: an upsert, with no look at the entry.                   *)
StoreVector(e, text) ==
  /\ emb' = [emb EXCEPT ![e] = text]
  /\ raced' = IF text = entry[e].text THEN raced \ {e} ELSE raced \cup {e}

(* mark_indexed: the stamp, with no look at the vector.                    *)
MarkIndexed(e) == entry' = [entry EXCEPT ![e].indexed = TRUE]

Call(t, pc, e, text) == tool' = [tool EXCEPT ![t] = [pc |-> pc, id |-> e, text |-> text]]
Return(t) == tool' = [tool EXCEPT ![t] = IdleTool]
AtTool(t, pc) == tool[t].pc = pc

---------------------------------------------------------------------------
(* journal_append_entry: insert; then embed; then mark, a transaction each *)

Append(t, e) ==
  /\ AtTool(t, "idle") /\ ~Present(e) /\ e \notin Linked
  /\ \E text \in Texts : Write(e, text, FALSE) /\ Call(t, "embed", e, text)
  /\ UNCHANGED <<emb, raced, lost>> /\ Touched({e})

EmbedEntry(t) ==
  LET e == tool[t].id IN
  /\ AtTool(t, "embed")
  /\ StoreVector(e, tool[t].text)
  /\ lost' = lost \ {e}
  /\ tool' = [tool EXCEPT ![t].pc = "mark"]
  /\ UNCHANGED entry /\ Touched({e})

MarkAppended(t) ==
  LET e == tool[t].id IN
  /\ AtTool(t, "mark")
  /\ MarkIndexed(e)
  /\ lost' = IF emb[e] = None THEN lost \cup {e} ELSE lost
  /\ Return(t)
  /\ UNCHANGED <<emb, raced>> /\ Touched({e})

---------------------------------------------------------------------------
(* journal_update_entry and PATCH /entries/{id}: update and drop the       *)
(* vector; then re-embed, unless the text has changed again                *)

(* The tool reads the text back in the same transaction, the web handler   *)
(* in the next one.                                                        *)
Update(t, e) ==
  /\ AtTool(t, "idle") /\ Alive(e)
  /\ \E text \in Texts :
       /\ Write(e, text, FALSE)
       /\ Call(t, "reembed", e, text) \/ Call(t, "read", e, None)
  /\ emb' = [emb EXCEPT ![e] = None]
  /\ raced' = raced \ {e} /\ lost' = lost \ {e}
  /\ Touched({e})

ReadText(t) ==
  LET e == tool[t].id IN
  /\ AtTool(t, "read")
  /\ IF Alive(e) THEN Call(t, "reembed", e, entry[e].text) ELSE Return(t)
  /\ UNCHANGED <<entry, emb, pass, raced, lost>>

(* The second get_text of the re-embed transaction ...                     *)
CompareText(t) ==
  LET e == tool[t].id IN
  /\ AtTool(t, "reembed")
  /\ IF Alive(e) /\ entry[e].text = tool[t].text
     THEN tool' = [tool EXCEPT ![t].pc = "store"]
     ELSE Return(t)
  /\ UNCHANGED <<entry, emb, pass, raced, lost>>

(* ... and its two writes, which lock the row only now.                    *)
StoreUpdated(t) ==
  LET e == tool[t].id IN
  /\ AtTool(t, "store")
  /\ StoreVector(e, tool[t].text) /\ MarkIndexed(e)
  /\ lost' = lost \ {e}
  /\ Return(t)
  /\ Touched({e})

---------------------------------------------------------------------------
(* journal_save_conversation: the linked entry is upserted, whatever its   *)
(* deleted_at, and its vector stays; then one transaction stores and marks *)

SaveLinked(t, e) ==
  /\ AtTool(t, "idle") /\ e \in Linked
  /\ \E text \in Texts : Write(e, text, FALSE) /\ Call(t, "linked", e, text)
  /\ lost' = lost \ {e}
  /\ raced' = raced \ {e}
  /\ UNCHANGED emb /\ Touched({e})

StoreLinked(t) ==
  LET e == tool[t].id IN
  /\ AtTool(t, "linked")
  /\ StoreVector(e, tool[t].text) /\ MarkIndexed(e)
  /\ lost' = lost \ {e}
  /\ Return(t)
  /\ Touched({e})

(* Encoding or a transaction fails, or the process dies: embedding is best *)
(* effort and the call returns (or is gone) with the row as it is.         *)
GiveUpEmbedding(t) ==
  /\ ~AtTool(t, "idle")
  /\ Return(t)
  /\ UNCHANGED <<entry, emb, pass, raced, lost>>

(* Soft delete, from the tool or the web.                                  *)
Delete(e) ==
  /\ Alive(e)
  /\ entry' = [entry EXCEPT ![e].deleted = TRUE]
  /\ emb' = [emb EXCEPT ![e] = None]
  /\ raced' = raced \ {e} /\ lost' = lost \ {e}
  /\ UNCHANGED tool /\ Touched({e})

---------------------------------------------------------------------------
(* _run_reindex                                                            *)

AtPass(w, pc) == pass[w].pc = pc
Others(w, S) == [v \in Workers |-> [pass[v] EXCEPT !.owe = IF v = w THEN @ ELSE @ \ S]]

StartPass(w) ==
  /\ pass[w].pc \in {"idle", "drained"}
  /\ pass' = [pass EXCEPT ![w] = [EndedPass("claim", {}) EXCEPT
                                    !.owe = {e \in Entries : Unindexed(e)}]]
  /\ UNCHANGED <<entry, emb, tool, raced, lost>>

\* Mutant: the SELECT has no ORDER BY.
AnyBatch(free) ==
  {b \in SUBSET free : Cardinality(b) = Min({BatchSize, Cardinality(free)})}

(* ORDER BY id LIMIT batch_size.                                           *)
Batch(free) ==
  {b \in SUBSET free : /\ Cardinality(b) = Min({BatchSize, Cardinality(free)})
                       /\ \A e \in b, f \in free \ b : e < f}

Claiming(p, batch, kept) ==
  [p EXCEPT !.pc = "embed", !.todo = batch, !.owe = kept,
            !.text = [e \in Entries |-> IF e \in batch THEN entry[e].text ELSE None]]

(* Claim: the first unindexed rows past the cursor that no open            *)
(* transaction has locked, stamped in the same transaction.                *)
Claim(w) ==
  /\ AtPass(w, "claim")
  /\ \E locked \in SUBSET {e \in Entries : Unindexed(e) /\ e > pass[w].last} :
       LET free == {e \in Entries : Unindexed(e) /\ e > pass[w].last} \ locked
           kept == pass[w].owe \ locked
       IN IF free = {}
          THEN /\ pass' = [pass EXCEPT ![w] = EndedPass("drained", kept)]
               /\ UNCHANGED entry
          ELSE \E batch \in Batch(free) :
                 /\ entry' = [e \in Entries |->
                      IF e \in batch THEN [entry[e] EXCEPT !.indexed = TRUE] ELSE entry[e]]
                 /\ pass' = [Others(w, batch) EXCEPT ![w] = Claiming(@, batch, kept)]
  /\ UNCHANGED <<emb, tool, raced, lost>>

(* One row of the batch: encoded and saved, or failed.                     *)
Embedded(p, e) == [p EXCEPT !.todo = @ \ {e}, !.done = @ \cup {e}, !.owe = @ \ {e}]
NotEmbedded(p, e) == [p EXCEPT !.todo = @ \ {e}, !.failed = @ \cup {e}, !.owe = @ \ {e}]

EmbedRow(w) ==
  /\ AtPass(w, "embed") /\ pass[w].todo # {}
  /\ LET e == Min(pass[w].todo) IN
     \/ /\ StoreVector(e, pass[w].text[e])
        /\ lost' = lost \ {e}
        /\ pass' = [pass EXCEPT ![w] = Embedded(@, e)]
     \/ /\ pass' = [pass EXCEPT ![w] = NotEmbedded(@, e)]
        /\ UNCHANGED <<emb, raced, lost>>
  /\ UNCHANGED <<entry, tool>>

(* reset_indexed_at_for_ids, the compensating reset.                       *)
Reset(S) == [e \in Entries |-> IF e \in S /\ ~entry[e].deleted
                               THEN [entry[e] EXCEPT !.indexed = FALSE] ELSE entry[e]]

\* Mutant: the cursor is one past the last row that succeeded.
NextCursorOffByOne(p) ==
  IF p.done = {} THEN EndedPass("idle", {})
  ELSE [EndedPass("claim", p.owe) EXCEPT !.last = Max(p.done) + 1]

\* Mutant: a batch that failed as a whole is tried again.
NextCursorRetrying(p) ==
  [EndedPass("claim", p.owe) EXCEPT !.last = IF p.done = {} THEN p.last ELSE Max(p.done)]

(* The cursor passes the rows that succeeded; a batch that failed as a     *)
(* whole ends the pass.                                                    *)
NextCursor(p) ==
  IF p.done = {} THEN EndedPass("idle", {})
  ELSE [EndedPass("claim", p.owe) EXCEPT !.last = Max(p.done)]

\* Mutant: the failed rows keep their stamp.
FinishBatchUnreset(w) ==
  /\ AtPass(w, "embed") /\ pass[w].todo = {}
  /\ pass' = [pass EXCEPT ![w] = NextCursor(@)]
  /\ UNCHANGED <<entry, emb, tool, raced, lost>>

FinishBatch(w) ==
  /\ AtPass(w, "embed") /\ pass[w].todo = {}
  /\ entry' = Reset(pass[w].failed)
  /\ lost' = lost \ pass[w].failed
  /\ pass' = [Others(w, pass[w].failed) EXCEPT ![w] = NextCursor(@)]
  /\ UNCHANGED <<emb, tool, raced>>

(* The process dies in the middle of a batch, or the compensating reset    *)
(* raises: the claimed rows stay stamped.                                  *)
AbortPass(w) ==
  /\ pass[w].pc \in {"claim", "embed"}
  /\ lost' = lost \cup {e \in pass[w].todo \cup pass[w].failed : entry[e].indexed}
  /\ pass' = [pass EXCEPT ![w] = EndedPass("idle", {})]
  /\ UNCHANGED <<entry, emb, tool, raced>>

(* _reset_all_indexed_at: every row that is not deleted, for all users.    *)
ResetAll ==
  /\ entry' = Reset({e \in Entries : Present(e)})
  /\ lost' = {}
  /\ UNCHANGED <<emb, tool, pass, raced>>

---------------------------------------------------------------------------
ToolStep(t) ==
  \/ \E e \in Entries : Append(t, e) \/ Update(t, e) \/ SaveLinked(t, e)
  \/ EmbedEntry(t) \/ MarkAppended(t)
  \/ ReadText(t) \/ CompareText(t) \/ StoreUpdated(t)
  \/ StoreLinked(t) \/ GiveUpEmbedding(t)

PassStep(w) == Claim(w) \/ EmbedRow(w) \/ FinishBatch(w)

Next ==
  \/ \E t \in Tools : ToolStep(t)
  \/ \E w \in Workers : StartPass(w) \/ PassStep(w) \/ AbortPass(w)
  \/ \E e \in Entries : Delete(e)
  \/ ResetAll

Spec == Init /\ [][Next]_vars

(* A pass is one sequential coroutine: its steps are taken.  Nothing is    *)
(* assumed of the outcome of encoding, nor of the tools.                   *)
FairSpec == Spec /\ \A w \in Workers : WF_vars(PassStep(w))

---------------------------------------------------------------------------
(* Properties                                                              *)

Claimed(e) == \E w \in Workers : e \in pass[w].todo \cup pass[w].failed

(* indexed_at tells the truth: a stamped row has the vector of its present *)
(* text, unless a pass has claimed it just now, the vector was overtaken   *)
(* by a later update, or nobody is left to embed the row.                  *)
StampMeansCurrent ==
  \A e \in Entries :
    /\ Alive(e) /\ entry[e].indexed
    /\ ~Claimed(e) /\ e \notin raced \cup lost
    => emb[e] = entry[e].text

(* A pass that runs out of rows has embedded, or failed and reset, every   *)
(* row that was unindexed when it began and that nobody else touched.      *)
PassDrains == \A w \in Workers : pass[w].pc = "drained" => pass[w].owe = {}

(* A pass ends, however the encoder behaves: the cursor never turns back   *)
(* and a batch that fails as a whole is not tried again.                   *)
PassEnds == \A w \in Workers : (pass[w].pc = "embed") ~> (pass[w].pc \notin {"claim", "embed"})

(* The strengthening that makes StampMeansCurrent and PassDrains inductive *)
(* : a tool call names its entry, appends are never linked entries, and a  *)
(* pass without a batch has claimed nothing ...                            *)
ToolsAtWork ==
  \A t \in Tools :
    /\ ~AtTool(t, "idle") => tool[t].id \in Entries
    /\ tool[t].pc \in {"embed", "mark"} => tool[t].id \notin Linked

PassesAtWork ==
  \A w \in Workers :
    ~AtPass(w, "embed") => pass[w].todo = {} /\ pass[w].done = {} /\ pass[w].failed = {}

(* ... every vector of an unlinked entry, stamped or not, is current or    *)
(* was overtaken ...                                                       *)
VectorsAccounted ==
  \A e \in Entries \ Linked : emb[e] \in {None, entry[e].text} \/ e \in raced

(* ... and what a pass owes lies ahead of its cursor, past its batch, or   *)
(* in the part of the batch still to embed.                                *)
OwedAhead ==
  \A w \in Workers :
    /\ AtPass(w, "claim") => \A e \in pass[w].owe : Unindexed(e) /\ e > pass[w].last
    /\ AtPass(w, "embed") =>
         \A e \in pass[w].owe \ pass[w].todo :
           /\ Unindexed(e)
           /\ \A f \in pass[w].todo \cup pass[w].done \cup pass[w].failed : e > f

IInv == /\ TypeOK /\ ToolsAtWork /\ PassesAtWork /\ VectorsAccounted /\ OwedAhead
        /\ StampMeansCurrent /\ PassDrains

(* "No reader can observe the (new content + stale embedding) state."      *)
NoStaleVector == \A e \in Entries : Alive(e) /\ emb[e] # None => emb[e] = entry[e].text

(* An entry without a vector is healed by a future reindex: it is not      *)
(* stamped once the calls are over.                                        *)
ReindexWouldHeal ==
  (\A t \in Tools : AtTool(t, "idle")) =>
    \A e \in Entries : Alive(e) /\ emb[e] = None => ~entry[e].indexed
===========================================================================
