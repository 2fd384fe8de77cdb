------------------------------ MODULE Topics ------------------------------
(***************************************************************************)
(* Topics (storage/repositories/topics.py) and what moves rows between     *)
(* them: delete with reassignment, merge, bulk move and PATCH of entries,  *)
(* beside the appends and saves that name a topic by its path.             *)
(*                                                                         *)
(* A reassignment is one transaction of several statements, each with a    *)
(* snapshot of its own; its writes show at COMMIT and lock their rows      *)
(* until then.  Every other operation resolves its topic in one statement  *)
(* and writes in another, so it takes effect at the second.  A topic row   *)
(* is referenced by entries and conversations ON DELETE RESTRICT.          *)
(***************************************************************************)
EXTENDS Naturals, FiniteSets

CONSTANTS Topics,   \* ids, never reused
          Paths,
          Entries,
          Shelved,  \* conversations
          Slug(_),  \* of a conversation
          Calls,    \* requests in flight at a time
          Nil

ASSUME TopicsAssumption == Nil \notin Topics \cup Paths

VARIABLES
  path,    \* topics.path, Nil where there is no row
  minted,  \* the ids handed out
  home,    \* entries.topic_id, Nil before the INSERT
  hidden,  \* the entries with deleted_at set
  shelf,   \* conversations.topic_id
  call     \* the requests

topicsVars == <<path, minted, home, hidden, shelf, call>>
topicTables == <<path, minted, home, hidden, shelf>>

---------------------------------------------------------------------------
Reassigning == {"counted", "entries", "drop", "commit"}
Call == [pc : {"idle", "append", "save", "move", "blocked"} \cup Reassigning,
         src : Topics \cup {Nil},
         dst : Topics \cup {Nil},
         ents : SUBSET Entries,    \* what it moves or has moved
         convs : SUBSET Shelved,
         late : SUBSET (Entries \cup Shelved)]   \* came into src behind its back (history)

idleCall == [pc |-> "idle", src |-> Nil, dst |-> Nil, ents |-> {}, convs |-> {}, late |-> {}]

TopicsTypeOK ==
  /\ path \in [Topics -> Paths \cup {Nil}]
  /\ minted \in SUBSET Topics
  /\ home \in [Entries -> Topics \cup {Nil}]
  /\ hidden \in SUBSET Entries
  /\ shelf \in [Shelved -> Topics \cup {Nil}]
  /\ call \in [Calls -> Call]

TopicsInit ==
  /\ path = [t \in Topics |-> Nil]
  /\ minted = {}
  /\ home = [e \in Entries |-> Nil]
  /\ hidden = {}
  /\ shelf = [c \in Shelved |-> Nil]
  /\ call = [w \in Calls |-> idleCall]

---------------------------------------------------------------------------
(* Rows and locks                                                          *)

Exists(t) == t # Nil /\ path[t] # Nil
EntriesIn(t) == {e \in Entries : home[e] = t}
ConvsIn(t) == {c \in Shelved : shelf[c] = t}
CallAt(w, pc) == call[w].pc = pc

(* Rows an open reassignment has moved are locked; the topic it has        *)
(* deleted makes every foreign key check on it wait.                       *)
EntryFree(e) == \A w \in Calls : call[w].pc \in {"drop", "commit"} => e \notin call[w].ents
ConvFree(c) == \A w \in Calls : call[w].pc \in {"entries", "drop", "commit"} => c \notin call[w].convs
TopicFree(t) == \A w \in Calls : CallAt(w, "commit") => call[w].src # t

(* An open reassignment into t keeps its row locked: with KEY SHARE for    *)
(* the rows it has moved, and for its updated_at at the end.               *)
HeldAsDst(x, t) ==
  /\ call[x].dst = t
  /\ \/ CallAt(x, "commit")
     \/ CallAt(x, "entries") /\ call[x].convs # {}
     \/ CallAt(x, "drop") /\ call[x].ents \cup call[x].convs # {}

(* Rows come into topic t: a reassignment of t that has already moved that *)
(* kind of row, or counted none, has not seen them.                        *)
Unseen(x, t, es, cs) ==
  IF call[x].src # t THEN {}
  ELSE (IF CallAt(x, "drop") THEN es ELSE {})
       \cup (IF call[x].pc \in {"entries", "drop"} THEN cs ELSE {})
EndArriving(w, t, es, cs) ==
  call' = [x \in Calls |-> IF x = w THEN idleCall
                           ELSE [call[x] EXCEPT !.late = @ \cup Unseen(x, t, es, cs)]]

---------------------------------------------------------------------------
(* create and rename: UNIQUE (user_id, path).                              *)

PathFree(p) == \A t \in Topics : path[t] # p
Create(t, p) ==
  /\ t \notin minted /\ PathFree(p)
  /\ path' = [path EXCEPT ![t] = p]
  /\ minted' = minted \cup {t}
  /\ UNCHANGED <<home, hidden, shelf, call>>

Rename(t, p) ==
  /\ Exists(t) /\ TopicFree(t) /\ PathFree(p)
  /\ path' = [path EXCEPT ![t] = p]
  /\ UNCHANGED <<minted, home, hidden, shelf, call>>

---------------------------------------------------------------------------
(* append and save_conversation: get_id, then the INSERT.  A topic that    *)
(* has gone in between fails the foreign key.                              *)

ResolveTopic(w, t, pc) ==
  /\ CallAt(w, "idle") /\ Exists(t)
  /\ call' = [call EXCEPT ![w] = [idleCall EXCEPT !.pc = pc, !.dst = t]]
  /\ UNCHANGED topicTables

InsertEntry(w, e) ==
  LET t == call[w].dst IN
  /\ CallAt(w, "append") /\ TopicFree(t) /\ Exists(t)
  /\ home[e] = Nil
  /\ home' = [home EXCEPT ![e] = t]
  /\ EndArriving(w, t, {e}, {})
  /\ UNCHANGED <<path, minted, hidden, shelf>>

(* ON CONFLICT (topic_id, slug) updates the conversation that is there;    *)
(* the index entry of a row being moved in is waited for.                  *)
InsertConv(w, c) ==
  LET t == call[w].dst IN
  /\ CallAt(w, "save") /\ TopicFree(t) /\ Exists(t)
  /\ \A d \in Shelved : Slug(d) = Slug(c) => ConvFree(d)
  /\ shelf[c] \in {Nil, t}
  /\ \A d \in ConvsIn(t) : Slug(d) = Slug(c) => d = c
  /\ shelf' = [shelf EXCEPT ![c] = t]
  /\ EndArriving(w, t, {}, {c})
  /\ UNCHANGED <<path, minted, home, hidden>>

(* delete: soft, the row keeps its topic.                                  *)
SoftDelete(e) ==
  /\ home[e] # Nil /\ e \notin hidden /\ EntryFree(e)
  /\ hidden' = hidden \cup {e}
  /\ UNCHANGED <<path, minted, home, shelf, call>>

---------------------------------------------------------------------------
(* move_entries_to_topic, also at the end of a PATCH: the destination is   *)
(* looked up, then one UPDATE moves the active rows and its RETURNING      *)
(* decides whether the transaction stands.                                 *)

BeginMove(w, es, t) ==
  /\ CallAt(w, "idle") /\ Exists(t) /\ es # {}
  /\ call' = [call EXCEPT ![w] = [idleCall EXCEPT !.pc = "move", !.dst = t, !.ents = es]]
  /\ UNCHANGED topicTables

Active(e) == home[e] # Nil /\ e \notin hidden
MoveRows(w) ==
  LET t == call[w].dst IN
  /\ CallAt(w, "move") /\ TopicFree(t) /\ Exists(t)
  /\ \A e \in call[w].ents : EntryFree(e) /\ Active(e)
  /\ home' = [e \in Entries |-> IF e \in call[w].ents THEN t ELSE home[e]]
  /\ EndArriving(w, t, {e \in call[w].ents : home[e] # t}, {})
  /\ UNCHANGED <<path, minted, hidden, shelf>>

(* The topic has gone, an id does not resolve, or anything else fails:     *)
(* the transaction rolls back.                                             *)
Refuse(w) ==
  /\ ~CallAt(w, "idle")
  /\ call' = [call EXCEPT ![w] = idleCall]
  /\ UNCHANGED topicTables

---------------------------------------------------------------------------
(* delete_with_reassign and merge                                          *)

(* _require_path and _move_counts.  An empty topic is deleted outright; a  *)
(* topic with rows needs a destination that exists.                        *)
BeginDelete(w, t, d) ==
  LET empty == EntriesIn(t) \cup ConvsIn(t) = {} IN
  /\ CallAt(w, "idle") /\ Exists(t)
  /\ empty \/ (Exists(d) /\ d # t)
  /\ call' = [call EXCEPT ![w] = [idleCall EXCEPT !.pc = IF empty THEN "drop" ELSE "counted",
                                                  !.src = t, !.dst = IF empty THEN Nil ELSE d]]
  /\ UNCHANGED topicTables

BeginMerge(w, t, d) ==
  /\ CallAt(w, "idle") /\ Exists(t) /\ Exists(d) /\ d # t
  /\ call' = [call EXCEPT ![w] = [idleCall EXCEPT !.pc = "counted", !.src = t, !.dst = d]]
  /\ UNCHANGED topicTables

(* _reassign_rows.  An UPDATE of no rows asks nothing of the destination;  *)
(* a slug that is taken there raises TopicMergeConflict.                   *)
MoveConvs(w) ==
  LET cs == ConvsIn(call[w].src)
      d == call[w].dst IN
  /\ CallAt(w, "counted")
  /\ \A c \in cs : ConvFree(c)
  /\ cs # {} => Exists(d) /\ TopicFree(d)
  /\ \A c \in cs : \A k \in Shelved : Slug(k) = Slug(c) => shelf[k] # d /\ ConvFree(k)
  /\ call' = [call EXCEPT ![w].pc = "entries", ![w].convs = cs]
  /\ UNCHANGED topicTables

\* Mutant: the UPDATE leaves soft-deleted entries alone.
MoveActiveEntries(w) ==
  LET es == EntriesIn(call[w].src) \ hidden IN
  /\ CallAt(w, "entries")
  /\ \A e \in es : EntryFree(e)
  /\ es # {} => Exists(call[w].dst) /\ TopicFree(call[w].dst)
  /\ call' = [call EXCEPT ![w].pc = "drop", ![w].ents = es]
  /\ UNCHANGED topicTables

MoveEntries(w) ==
  LET es == EntriesIn(call[w].src) IN
  /\ CallAt(w, "entries")
  /\ \A e \in es : EntryFree(e)
  /\ es # {} => Exists(call[w].dst) /\ TopicFree(call[w].dst)
  /\ call' = [call EXCEPT ![w].pc = "drop", ![w].ents = es]
  /\ UNCHANGED topicTables

(* DELETE FROM topics waits for the transactions that hold the row, then   *)
(* looks for rows that still refer to it.  Nobody catches that error: the  *)
(* request ends in a 500.                                                  *)
\* Mutant: only entries refer to their topic.
EntriesLeftBehind(w) == EntriesIn(call[w].src) \ call[w].ents

LeftBehind(w) == (EntriesIn(call[w].src) \ call[w].ents) \cup (ConvsIn(call[w].src) \ call[w].convs)
DropTopic(w) ==
  /\ CallAt(w, "drop") /\ TopicFree(call[w].src)
  /\ \A x \in Calls \ {w} : ~HeldAsDst(x, call[w].src)
  /\ call' = [call EXCEPT ![w].pc = IF LeftBehind(w) = {} THEN "commit" ELSE "blocked"]
  /\ UNCHANGED topicTables

CommitReassign(w) ==
  LET d == call[w].dst IN
  /\ CallAt(w, "commit")
  /\ path' = [path EXCEPT ![call[w].src] = Nil]
  /\ home' = [e \in Entries |-> IF e \in call[w].ents THEN d ELSE home[e]]
  /\ shelf' = [c \in Shelved |-> IF c \in call[w].convs THEN d ELSE shelf[c]]
  /\ EndArriving(w, d, call[w].ents, call[w].convs)
  /\ UNCHANGED <<minted, hidden>>

---------------------------------------------------------------------------
TopicsStep(w) ==
  \/ \E t \in Topics, pc \in {"append", "save"} : ResolveTopic(w, t, pc)
  \/ \E e \in Entries : InsertEntry(w, e)
  \/ \E c \in Shelved : InsertConv(w, c)
  \/ \E es \in SUBSET Entries, t \in Topics : BeginMove(w, es, t)
  \/ MoveRows(w) \/ Refuse(w)
  \/ \E t \in Topics, d \in Topics \cup {Nil} : BeginDelete(w, t, d) \/ BeginMerge(w, t, d)
  \/ MoveConvs(w) \/ MoveEntries(w) \/ DropTopic(w) \/ CommitReassign(w)

TopicsNext ==
  \/ \E t \in Topics, p \in Paths : Create(t, p) \/ Rename(t, p)
  \/ \E e \in Entries : SoftDelete(e)
  \/ \E w \in Calls : TopicsStep(w)
TopicsSpec == TopicsInit /\ [][TopicsNext]_topicsVars

---------------------------------------------------------------------------
(* Properties                                                              *)

(* A delete or merge that fails on the foreign key was overtaken: rows     *)
(* came into the topic after it had moved, or counted, the ones it found.  *)
(* Soft-deleted entries alone, which no screen shows, never make it fail.  *)
BlockedByLateRows == \A w \in Calls : CallAt(w, "blocked") => call[w].late # {}

(* A topic only goes away with its rows carried over: each of them is then *)
(* in the destination of the request that dropped it.                      *)
DropCarriesRows ==
  [][\A t \in Topics : Exists(t) /\ path'[t] = Nil =>
       \E w \in Calls : /\ call[w].src = t
                        /\ \A e \in EntriesIn(t) : home'[e] = call[w].dst /\ home'[e] # Nil
                        /\ \A c \in ConvsIn(t) : shelf'[c] = call[w].dst /\ shelf'[c] # Nil]_topicsVars
=============================================================================
