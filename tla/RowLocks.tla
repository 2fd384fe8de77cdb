------------------------------ MODULE RowLocks ------------------------------
(***************************************************************************)
(* The order in which the write transactions lock the rows of topics,      *)
(* conversations, messages, entries and vectors: each is a program of lock *)
(* requests read off its statements (storage/repositories/, tools/,        *)
(* api/v1/, extraction/jobs/, scripts/).  PostgreSQL makes a request wait  *)
(* for conflicting holders and aborts a transaction of a cycle.  A row that *)
(* the transaction itself inserts is no row of this table.                 *)
(***************************************************************************)
EXTENDS Naturals, Sequences

CONSTANTS Txns, LockTopics, LockEntries, LockConvs, Idle,
  Thread,  \* the messages of each conversation
  Span     \* the most rows that one statement writes

VARIABLES
  kind,   \* of each transaction, what it does
  prog,   \* the requests it has not been granted
  locks   \* the requests it has been granted

lockVars == <<kind, prog, locks>>

---------------------------------------------------------------------------
(* Rows and lock modes: KEY SHARE (a foreign key check), NO KEY UPDATE (an *)
(* update of other columns), UPDATE (a delete, a key, SELECT FOR UPDATE).  *)
RowLock(tab, mode, id) == [row |-> <<tab, id>>, mode |-> mode]
KS(tab, id) == RowLock(tab, "ks", id)
NK(tab, id) == RowLock(tab, "nk", id)
EX(tab, id) == RowLock(tab, "ex", id)

Compatible(m, n) == "ks" \in {m, n} /\ "ex" \notin {m, n}

\* A statement over several rows locks them in any order, a loop over rows
\* read by id in ascending order.
Orders(S) ==
  {s \in UNION {[1 .. n -> S] : n \in 0 .. Span} : \A i, j \in DOMAIN s : i # j => s[i] # s[j]}
Ascending(S) == {s \in Orders(S) : \A i, j \in DOMAIN s : i < j => s[i] < s[j]}
Each(tab, mode, ids) == [i \in DOMAIN ids |-> RowLock(tab, mode, ids[i])]

\* Rows given to topic t, and the foreign key check that ends the statement.
Given(tab, mode, ids, t) ==
  IF ids = << >> THEN << >> ELSE Each(tab, mode, ids) \o <<KS("topic", t)>>

AppendProg(t) == <<NK("topic", t)>>
UpdateProg(e, t) == <<EX("entry", e), NK("topic", t), EX("emb", e)>>
DeleteProgs(e, t) == {<<NK("entry", e), EX("emb", e), NK("topic", t)>>,
                      <<NK("entry", e), NK("topic", t), EX("emb", e)>>}
MoveProg(ids, t) == Given("entry", "nk", ids, t) \o <<NK("topic", t)>>
PatchProg(e, t, u) == UpdateProg(e, t) \o MoveProg(<<e>>, u)
ReembedProg(e) == <<NK("emb", e), NK("entry", e)>>

\* Mutant: the save touches its topic first.
SaveTopicFirst(c, ms, e, t) ==
  <<NK("topic", t), NK("conv", c)>> \o (Each("message", "ex", ms) \o <<NK("entry", e)>>)
SaveProg(c, ms, e, t) ==
  <<NK("conv", c)>> \o (Each("message", "ex", ms) \o <<NK("entry", e), NK("topic", t)>>)
FirstSaveProg(t) == <<KS("topic", t), NK("topic", t)>>
PersistProg(c, t) == <<KS("topic", t), NK("topic", t), NK("conv", c)>>
RenameProg(t) == <<EX("topic", t)>>
MergeProg(cs, s, t, u) ==
  Given("conv", "ex", cs, u) \o (Given("entry", "nk", s, u) \o <<EX("topic", t), NK("topic", u)>>)
ResetProg(ids) == Each("entry", "nk", ids)
RotateProgs(tab, S) == {Each(tab, "nk", ids) : ids \in Ascending(S)}

\* The transactions of one request: a vector stored, a stamp, a conversation
\* marked, a job inserted under its conversation's key.
SingleProgs ==
  {<<NK("emb", e)>> : e \in LockEntries}
    \cup {<<RowLock("entry", mode, e)>> : e \in LockEntries, mode \in {"ks", "nk"}}
    \cup {<<RowLock("conv", mode, c)>> : c \in LockConvs, mode \in {"ks", "nk"}}

Kinds == {"append", "update", "delete", "move", "patch", "reembed", "save", "first", "persist",
          "rename", "merge", "reset", "rotate", "claim", "single"}
Messages == UNION {Thread[c] : c \in LockConvs}
Programs ==
  [append |-> {AppendProg(t) : t \in LockTopics},
   update |-> {UpdateProg(e, t) : e \in LockEntries, t \in LockTopics},
   delete |-> UNION {DeleteProgs(e, t) : e \in LockEntries, t \in LockTopics},
   move |-> {MoveProg(s, t) : s \in Orders(LockEntries), t \in LockTopics},
   patch |-> {PatchProg(e, t, u) : e \in LockEntries, t \in LockTopics, u \in LockTopics},
   reembed |-> {ReembedProg(e) : e \in LockEntries},
   save |-> UNION {{SaveProg(c, ms, e, t) : ms \in Orders(Thread[c]), e \in LockEntries, t \in LockTopics} :
                     c \in LockConvs},
   first |-> {FirstSaveProg(t) : t \in LockTopics},
   persist |-> {PersistProg(c, t) : c \in LockConvs, t \in LockTopics},
   rename |-> {RenameProg(t) : t \in LockTopics},
   merge |-> {MergeProg(cs, s, tu[1], tu[2]) :
                cs \in Orders(LockConvs), s \in Orders(LockEntries),
                tu \in {p \in LockTopics \X LockTopics : p[1] # p[2]}},
   reset |-> {ResetProg(s) : s \in Orders(LockEntries)},
   rotate |-> RotateProgs("entry", LockEntries) \cup RotateProgs("message", Messages)
                \cup RotateProgs("conv", LockConvs),
   claim |-> {<< >>},
   single |-> SingleProgs]

ASSUME LocksAssumption ==
  /\ Idle \notin Kinds /\ Span \in Nat
  /\ LockEntries \subseteq Nat /\ LockConvs \subseteq Nat /\ Thread \in [LockConvs -> SUBSET Nat]
  /\ \A c, d \in LockConvs : c # d => Thread[c] \cap Thread[d] = {}

LockRows == ({"topic"} \X LockTopics) \cup ({"entry", "emb"} \X LockEntries)
              \cup ({"conv"} \X LockConvs) \cup ({"message"} \X Messages)
LockRequests == [row : LockRows, mode : {"ks", "nk", "ex"}]

(* Types.                                                                  *)
LocksTypeOK ==
  /\ kind \in [Txns -> Kinds \cup {Idle}]
  /\ \A x \in Txns : (\A i \in DOMAIN prog[x] : prog[x][i] \in LockRequests) /\ locks[x] \subseteq LockRequests

LocksInit ==
  /\ kind = [x \in Txns |-> Idle] /\ prog = [x \in Txns |-> << >>] /\ locks = [x \in Txns |-> {}]

---------------------------------------------------------------------------
Refuses(y, request) == \E h \in locks[y] : h.row = request.row /\ ~Compatible(h.mode, request.mode)
Blocks(y, x) == y # x /\ prog[x] # << >> /\ Refuses(y, Head(prog[x]))

Deadlock(x, y) == Blocks(y, x) /\ Blocks(x, y)

BeginTxn(x, k) ==
  /\ kind[x] = Idle
  /\ \E p \in Programs[k] : prog' = [prog EXCEPT ![x] = p]
  /\ kind' = [kind EXCEPT ![x] = k]
  /\ UNCHANGED locks

Acquire(x) ==
  /\ prog[x] # << >> /\ \A y \in Txns : ~Blocks(y, x)
  /\ locks' = [locks EXCEPT ![x] = @ \cup {Head(prog[x])}]
  /\ prog' = [prog EXCEPT ![x] = Tail(@)]
  /\ UNCHANGED kind

\* A claim of unindexed entries passes over the rows it would wait for, and
\* stamps rows that it has.
SkipLocked(x, e) ==
  /\ kind[x] = "claim"
  /\ \A y \in Txns \ {x} : ~Refuses(y, EX("entry", e))
  /\ locks' = [locks EXCEPT ![x] = @ \cup {EX("entry", e)}]
  /\ UNCHANGED <<kind, prog>>

Ended(x) ==
  /\ kind' = [kind EXCEPT ![x] = Idle]
  /\ prog' = [prog EXCEPT ![x] = << >>]
  /\ locks' = [locks EXCEPT ![x] = {}]

CommitTxn(x) == kind[x] # Idle /\ prog[x] = << >> /\ Ended(x)

\* A client may also go away in the middle of a transaction.
AbortTxn(x) == prog[x] # << >> /\ Ended(x)

LocksNext == \E x \in Txns :
  \/ \E k \in Kinds : BeginTxn(x, k)
  \/ Acquire(x)
  \/ \E e \in LockEntries : SkipLocked(x, e)
  \/ CommitTxn(x)
  \/ AbortTxn(x)

LocksSpec == LocksInit /\ [][LocksNext]_lockVars

---------------------------------------------------------------------------
(* The pairs of transactions that can block each other.  All of the others *)
(* take conversation, messages, entry, topic in this order, and a vector's *)
(* row under the lock of its entry.                                        *)
KnownDeadlocks ==
  {{"reembed", k} : k \in {"update", "delete", "patch"}}
    \cup {{"persist", k} : k \in {"save", "merge"}}
    \cup {{"patch"}, {"merge"}, {"move"}, {"patch", "merge"}, {"move", "merge"}}
    \cup {{"reset", k} : k \in {"reset", "move", "merge", "rotate"}}
    \cup {{"rotate", k} : k \in {"move", "merge", "save"}}
AgainstTheOrder == {"reembed", "persist", "patch", "move", "merge", "reset", "rotate"}
Places == [conv |-> 1, message |-> 2, entry |-> 3, topic |-> 4, emb |-> 5]
Place(request) == Places[request.row[1]]

(* Two writes deadlock only where one of them locks against the order.     *)
(* And if a transaction of the other kinds that has locks waits for one of *)
(* them that waits too, then that one waits for a row further on in the    *)
(* order: appends, updates, deletes, saves, renames, claims and single     *)
(* writes, however many, never wait for each other in a ring.              *)
\* The statements of the repositories' write functions, in their order.
DeadlocksKnown ==
  \A x, y \in Txns :
    /\ Deadlock(x, y) => {kind[x], kind[y]} \in KnownDeadlocks
    /\ /\ Blocks(y, x) /\ locks[x] # {} /\ prog[y] # << >>
       /\ {kind[x], kind[y]} \cap AgainstTheOrder = {}
       => Place(Head(prog[x])) < Place(Head(prog[y]))
=============================================================================
