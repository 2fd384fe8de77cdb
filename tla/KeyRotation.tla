---------------------------- MODULE KeyRotation ----------------------------
(***************************************************************************)
(* Key rotation (scripts/rotate_encryption_key.py, crypto/cipher.py) of    *)
(* one of the five (table, column) pairs, while servers keep writing.  The *)
(* script reads a batch in one transaction and rewrites it in another; a   *)
(* server encrypts with the highest version of the keys it was started     *)
(* with.  The first byte of the nonce is the version of the key.           *)
(***************************************************************************)
EXTENDS Naturals, FiniteSets, FiniteSetsExt

CONSTANTS LastId,        \* bound: ids handed out
          LastText,      \* bound: texts a row has had
          BatchSize,
          From, To,      \* --from-version, --to-version
          ServerVersions \* the active versions of the servers

ASSUME RotationAssumption ==
  /\ LastId \in Nat /\ LastText \in Nat \ {0} /\ BatchSize \in Nat \ {0}
  /\ From # To /\ ServerVersions \subseteq Nat /\ From \in Nat /\ To \in Nat

Ids == 1..LastId
Texts == 1..LastText
Versions == {From, To} \cup ServerVersions

VARIABLES
  cell,      \* the ciphertexts: key version, text, whether the tag verifies
  unborn,    \* ids handed out to transactions still open
  newest,    \* the text last written by a server (history)
  script,    \* the run under way
  overtaken, \* rows edited after a batch read them, before it wrote (history)
  late,      \* rows a server wrote in the old version during the run (history)
  rewritten, \* rows the script has re-encrypted, over all runs (history)
  vanished,  \* rows that were gone when it did (history)
  audited    \* the counts of the audit rows, added up

rotationVars == <<cell, unborn, newest, script, overtaken, late, rewritten, vanished, audited>>
serverVars == <<unborn, newest, overtaken, late>>
auditVars == <<rewritten, vanished, audited>>

---------------------------------------------------------------------------
NoCell == [version |-> 0, text |-> 0, sound |-> TRUE]
Cell == [version : Versions, text : Texts, sound : BOOLEAN] \cup {NoCell}
Present(i) == cell[i] # NoCell

Script == [pc : {"idle", "select", "rows", "done"},
           hasKey : BOOLEAN,             \* for From; without To it does not start
           lastId : 0..LastId,
           todo : SUBSET Ids,            \* rows of the batch still to do
           read : [Ids -> Cell],         \* what the SELECT returned
           written : SUBSET Ids]         \* rows this transaction has updated, and locks

noScript == [pc |-> "idle", hasKey |-> FALSE, lastId |-> 0, todo |-> {}, read |-> [i \in Ids |-> NoCell],
             written |-> {}]

RotationTypeOK ==
  /\ cell \in [Ids -> Cell]
  /\ unborn \in SUBSET Ids
  /\ newest \in [Ids -> Texts \cup {0}]
  /\ script \in Script
  /\ overtaken \in SUBSET Ids /\ late \in SUBSET Ids
  /\ rewritten \in Nat /\ vanished \in Nat /\ audited \in Nat

(* Rows of any version the script may meet; some do not verify.            *)
RotationInit ==
  /\ cell \in [Ids -> [version : Versions, text : {1}, sound : BOOLEAN] \cup {NoCell}]
  /\ unborn = {}
  /\ newest = [i \in Ids |-> cell[i].text]
  /\ script = noScript
  /\ overtaken = {} /\ late = {}
  /\ rewritten = 0 /\ vanished = 0 /\ audited = 0

---------------------------------------------------------------------------
(* The servers                                                             *)

RowUnlocked(i) == i \notin script.written
Overtake(i) == IF i \in script.todo THEN overtaken \cup {i} ELSE overtaken \ {i}
Lateness(i, v) == IF v = From THEN late \cup {i} ELSE late
Encrypted(i, v, x) ==
  /\ cell' = [cell EXCEPT ![i] = [version |-> v, text |-> x, sound |-> TRUE]]
  /\ newest' = [newest EXCEPT ![i] = x]
  /\ late' = Lateness(i, v)

(* The id is taken at the INSERT, the row is there at COMMIT.              *)
TakeId(i) ==
  /\ ~Present(i) /\ newest[i] = 0 /\ i \notin unborn
  /\ \A j \in Ids : j > i => newest[j] = 0 /\ j \notin unborn
  /\ unborn' = unborn \cup {i}
  /\ UNCHANGED <<cell, newest, script, overtaken, late>> /\ UNCHANGED auditVars

CommitInsert(i, v) ==
  /\ i \in unborn
  /\ unborn' = unborn \ {i}
  /\ Encrypted(i, v, 1)
  /\ UNCHANGED <<script, overtaken>> /\ UNCHANGED auditVars

\* Mutant: the script's UPDATE does not hold the row.
EditLocked(i, v) ==
  /\ Present(i) /\ newest[i] < LastText
  /\ Encrypted(i, v, newest[i] + 1)
  /\ overtaken' = Overtake(i)
  /\ UNCHANGED <<unborn, script>> /\ UNCHANGED auditVars

(* An update encrypts the whole field anew.                                *)
Edit(i, v) ==
  /\ Present(i) /\ newest[i] < LastText /\ RowUnlocked(i)
  /\ Encrypted(i, v, newest[i] + 1)
  /\ overtaken' = Overtake(i)
  /\ UNCHANGED <<unborn, script>> /\ UNCHANGED auditVars

(* Re-saving a conversation deletes its messages.                          *)
DeleteRow(i) ==
  /\ Present(i) /\ RowUnlocked(i)
  /\ cell' = [cell EXCEPT ![i] = NoCell]
  /\ UNCHANGED script /\ UNCHANGED serverVars /\ UNCHANGED auditVars

---------------------------------------------------------------------------
(* The script: _rotate_table                                               *)

AtSource(i) == Present(i) /\ cell[i].version = From

(* No rows counted, no batches.  The environment may lack the old key.     *)
StartRun(hasKey) ==
  /\ script.pc \in {"idle", "done"}
  /\ script' = [noScript EXCEPT !.hasKey = hasKey,
                               !.pc = IF \E i \in Ids : AtSource(i) THEN "select" ELSE "done"]
  /\ late' = {}
  /\ UNCHANGED <<cell, unborn, newest, overtaken>> /\ UNCHANGED auditVars

\* Mutant: the SELECT has no ORDER BY.
AnyBatch(c) == {b \in SUBSET c : Cardinality(b) <= BatchSize /\ (b = {} => c = {})}

(* ORDER BY id LIMIT n                                                     *)
Batches(c) ==
  {b \in AnyBatch(c) : /\ Cardinality(b) < BatchSize => b = c
                       /\ \A i \in b, j \in c \ b : i < j}

SelectBatch ==
  LET candidates == {i \in Ids : i > script.lastId /\ AtSource(i)} IN
  /\ script.pc = "select"
  /\ \E b \in Batches(candidates) :
       script' = [script EXCEPT !.pc = IF b = {} THEN "done" ELSE "rows",
                                !.lastId = IF b = {} THEN @ ELSE Max(b),
                                !.todo = b,
                                !.read = [i \in Ids |-> IF i \in b THEN cell[i] ELSE NoCell],
                                !.written = {}]
  /\ UNCHANGED cell /\ UNCHANGED serverVars /\ UNCHANGED auditVars

NextRow(i) == script.pc = "rows" /\ i \in script.todo /\ \A j \in script.todo : i <= j

(* No key for the source version: decrypt raises ValueError, a warning.    *)
SkipRow(i) ==
  /\ NextRow(i) /\ ~script.hasKey
  /\ script' = [script EXCEPT !.todo = @ \ {i}]
  /\ UNCHANGED cell /\ UNCHANGED serverVars /\ UNCHANGED auditVars

(* UPDATE ... WHERE id = $3: whatever the row has become.                  *)
UpdateRow(i) ==
  /\ NextRow(i) /\ script.hasKey /\ script.read[i].sound
  /\ script' = [script EXCEPT !.todo = @ \ {i}, !.written = @ \cup {i}]
  /\ UNCHANGED cell /\ UNCHANGED serverVars /\ UNCHANGED auditVars

(* InvalidTag is neither DecryptionError nor ValueError: it ends the run,  *)
(* and the batch rolls back.  So does a crash, or a lost connection.       *)
AbortRun ==
  /\ script.pc \in {"select", "rows"}
  /\ script' = noScript
  /\ overtaken' = overtaken \ (script.todo \cup script.written)
  /\ UNCHANGED <<cell, unborn, newest, late>> /\ UNCHANGED auditVars

(* The batch's count is of UPDATEs, not of the rows they found.            *)
BatchUpdated == Cardinality(script.written)

Rewrites(i) == i \in script.written /\ Present(i)
CommitBatch ==
  /\ script.pc = "rows" /\ script.todo = {}
  /\ cell' = [i \in Ids |-> IF Rewrites(i) THEN [script.read[i] EXCEPT !.version = To] ELSE cell[i]]
  /\ rewritten' = rewritten + Cardinality({i \in Ids : Rewrites(i)})
  /\ vanished' = vanished + Cardinality({i \in script.written : ~Present(i)})
  /\ audited' = audited + BatchUpdated
  /\ script' = [script EXCEPT !.pc = "select", !.written = {}]
  /\ UNCHANGED serverVars

---------------------------------------------------------------------------
ServerStep(i) == TakeId(i) \/ DeleteRow(i) \/ (\E v \in ServerVersions : CommitInsert(i, v) \/ Edit(i, v))
ScriptStep ==
  \/ \E hasKey \in BOOLEAN : StartRun(hasKey)
  \/ SelectBatch \/ CommitBatch \/ AbortRun
  \/ \E i \in Ids : SkipRow(i) \/ UpdateRow(i)
RotationNext == (\E i \in Ids : ServerStep(i)) \/ ScriptStep
RotationSpec == RotationInit /\ [][RotationNext]_rotationVars

---------------------------------------------------------------------------
(* Properties                                                              *)

(* A row holds the text last written to it, or a batch had read the row    *)
(* before that text was committed and wrote the older one back over it:    *)
(* the UPDATE does not look at the row again.  No crash, restart or order  *)
(* of batches loses a text in any other way.                               *)
TextsKeptUnlessOvertaken == \A i \in Ids : Present(i) => cell[i].text = newest[i] \/ i \in overtaken

(* A run that ends normally leaves nothing in the old version but what a   *)
(* server wrote in it during the run, and then only if it had the key; it  *)
(* does not end normally past a row that fails to verify.                  *)
SourceRotated ==
  script.pc = "done" /\ script.hasKey => \A i \in Ids : AtSource(i) => i \in late

(* The audit rows account for every row re-encrypted, whatever crashed,    *)
(* and for rows deleted between SELECT and UPDATE besides.                 *)
AuditAccounts == audited = rewritten + vanished

(* What an operator may rely on when a run has ended and before the old    *)
(* key is retired: the table is covered and the audit log adds up.         *)
FinishedRunCovers == SourceRotated /\ AuditAccounts
=============================================================================
