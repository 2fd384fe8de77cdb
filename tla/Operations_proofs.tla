-------------------------- MODULE Operations_proofs --------------------------
(***************************************************************************)
(* Theorems about the parts that run beside the journal's own operations:  *)
(* the audit log, key rotation, the event streams' cap and what a process  *)
(* opens and closes.                                                       *)
(***************************************************************************)
EXTENDS AuditTrail, KeyRotation, EventStreams, ServerLifecycle, FiniteSetTheorems,
        WellFoundedInduction, TLAPS

---------------------------------------------------------------------------
(* The audit log: for any number of calls, no ghost audit rows and no      *)
(* change without one but for the causes AuditFollowsWrites names.         *)

(* Nothing is committed before the transaction, vectors and a tool's audit *)
(* row come only after it, and in-band rows come with the change.          *)
Sequence(c) ==
  /\ stage[c] = "begin" => c \notin committed
  /\ stage[c] \in {"embed", "mark", "result", "audit"} => c \in committed
  /\ c \in committed /\ op[c] \in InBand => c \in recorded
  /\ c \in recorded => c \in committed

(* A call that is over has the row it should have, or a reason.            *)
Explained(c) ==
  c \in committed /\ stage[c] = "over" =>
    c \in recorded \/ op[c] \in Unaudited \/ c \in counted \/ answer[c] \in {"raised", "cancelled"}

AuditInv ==
  /\ AuditTypeOK
  /\ \A c \in Writes : Sequence(c)
  /\ \A c \in Writes : Explained(c)
  /\ \A c \in Writes : answer[c] = "not_found" => ~alive

---------------------------------------------------------------------------
(* How a call's stage and answer change, and only its own.                 *)
LEMMA AdvanceEffect ==
  ASSUME AuditTypeOK, NEW c \in Writes, NEW where \in {"embed", "mark", "result", "audit", "over"},
         Advance(c, where)
  PROVE  /\ stage' \in [Writes -> {"begin", "embed", "mark", "result", "audit", "over"}]
         /\ stage'[c] = where /\ \A d \in Writes : d # c => stage'[d] = stage[d]
         /\ op' = op /\ answer' = answer
BY DEF AuditTypeOK, Advance

LEMMA FinishEffect ==
  ASSUME AuditTypeOK, NEW c \in Writes, NEW told \in Answers, Finish(c, told)
  PROVE  /\ stage' \in [Writes -> {"begin", "embed", "mark", "result", "audit", "over"}]
         /\ answer' \in [Writes -> Answers \cup {Pending}]
         /\ op' = op /\ answer'[c] = told
         /\ stage'[c] = IF op[c] \in Decorated /\ told = "done" THEN "audit" ELSE "over"
         /\ \A d \in Writes : d # c => stage'[d] = stage[d] /\ answer'[d] = answer[d]
BY DEF AuditTypeOK, Finish, Successes

LEMMA LeaveEffect ==
  ASSUME AuditTypeOK, NEW c \in Writes, NEW told \in Answers, LeaveWrite(c, told)
  PROVE  /\ stage' \in [Writes -> {"begin", "embed", "mark", "result", "audit", "over"}]
         /\ answer' \in [Writes -> Answers \cup {Pending}]
         /\ op' = op /\ answer'[c] = told /\ stage'[c] = "over"
         /\ \A d \in Writes : d # c => stage'[d] = stage[d] /\ answer'[d] = answer[d]
BY DEF AuditTypeOK, LeaveWrite

LEMMA ApplyEffect ==
  ASSUME AuditTypeOK, NEW c \in Writes, Apply(c)
  PROVE  /\ committed' \in SUBSET Writes /\ recorded' \in SUBSET Writes /\ alive' \in BOOLEAN
         /\ c \in committed' /\ (c \in recorded' <=> c \in recorded \/ op[c] \in InBand)
         /\ ~alive => ~alive'
         /\ \A d \in Writes : d # c => /\ d \in committed' <=> d \in committed
                                       /\ d \in recorded' <=> d \in recorded
BY DEF AuditTypeOK, Apply

---------------------------------------------------------------------------
LEMMA AuditInitInv == AuditInit => AuditInv
BY AuditAssumption DEF AuditInit, AuditInv, AuditTypeOK, Sequence, Explained, Answers

(* The transaction does not commit: refused, not found, or raised.         *)
LEMMA NoCommitStep ==
  ASSUME AuditInv, NEW c \in Writes, RefuseWrite(c) \/ Missing(c) \/ RollBack(c)
  PROVE  AuditInv'
<1>1. CASE RefuseWrite(c)
  <2>1. Finish(c, "refused") /\ stage[c] = "begin" BY <1>1 DEF RefuseWrite
  <2> QED BY <1>1, <2>1, FinishEffect DEF RefuseWrite, AuditInv, AuditTypeOK, Sequence, Explained, Answers
<1>2. CASE Missing(c)
  <2>1. Finish(c, "not_found") /\ stage[c] = "begin" /\ ~alive BY <1>2 DEF Missing
  <2> QED BY <1>2, <2>1, FinishEffect DEF Missing, AuditInv, AuditTypeOK, Sequence, Explained, Answers
<1>3. CASE RollBack(c)
  <2>1. LeaveWrite(c, "raised") /\ stage[c] = "begin" BY <1>3 DEF RollBack
  <2> QED BY <1>3, <2>1, LeaveEffect DEF RollBack, AuditInv, AuditTypeOK, Sequence, Explained, Answers
<1> QED BY <1>1, <1>2, <1>3

(* The transaction commits, with its audit row when that is in band.       *)
LEMMA CommitStep ==
  ASSUME AuditInv, NEW c \in Writes, Commit(c)
  PROVE  AuditInv'
<1>1. AuditTypeOK /\ Apply(c) /\ stage[c] = "begin" /\ counted' = counted
  BY DEF Commit, AuditInv
<1>2. PICK where \in {"embed", "result"} : Advance(c, where)
  BY DEF Commit
<1> QED BY <1>1, <1>2, AdvanceEffect, ApplyEffect
        DEF AuditInv, AuditTypeOK, Sequence, Explained

(* The vector and its mark, which leave the tables of this model alone.    *)
LEMMA EmbeddingStep ==
  ASSUME AuditInv, NEW c \in Writes, Embed(c) \/ Mark(c)
  PROVE  AuditInv'
<1>1. AuditTypeOK /\ stage[c] \in {"embed", "mark"} /\ UNCHANGED <<committed, recorded, counted, alive>>
  BY DEF Embed, Mark, AuditInv
<1>2. CASE \E where \in {"result", "mark"} : Advance(c, where)
  BY <1>1, <1>2, AdvanceEffect DEF AuditInv, AuditTypeOK, Sequence, Explained
<1>3. CASE LeaveWrite(c, "raised")
  BY <1>1, <1>3, LeaveEffect DEF AuditInv, AuditTypeOK, Sequence, Explained, Answers
<1> QED BY <1>2, <1>3 DEF Embed, Mark

(* Only a PATCH says not_found after its commit: it has an in-band row or  *)
(* none at all.                                                            *)
LEMMA ReturnStep ==
  ASSUME AuditInv, NEW c \in Writes, HandlerReturns(c)
  PROVE  AuditInv'
<1>1. AuditTypeOK /\ stage[c] = "result" /\ UNCHANGED <<committed, recorded, counted, alive>>
  BY DEF HandlerReturns, AuditInv
<1>2. CASE op[c] \in {"patch", "patch_move"} /\ ~alive
  <2>1. Finish(c, "not_found") BY <1>2 DEF HandlerReturns
  <2> QED BY <1>1, <1>2, <2>1, FinishEffect
          DEF AuditInv, AuditTypeOK, Sequence, Explained, Answers, InBand, Unaudited
<1>3. CASE ~(op[c] \in {"patch", "patch_move"} /\ ~alive)
  <2>1. Finish(c, "done") BY <1>3 DEF HandlerReturns
  <2>2. op[c] \in Decorated \cup InBand \cup Unaudited BY <1>1 DEF AuditTypeOK, Operations
  <2>3. stage'[c] = "audit" => op[c] \in Decorated BY <1>1, <2>1, FinishEffect DEF Answers
  <2>4. c \in committed /\ op[c] \in InBand => c \in recorded BY DEF AuditInv, Sequence
  <2> QED BY <1>1, <2>1, <2>2, <2>3, <2>4, FinishEffect
          DEF AuditInv, AuditTypeOK, Sequence, Explained, Answers
<1> QED BY <1>2, <1>3

(* The decorator writes the row, or counts that it could not.              *)
LEMMA AuditRowStep ==
  ASSUME AuditInv, NEW c \in Writes, WriteAudit(c)
  PROVE  AuditInv'
<1>1. AuditTypeOK /\ Advance(c, "over") /\ stage[c] = "audit" /\ UNCHANGED <<committed, alive>>
  BY DEF WriteAudit, AuditInv
<1> QED BY <1>1, AdvanceEffect DEF WriteAudit, AuditInv, AuditTypeOK, Sequence, Explained

(* The client goes away, perhaps in the middle of the commit.              *)
LEMMA CancelStep ==
  ASSUME AuditInv, NEW c \in Writes, CancelWrite(c)
  PROVE  AuditInv'
<1>1. AuditTypeOK /\ LeaveWrite(c, "cancelled") /\ counted' = counted
  BY DEF CancelWrite, AuditInv
<1>2. CASE UNCHANGED <<committed, recorded, alive>>
  BY <1>1, <1>2, LeaveEffect DEF AuditInv, AuditTypeOK, Sequence, Explained, Answers
<1>3. CASE Apply(c)
  BY <1>1, <1>3, LeaveEffect, ApplyEffect DEF AuditInv, AuditTypeOK, Sequence, Explained, Answers
<1> QED BY <1>2, <1>3 DEF CancelWrite

LEMMA AuditStep == AuditInv /\ [AuditNext]_trailVars => AuditInv'
<1> SUFFICES ASSUME AuditInv, [AuditNext]_trailVars PROVE AuditInv'
  OBVIOUS
<1>1. CASE UNCHANGED trailVars
  BY <1>1 DEF trailVars, AuditInv, AuditTypeOK, Sequence, Explained
<1>2. CASE AuditNext
  BY <1>2, NoCommitStep, CommitStep, EmbeddingStep, ReturnStep, AuditRowStep, CancelStep
     DEF AuditNext
<1> QED BY <1>1, <1>2

---------------------------------------------------------------------------
(* AuditInv holds in every reachable state.                                *)
THEOREM AuditInvariant == AuditSpec => []AuditInv
BY AuditInitInv, AuditStep, PTL DEF AuditSpec

(* Every reachable state is typed.                                         *)
THEOREM AuditTypeCorrect == AuditSpec => []AuditTypeOK
<1>1. AuditInv => AuditTypeOK BY DEF AuditInv
<1> QED BY <1>1, AuditInvariant, PTL

(* No ghost audit rows, and no committed change without a row or a cause   *)
(* (audit/decorator.py, audit/sql.py, tools/entries.py), for any number of *)
(* concurrent calls.                                                       *)
THEOREM AuditTruthful == AuditSpec => []AuditFollowsWrites
<1>1. AuditInv => AuditFollowsWrites
  BY DEF AuditInv, AuditTypeOK, AuditFollowsWrites, Sequence, Explained
<1> QED BY <1>1, AuditInvariant, PTL

---------------------------------------------------------------------------
(* Key rotation, for any number of rows, texts and key versions, any batch *)
(* size and any versions that the servers encrypt with.                    *)

(* The rows of the batch under way, done or still to do.                   *)
InBatch == script.todo \cup script.written

(* A batch is of rows that existed when it was read, and there is one only *)
(* between its two transactions; a row that exists has a text, one whose   *)
(* transaction is still open has none.                                     *)
BatchOk ==
  /\ script.pc # "rows" => InBatch = {}
  /\ \A i \in InBatch : script.read[i] # NoCell /\ newest[i] # 0
  /\ \A i \in Ids : Present(i) => newest[i] # 0
  /\ \A i \in unborn : newest[i] = 0

(* Only a batch can bring an old text back, so a row still in the old      *)
(* version, and one a batch has yet to write, has its newest text.         *)
TextOk(i) ==
  /\ Present(i) => cell[i].text = newest[i] \/ i \in overtaken
  /\ Present(i) /\ (AtSource(i) \/ i \in InBatch) => cell[i].text = newest[i]
  /\ i \in InBatch => script.read[i].text = newest[i] \/ i \in overtaken

(* What a run has passed is in the new version, in the batch under way, or *)
(* was written in the old version since the run began.                     *)
CoverOk(i) ==
  script.hasKey /\ script.pc # "idle" /\ AtSource(i) /\ (script.pc = "done" \/ i <= script.lastId)
    => i \in late \/ i \in InBatch

RotationInv ==
  /\ RotationTypeOK
  /\ BatchOk
  /\ \A i \in Ids : TextOk(i)
  /\ \A i \in Ids : CoverOk(i)

---------------------------------------------------------------------------
(* A non-empty set of row ids has a greatest element.                      *)
LEMMA GreatestId ==
  ASSUME NEW S \in SUBSET Ids, S # {}
  PROVE  Max(S) \in S /\ \A j \in S : j <= Max(S)
<1> DEFINE R == StrictSubsetOrdering(S)
           above(x) == {y \in S : y > x}
           T == {above(x) : x \in S}
<1>1. S \subseteq Nat /\ IsFiniteSet(S)
  <2>1. IsFiniteSet(Ids)
    BY RotationAssumption, FS_Interval DEF Ids
  <2>2. Ids \subseteq Nat
    BY RotationAssumption DEF Ids
  <2> QED BY <2>1, <2>2, FS_Subset
<1>2. IsWellFoundedOn(R, SUBSET S)
  BY <1>1, FS_StrictSubsetOrderingWellFounded, FS_FiniteSubsetsOfFinite
<1>3. T \subseteq SUBSET S /\ T # {}
  OBVIOUS
<1>4. PICK A \in T : \A B \in T : <<B, A>> \notin R
  <2> HIDE DEF R, T
  <2> QED BY <1>2, <1>3, WFMin
<1>5. PICK x \in S : A = above(x)
  OBVIOUS
<1>6. ASSUME NEW y \in S, y > x PROVE FALSE
  <2>1. (\A z \in S : z > y => z > x) /\ ~(y > y)
    BY <1>1, <1>6
  <2>2. above(y) \subseteq above(x) /\ y \in above(x) /\ y \notin above(y)
    BY <1>6, <2>1
  <2>3. <<above(y), above(x)>> \in R
    BY <2>2 DEF StrictSubsetOrdering
  <2> QED BY <1>4, <1>5, <2>3
<1>7. \E z \in S : \A y \in S : z >= y
  BY <1>1, <1>6
<1>8. Max(S) \in S /\ \A y \in S : Max(S) >= y
  BY <1>7 DEF Max
<1> QED BY <1>1, <1>8

(* ORDER BY id LIMIT n: the rows after the last batch, in the old version, *)
(* up to the last id of the new one, and none only if there are none.      *)
LEMMA BatchRead ==
  ASSUME RotationTypeOK, SelectBatch
  PROVE  /\ script' \in Script
         /\ script.pc = "select" /\ script'.hasKey = script.hasKey
         /\ script'.pc = IF script'.todo = {} THEN "done" ELSE "rows"
         /\ script'.written = {}
         /\ \A i \in script'.todo : AtSource(i) /\ script'.read[i] = cell[i]
         /\ \A i \in Ids : AtSource(i) => \/ i <= script.lastId
                                          \/ i \in script'.todo
                                          \/ script'.todo # {} /\ i > script'.lastId
<1> DEFINE candidates == {i \in Ids : i > script.lastId /\ AtSource(i)}
<1>1. PICK b \in Batches(candidates) :
        script' = [script EXCEPT !.pc = IF b = {} THEN "done" ELSE "rows",
                                 !.lastId = IF b = {} THEN @ ELSE Max(b),
                                 !.todo = b,
                                 !.read = [i \in Ids |-> IF i \in b THEN cell[i] ELSE NoCell],
                                 !.written = {}]
  BY DEF SelectBatch
<1>2. /\ b \in SUBSET candidates /\ b \in SUBSET Ids /\ (b = {} => candidates = {})
      /\ \A i \in b, j \in candidates \ b : i < j
  BY DEF Batches, AnyBatch
<1>3. b # {} => Max(b) \in b /\ Max(b) \in Ids
  BY <1>2, GreatestId
<1>4. script \in Script /\ script.lastId \in 0..LastId /\ cell \in [Ids -> Cell] /\ NoCell \in Cell
      /\ script.pc = "select"
  BY DEF RotationTypeOK, Script, SelectBatch, Cell
<1> DEFINE new == script'
           asRead == [i \in Ids |-> IF i \in b THEN cell[i] ELSE NoCell]
<1>5. asRead \in [Ids -> Cell]
  BY <1>4
<1>6. /\ new.pc = IF b = {} THEN "done" ELSE "rows"
      /\ new.lastId = IF b = {} THEN script.lastId ELSE Max(b)
      /\ new.todo = b /\ new.read = asRead /\ new.written = {} /\ new.hasKey = script.hasKey
  BY <1>1, <1>4 DEF Script
<1>7. (IF b = {} THEN script.lastId ELSE Max(b)) \in 0..LastId
  <2>1. \A i \in Ids : i \in 0..LastId
    BY RotationAssumption DEF Ids
  <2> QED BY <1>3, <1>4, <2>1
<1>8. new \in Script
  <2> HIDE DEF asRead, candidates
  <2> QED BY <1>1, <1>2, <1>4, <1>5, <1>7 DEF Script
<1>9. \A i \in Ids : AtSource(i) => \/ i <= script.lastId
                                    \/ i \in b
                                    \/ b # {} /\ i > Max(b)
  <2> SUFFICES ASSUME NEW i \in Ids, AtSource(i), ~(i <= script.lastId), i \notin b
               PROVE  b # {} /\ i > Max(b)
    OBVIOUS
  <2>1. i > script.lastId
    BY <1>4, RotationAssumption DEF Ids
  <2>2. i \in candidates \ b
    BY <2>1
  <2>3. b # {} /\ Max(b) < i
    BY <1>2, <1>3, <2>2
  <2> QED BY <1>3, <2>3, RotationAssumption DEF Ids
<1> HIDE DEF new, asRead
<1>10. \A i \in b : AtSource(i) /\ asRead[i] = cell[i]
  BY <1>2 DEF asRead
<1> QED BY <1>4, <1>6, <1>8, <1>9, <1>10 DEF new

LEMMA RotationInitInv == RotationInit => RotationInv
<1> SUFFICES ASSUME RotationInit PROVE RotationInv
  OBVIOUS
<1> DEFINE Stored == [version : Versions, text : {1}, sound : BOOLEAN]
<1>1. cell \in [Ids -> Stored \cup {NoCell}] /\ NoCell \in Cell /\ NoCell.text = 0
  BY DEF RotationInit, Cell, NoCell
<1>2. Stored \subseteq [version : Versions, text : Texts, sound : BOOLEAN] /\ 1 \in Texts
  BY RotationAssumption DEF Texts
<1>3. cell \in [Ids -> Cell] /\ \A i \in Ids : cell[i].text \in Texts \cup {0}
  BY <1>1, <1>2 DEF Cell
<1>4. newest \in [Ids -> Texts \cup {0}] /\ \A i \in Ids : newest[i] = cell[i].text
  BY <1>3 DEF RotationInit
<1>5. script \in Script /\ script.pc = "idle" /\ InBatch = {}
  BY <1>1, RotationAssumption DEF RotationInit, noScript, Script, InBatch
<1>6. RotationTypeOK
  BY <1>3, <1>4, <1>5 DEF RotationInit, RotationTypeOK
<1>7. \A i \in Ids : Present(i) => cell[i].text = 1
  BY <1>1 DEF Present
<1>8. BatchOk
  BY <1>4, <1>5, <1>7 DEF RotationInit, BatchOk
<1> QED BY <1>4, <1>5, <1>6, <1>8 DEF RotationInv, TextOk, CoverOk

(* What a server writes into a row, and only into it.                      *)
LEMMA EncryptedEffect ==
  ASSUME RotationTypeOK, NEW i \in Ids, NEW v \in ServerVersions, NEW x \in Texts,
         Encrypted(i, v, x)
  PROVE  /\ cell' \in [Ids -> Cell] /\ newest' \in [Ids -> Texts \cup {0}] /\ late' \in SUBSET Ids
         /\ cell'[i] # NoCell /\ cell'[i].version = v /\ cell'[i].text = x /\ newest'[i] = x
         /\ \A j \in Ids : j # i => cell'[j] = cell[j] /\ newest'[j] = newest[j]
         /\ late \subseteq late' /\ (v = From => i \in late')
<1> DEFINE new == [version |-> v, text |-> x, sound |-> TRUE]
<1>1. new \in Cell /\ new.version = v /\ new.text = x
  BY DEF Cell, Versions
<1>2. new # NoCell
  <2>1. x # 0 /\ NoCell.text = 0
    BY DEF Texts, NoCell
  <2> QED BY <1>1, <2>1
<1> HIDE DEF new
<1>3. cell' = [cell EXCEPT ![i] = new] /\ newest' = [newest EXCEPT ![i] = x]
      /\ late' = Lateness(i, v)
  BY DEF Encrypted, new
<1> QED BY <1>1, <1>2, <1>3 DEF RotationTypeOK, Lateness

LEMMA TakeIdKeeps ==
  ASSUME RotationInv, NEW i \in Ids, TakeId(i)
  PROVE  RotationInv'
BY DEF RotationInv, TakeId, auditVars, RotationTypeOK, BatchOk, TextOk, CoverOk, InBatch, Present,
       AtSource

LEMMA CommitInsertKeeps ==
  ASSUME RotationInv, NEW i \in Ids, NEW v \in ServerVersions, CommitInsert(i, v)
  PROVE  RotationInv'
<1>1. RotationTypeOK /\ BatchOk /\ 1 \in Texts /\ 1 # 0
  BY RotationAssumption DEF RotationInv, Texts
<1>2. /\ cell' \in [Ids -> Cell] /\ newest' \in [Ids -> Texts \cup {0}] /\ late' \in SUBSET Ids
      /\ cell'[i] # NoCell /\ cell'[i].version = v /\ cell'[i].text = 1 /\ newest'[i] = 1
      /\ \A j \in Ids : j # i => cell'[j] = cell[j] /\ newest'[j] = newest[j]
      /\ late \subseteq late' /\ (v = From => i \in late')
  BY <1>1, EncryptedEffect DEF CommitInsert
<1>3. /\ i \in unborn /\ unborn' = unborn \ {i} /\ script' = script /\ overtaken' = overtaken
      /\ rewritten' = rewritten /\ vanished' = vanished /\ audited' = audited
  BY DEF CommitInsert, auditVars
<1>4. i \notin InBatch /\ InBatch' = InBatch /\ InBatch \subseteq Ids
  BY <1>1, <1>3 DEF BatchOk, InBatch, RotationTypeOK, Script
<1>5. RotationTypeOK' /\ BatchOk'
  BY <1>1, <1>2, <1>3, <1>4 DEF RotationTypeOK, BatchOk, Present
<1>6. ASSUME NEW j \in Ids PROVE TextOk(j)' /\ CoverOk(j)'
  <2>1. TextOk(j) /\ CoverOk(j)
    BY DEF RotationInv
  <2>2. CASE j = i
    BY <1>2, <1>3, <1>4, <2>2 DEF TextOk, CoverOk, AtSource
  <2>3. CASE j # i
    BY <1>2, <1>3, <1>4, <2>1, <2>3 DEF TextOk, CoverOk, AtSource, Present
  <2> QED BY <2>2, <2>3
<1> QED BY <1>5, <1>6 DEF RotationInv

LEMMA EditKeeps ==
  ASSUME RotationInv, NEW i \in Ids, NEW v \in ServerVersions, Edit(i, v)
  PROVE  RotationInv'
<1>1. RotationTypeOK /\ BatchOk /\ newest[i] + 1 \in Texts /\ newest[i] + 1 # 0 /\ newest[i] # 0
  <2>1. RotationTypeOK /\ BatchOk /\ Present(i) /\ newest[i] < LastText
    BY DEF RotationInv, Edit
  <2>2. newest[i] \in 1..LastText
    BY <2>1 DEF RotationTypeOK, BatchOk, Texts
  <2> QED BY <2>1, <2>2, RotationAssumption DEF Texts
<1>2. /\ cell' \in [Ids -> Cell] /\ newest' \in [Ids -> Texts \cup {0}] /\ late' \in SUBSET Ids
      /\ cell'[i] # NoCell /\ cell'[i].version = v
      /\ cell'[i].text = newest[i] + 1 /\ newest'[i] = newest[i] + 1
      /\ \A j \in Ids : j # i => cell'[j] = cell[j] /\ newest'[j] = newest[j]
      /\ late \subseteq late' /\ (v = From => i \in late')
  BY <1>1, EncryptedEffect DEF Edit
<1>3. /\ i \notin script.written /\ Present(i)
      /\ unborn' = unborn /\ script' = script /\ overtaken' = Overtake(i)
      /\ rewritten' = rewritten /\ vanished' = vanished /\ audited' = audited
  BY DEF Edit, auditVars, RowUnlocked
<1>4. InBatch' = InBatch /\ InBatch \subseteq Ids /\ (i \in InBatch => i \in overtaken')
      /\ overtaken' \in SUBSET Ids
      /\ \A j \in Ids : j # i => (j \in overtaken' <=> j \in overtaken)
  BY <1>1, <1>3 DEF InBatch, RotationTypeOK, Script, Overtake
<1>5. RotationTypeOK' /\ BatchOk'
  BY <1>1, <1>2, <1>3, <1>4 DEF RotationTypeOK, BatchOk, Present
<1>6. ASSUME NEW j \in Ids PROVE TextOk(j)' /\ CoverOk(j)'
  <2>1. TextOk(j) /\ CoverOk(j)
    BY DEF RotationInv
  <2>2. CASE j = i
    BY <1>2, <1>3, <1>4, <2>2 DEF TextOk, CoverOk, AtSource
  <2>3. CASE j # i
    BY <1>2, <1>3, <1>4, <2>1, <2>3 DEF TextOk, CoverOk, AtSource, Present
  <2> QED BY <2>2, <2>3
<1> QED BY <1>5, <1>6 DEF RotationInv

LEMMA DeleteRowKeeps ==
  ASSUME RotationInv, NEW i \in Ids, DeleteRow(i)
  PROVE  RotationInv'
<1>1. /\ cell' \in [Ids -> Cell] /\ cell'[i] = NoCell /\ \A j \in Ids : j # i => cell'[j] = cell[j]
  BY DEF RotationInv, RotationTypeOK, DeleteRow, Cell
<1>2. /\ script' = script /\ unborn' = unborn /\ newest' = newest /\ overtaken' = overtaken
      /\ late' = late /\ rewritten' = rewritten /\ vanished' = vanished /\ audited' = audited
      /\ InBatch' = InBatch
  BY DEF DeleteRow, auditVars, serverVars, InBatch
<1>3. RotationTypeOK' /\ BatchOk'
  BY <1>1, <1>2 DEF RotationInv, RotationTypeOK, BatchOk, Present
<1>4. ASSUME NEW j \in Ids PROVE TextOk(j)' /\ CoverOk(j)'
  BY <1>1, <1>2 DEF RotationInv, TextOk, CoverOk, AtSource, Present
<1> QED BY <1>3, <1>4 DEF RotationInv

---------------------------------------------------------------------------
(* The script's steps.                                                     *)
LEMMA StartRunKeeps ==
  ASSUME RotationInv, NEW hasKey \in BOOLEAN, StartRun(hasKey)
  PROVE  RotationInv'
<1> DEFINE pc == IF \E i \in Ids : AtSource(i) THEN "select" ELSE "done"
<1>1. noScript \in Script /\ noScript.todo = {} /\ noScript.written = {} /\ noScript.lastId = 0
  BY RotationAssumption DEF noScript, Script, Cell
<1>2. /\ script' \in Script /\ script'.pc = pc /\ script'.lastId = 0
      /\ script'.todo = {} /\ script'.written = {}
  <2>1. script' = [noScript EXCEPT !.hasKey = hasKey, !.pc = pc]
    BY DEF StartRun
  <2>2. pc \in {"select", "done"}
    OBVIOUS
  <2> HIDE DEF pc, noScript
  <2> QED BY <1>1, <2>1, <2>2 DEF Script
<1>3. /\ cell' = cell /\ unborn' = unborn /\ newest' = newest /\ overtaken' = overtaken
      /\ late' = {} /\ rewritten' = rewritten /\ vanished' = vanished /\ audited' = audited
      /\ InBatch' = {} /\ script.pc # "rows"
  BY <1>2 DEF StartRun, auditVars, InBatch
<1>4. RotationTypeOK' /\ BatchOk'
  BY <1>2, <1>3 DEF RotationInv, RotationTypeOK, BatchOk, Present
<1>5. ASSUME NEW j \in Ids PROVE TextOk(j)' /\ CoverOk(j)'
  <2>1. ~(j <= 0)
    BY RotationAssumption DEF Ids
  <2> QED BY <1>2, <1>3, <2>1 DEF RotationInv, TextOk, CoverOk, AtSource, Present
<1> QED BY <1>4, <1>5 DEF RotationInv

LEMMA SelectBatchKeeps ==
  ASSUME RotationInv, SelectBatch
  PROVE  RotationInv'
<1>1. /\ script' \in Script
      /\ script.pc = "select" /\ script'.hasKey = script.hasKey
      /\ script'.pc = IF script'.todo = {} THEN "done" ELSE "rows"
      /\ script'.written = {}
      /\ \A i \in script'.todo : AtSource(i) /\ script'.read[i] = cell[i]
      /\ \A i \in Ids : AtSource(i) => \/ i <= script.lastId
                                       \/ i \in script'.todo
                                       \/ script'.todo # {} /\ i > script'.lastId
  BY BatchRead DEF RotationInv
<1>2. /\ cell' = cell /\ unborn' = unborn /\ newest' = newest /\ overtaken' = overtaken
      /\ late' = late /\ rewritten' = rewritten /\ vanished' = vanished /\ audited' = audited
      /\ InBatch = {} /\ InBatch' = script'.todo /\ InBatch' \subseteq Ids
  BY <1>1 DEF SelectBatch, auditVars, serverVars, InBatch, RotationInv, BatchOk, Script
<1>3. RotationTypeOK' /\ BatchOk'
  BY <1>1, <1>2 DEF RotationInv, RotationTypeOK, BatchOk, Present, AtSource
<1>4. ASSUME NEW j \in Ids PROVE TextOk(j)'
  BY <1>1, <1>2 DEF RotationInv, TextOk, AtSource, Present
<1>5. ASSUME NEW j \in Ids PROVE CoverOk(j)'
  <2> SUFFICES ASSUME script.hasKey, AtSource(j), script'.pc = "done" \/ j <= script'.lastId,
                      j \notin script'.todo
               PROVE  j \in late
    BY <1>1, <1>2 DEF CoverOk, AtSource, Present
  <2>1. script'.pc = "done" <=> script'.todo = {}
    BY <1>1
  <2>2. j \in Nat /\ script'.lastId \in Nat
    BY <1>1, RotationAssumption DEF Script, Ids
  <2>3. j <= script.lastId
    BY <1>1, <2>1, <2>2
  <2> QED BY <1>1, <1>2, <2>3 DEF RotationInv, CoverOk
<1> QED BY <1>3, <1>4, <1>5 DEF RotationInv

LEMMA SkipRowKeeps ==
  ASSUME RotationInv, NEW i \in Ids, SkipRow(i)
  PROVE  RotationInv'
<1>1. /\ script' \in Script /\ script'.pc = script.pc /\ ~script'.hasKey
      /\ script'.read = script.read /\ InBatch' \subseteq InBatch /\ script.pc = "rows"
  BY DEF RotationInv, RotationTypeOK, SkipRow, NextRow, Script, InBatch
<1>2. /\ cell' = cell /\ unborn' = unborn /\ newest' = newest /\ overtaken' = overtaken
      /\ late' = late /\ rewritten' = rewritten /\ vanished' = vanished /\ audited' = audited
  BY DEF SkipRow, auditVars, serverVars
<1> QED BY <1>1, <1>2 DEF RotationInv, RotationTypeOK, BatchOk, TextOk, CoverOk, Present, AtSource

LEMMA UpdateRowKeeps ==
  ASSUME RotationInv, NEW i \in Ids, UpdateRow(i)
  PROVE  RotationInv'
<1>1. /\ script' \in Script /\ script'.pc = script.pc /\ script'.hasKey = script.hasKey
      /\ script'.read = script.read /\ script'.lastId = script.lastId /\ InBatch' = InBatch
  BY DEF RotationInv, RotationTypeOK, UpdateRow, NextRow, Script, InBatch
<1>2. /\ cell' = cell /\ unborn' = unborn /\ newest' = newest /\ overtaken' = overtaken
      /\ late' = late /\ rewritten' = rewritten /\ vanished' = vanished /\ audited' = audited
  BY DEF UpdateRow, auditVars, serverVars
<1> QED BY <1>1, <1>2 DEF RotationInv, RotationTypeOK, BatchOk, TextOk, CoverOk, Present, AtSource

LEMMA AbortRunKeeps ==
  ASSUME RotationInv, AbortRun
  PROVE  RotationInv'
<1>1. noScript \in Script /\ noScript.todo = {} /\ noScript.written = {} /\ noScript.pc = "idle"
  BY RotationAssumption DEF noScript, Script, Cell
<1>2. /\ script' = noScript /\ InBatch' = {} /\ overtaken' = overtaken \ InBatch
      /\ cell' = cell /\ unborn' = unborn /\ newest' = newest
      /\ late' = late /\ rewritten' = rewritten /\ vanished' = vanished /\ audited' = audited
  BY <1>1 DEF AbortRun, InBatch, auditVars
<1>3. RotationTypeOK' /\ BatchOk'
  BY <1>1, <1>2 DEF RotationInv, RotationTypeOK, BatchOk, Present
<1>4. ASSUME NEW j \in Ids PROVE TextOk(j)' /\ CoverOk(j)'
  BY <1>1, <1>2 DEF RotationInv, TextOk, CoverOk, AtSource, Present
<1> QED BY <1>3, <1>4 DEF RotationInv

LEMMA CommitBatchKeeps ==
  ASSUME RotationInv, CommitBatch
  PROVE  RotationInv'
<1>1. RotationTypeOK /\ BatchOk /\ script \in Script /\ cell \in [Ids -> Cell]
      /\ script.read \in [Ids -> Cell] /\ InBatch = script.written /\ InBatch \subseteq Ids
  BY DEF RotationInv, RotationTypeOK, CommitBatch, Script, InBatch
<1>2. /\ script' \in Script /\ script'.pc = "select" /\ InBatch' = {} /\ script'.lastId = script.lastId
      /\ script'.hasKey = script.hasKey /\ script.pc = "rows"
  BY <1>1 DEF CommitBatch, Script, InBatch
<1>3. /\ unborn' = unborn /\ newest' = newest /\ overtaken' = overtaken /\ late' = late
      /\ cell' = [i \in Ids |-> IF Rewrites(i) THEN [script.read[i] EXCEPT !.version = To] ELSE cell[i]]
  BY DEF CommitBatch, serverVars
<1>4. ASSUME NEW i \in Ids, i \in InBatch
      PROVE  LET new == [script.read[i] EXCEPT !.version = To] IN
             /\ new \in Cell /\ new.version = To /\ new # NoCell /\ new.text = script.read[i].text
  <2>1. script.read[i] \in [version : Versions, text : Texts, sound : BOOLEAN]
    BY <1>1, <1>4 DEF BatchOk, Cell
  <2>2. To \in Versions /\ NoCell.text = 0 /\ 0 \notin Texts
    BY DEF Versions, NoCell, Texts
  <2> DEFINE new == [script.read[i] EXCEPT !.version = To]
  <2>3. /\ new \in [version : Versions, text : Texts, sound : BOOLEAN]
        /\ new.version = To /\ new.text = script.read[i].text
    BY <2>1, <2>2
  <2> HIDE DEF new
  <2>4. new.text # 0
    BY <2>2, <2>3
  <2> QED BY <2>2, <2>3, <2>4 DEF new, Cell
<1>5. ASSUME NEW i \in Ids
      PROVE  /\ cell'[i] \in Cell /\ (Present(i)' <=> Present(i))
             /\ ~Rewrites(i) => cell'[i] = cell[i]
             /\ Rewrites(i) => cell'[i].version = To /\ cell'[i].text = script.read[i].text
  <2>1. CASE Rewrites(i)
    <3>1. i \in InBatch /\ cell'[i] = [script.read[i] EXCEPT !.version = To] /\ Present(i)
      BY <1>1, <1>3, <2>1 DEF Rewrites
    <3> QED BY <1>4, <2>1, <3>1 DEF Present
  <2>2. CASE ~Rewrites(i)
    BY <1>1, <1>3, <2>2 DEF Present
  <2> QED BY <2>1, <2>2
<1>6. rewritten' \in Nat /\ vanished' \in Nat /\ audited' \in Nat
  <2>1. IsFiniteSet(Ids)
    BY RotationAssumption, FS_Interval DEF Ids
  <2>2. \A S \in SUBSET Ids : Cardinality(S) \in Nat
    BY <2>1, FS_Subset, FS_CardinalityType
  <2>3. /\ Cardinality({i \in Ids : Rewrites(i)}) \in Nat
        /\ Cardinality({i \in script.written : ~Present(i)}) \in Nat
        /\ Cardinality(script.written) \in Nat
    BY <1>1, <2>2
  <2> QED BY <1>1, <2>3 DEF CommitBatch, BatchUpdated, RotationTypeOK
<1>7. cell' \in [Ids -> Cell]
  BY <1>3, <1>5
<1>8. RotationTypeOK'
  BY <1>1, <1>2, <1>3, <1>6, <1>7 DEF RotationTypeOK
<1>9. BatchOk'
  BY <1>1, <1>2, <1>3, <1>5 DEF BatchOk
<1>10. ASSUME NEW i \in Ids PROVE TextOk(i)' /\ CoverOk(i)'
  <2>1. TextOk(i) /\ CoverOk(i) /\ (AtSource(i)' <=> Present(i)' /\ cell'[i].version = From)
    BY DEF RotationInv, AtSource
  <2>2. CASE Rewrites(i)
    <3>1. i \in InBatch /\ ~AtSource(i)'
      BY <1>1, <1>5, <2>1, <2>2, RotationAssumption DEF Rewrites
    <3> QED BY <1>2, <1>3, <1>5, <2>1, <2>2, <3>1 DEF TextOk, CoverOk
  <2>3. CASE ~Rewrites(i)
    <3>1. AtSource(i) <=> AtSource(i)'
      BY <1>5, <2>1, <2>3 DEF AtSource
    <3>2. Present(i) => i \notin InBatch
      BY <1>1, <2>3 DEF Rewrites
    <3> QED BY <1>2, <1>3, <1>5, <2>1, <2>3, <3>1, <3>2 DEF TextOk, CoverOk, AtSource
  <2> QED BY <2>2, <2>3
<1> QED BY <1>8, <1>9, <1>10 DEF RotationInv

LEMMA RotationStep == RotationInv /\ [RotationNext]_rotationVars => RotationInv'
<1> SUFFICES ASSUME RotationInv, [RotationNext]_rotationVars PROVE RotationInv'
  OBVIOUS
<1>1. CASE UNCHANGED rotationVars
  BY <1>1 DEF rotationVars, RotationInv, RotationTypeOK, BatchOk, TextOk, CoverOk, InBatch, Present,
              AtSource
<1>2. ASSUME NEW i \in Ids, ServerStep(i) PROVE RotationInv'
  BY <1>2, TakeIdKeeps, CommitInsertKeeps, EditKeeps, DeleteRowKeeps DEF ServerStep
<1>3. CASE ScriptStep
  BY <1>3, StartRunKeeps, SelectBatchKeeps, SkipRowKeeps, UpdateRowKeeps, CommitBatchKeeps,
     AbortRunKeeps DEF ScriptStep
<1> QED BY <1>1, <1>2, <1>3 DEF RotationNext

(* RotationInv holds in every reachable state.                             *)
THEOREM RotationInvariant == RotationSpec => []RotationInv
BY RotationInitInv, RotationStep, PTL DEF RotationSpec

(* A rotation (rotate_encryption_key.py, _rotate_table) that runs beside   *)
(* servers, in any number of runs and however each of them ends, loses a   *)
(* text only by writing back a row edited after its batch was read.        *)
THEOREM TextsKept == RotationSpec => []TextsKeptUnlessOvertaken
<1>1. RotationInv => TextsKeptUnlessOvertaken
  BY DEF RotationInv, TextOk, TextsKeptUnlessOvertaken
<1> QED BY <1>1, RotationInvariant, PTL

---------------------------------------------------------------------------
(* The audit rows of the script: a batch's rows are those it re-encrypted  *)
(* and those that were gone.                                               *)
LEMMA AuditAdds ==
  ASSUME RotationInv, AuditAccounts, [RotationNext]_rotationVars
  PROVE  AuditAccounts'
<1>1. CASE CommitBatch
  <2> DEFINE found == {i \in Ids : Rewrites(i)}
             gone == {i \in script.written : ~Present(i)}
  <2>1. IsFiniteSet(Ids) /\ script.written \subseteq Ids
    BY RotationAssumption, FS_Interval DEF Ids, RotationInv, RotationTypeOK, Script
  <2>2. found \cup gone = script.written /\ found \cap gone = {}
        /\ found \subseteq Ids /\ gone \subseteq Ids
    BY <2>1 DEF Rewrites
  <2> HIDE DEF found, gone
  <2>3. IsFiniteSet(found) /\ IsFiniteSet(gone)
    BY <2>1, <2>2, FS_Subset
  <2>4. Cardinality(found) \in Nat /\ Cardinality(gone) \in Nat
    BY <2>3, FS_CardinalityType
  <2>5. Cardinality(script.written) = Cardinality(found) + Cardinality(gone)
    <3>1. Cardinality(found \cup gone)
            = Cardinality(found) + Cardinality(gone) - Cardinality(found \cap gone)
      BY <2>3, FS_Union
    <3>2. Cardinality({}) = 0
      BY FS_EmptySet
    <3>3. /\ Cardinality(found \cup gone) = Cardinality(script.written)
          /\ Cardinality(found \cap gone) = 0
      BY <2>2, <3>2
    <3> QED BY <2>4, <3>1, <3>3
  <2>6. /\ rewritten' = rewritten + Cardinality(found) /\ vanished' = vanished + Cardinality(gone)
        /\ audited' = audited + Cardinality(script.written)
    BY <1>1 DEF CommitBatch, BatchUpdated, found, gone
  <2>7. rewritten \in Nat /\ vanished \in Nat
    BY DEF RotationInv, RotationTypeOK
  <2> QED BY <2>4, <2>5, <2>6, <2>7 DEF AuditAccounts
<1>2. CASE ~CommitBatch
  BY <1>2 DEF RotationNext, ServerStep, ScriptStep, TakeId, CommitInsert, Edit, DeleteRow, StartRun,
              SelectBatch, SkipRow, UpdateRow, AbortRun, auditVars, rotationVars, AuditAccounts
<1> QED BY <1>1, <1>2

(* A run that ends normally (_rotate_table) has left behind only what      *)
(* servers wrote in the old version during it, and the audit rows add up   *)
(* to the rows re-encrypted and those gone, over runs, crashes and aborts. *)
THEOREM RotationCovers == RotationSpec => []FinishedRunCovers
<1>1. RotationInv => SourceRotated
  BY DEF RotationInv, CoverOk, BatchOk, SourceRotated
<1>2. RotationInit => AuditAccounts
  BY DEF RotationInit, AuditAccounts
<1>3. RotationSpec => []AuditAccounts
  BY <1>2, AuditAdds, RotationInvariant, PTL DEF RotationSpec
<1>4. SourceRotated /\ AuditAccounts => FinishedRunCovers
  BY DEF FinishedRunCovers
<1> QED BY <1>1, <1>3, <1>4, RotationInvariant, PTL

---------------------------------------------------------------------------
(* The cap on event streams, for any number of requests, any cap, any time *)
(* to live and any number of decrements missed.                            *)

(* The requests that found the counter within the cap.                     *)
Within == {s \in Counted : ~stream[s].over}

StreamsInv ==
  /\ StreamsTypeOK
  /\ CounterAccounts
  /\ \A s \in Admitted : ~stream[s].over
  /\ forgotten = 0 => Cardinality(Within) <= Cap

---------------------------------------------------------------------------
LEMMA StreamSets ==
  ASSUME NEW S \in SUBSET Streams
  PROVE  IsFiniteSet(S) /\ Cardinality(S) \in Nat
BY StreamsAssumption, FS_Subset, FS_CardinalityType

LEMMA StreamsInitInv == StreamsInit => StreamsInv
<1> SUFFICES ASSUME StreamsInit PROVE StreamsInv
  OBVIOUS
<1>1. StreamsTypeOK
  BY StreamsAssumption DEF StreamsInit, StreamsTypeOK, Hours, NoExpiry, NoKey, Stream, noStream
<1>2. Counted = {} /\ Within = {} /\ Admitted = {}
  BY DEF StreamsInit, Counted, Within, Admitted, noStream
<1>3. Cardinality({}) = 0
  BY FS_EmptySet
<1>4. CounterAccounts
  BY <1>2, <1>3 DEF CounterAccounts, StreamsInit
<1>5. Cardinality(Within) <= Cap
  BY <1>2, <1>3, StreamsAssumption
<1> QED BY <1>1, <1>2, <1>4, <1>5 DEF StreamsInv

(* A step of one request that stays counted, or stays out, moves no set    *)
(* but that of the admitted ones.                                          *)
LEMMA StreamMoves ==
  ASSUME StreamsInv, NEW s \in Streams, s \in Counted,
         NEW pc \in {"counted", "timed", "ready", "open"}, StreamGoto(s, pc),
         pc \in {"ready", "open"} => ~stream[s].over,
         counter' = counter, missed' = missed, forgotten' = forgotten, hour' = hour,
         expiry' \in 0..NoKey
  PROVE  StreamsInv'
<1>1. stream \in [Streams -> Stream] /\ stream' = [stream EXCEPT ![s].pc = pc]
  BY DEF StreamsInv, StreamsTypeOK, StreamGoto
<1>2. stream[s] \in Stream
  BY <1>1
<1>3. /\ stream' \in [Streams -> Stream] /\ stream'[s].pc = pc /\ stream'[s].over = stream[s].over
      /\ \A t \in Streams : t # s => stream'[t] = stream[t]
  BY <1>1, <1>2 DEF Stream
<1>4. Counted' = Counted /\ Within' = Within
  BY <1>3 DEF Counted, Within
<1>5. StreamsTypeOK'
  BY <1>3 DEF StreamsInv, StreamsTypeOK, Hours
<1>6. \A t \in Admitted' : ~stream'[t].over
  BY <1>3 DEF StreamsInv, Admitted
<1> QED BY <1>4, <1>5, <1>6 DEF StreamsInv, CounterAccounts

(* INCR and DECR leave an expiry, or make a key that has none.             *)
LEMMA CountKeeps ==
  ASSUME StreamsInv, NEW n, Count(n)
  PROVE  counter' = counter + n /\ expiry' \in 0..NoKey
<1>1. expiry \in 0..NoKey /\ NoExpiry \in 0..NoKey
  BY StreamsAssumption DEF StreamsInv, StreamsTypeOK, NoKey, NoExpiry
<1> QED BY <1>1 DEF Count

(* A request that leaves takes one from the counter or from what it is to  *)
(* be told still.                                                          *)
LEMMA StreamLeaves ==
  ASSUME StreamsInv, NEW s \in Counted, Leave(s), hour' = hour, expiry' \in 0..NoKey,
         forgotten' = forgotten,
         \/ counter' = counter - 1 /\ missed' = missed
         \/ counter' = counter /\ missed' = missed + 1
  PROVE  StreamsInv'
<1>1. stream \in [Streams -> Stream] /\ s \in Streams /\ noStream \in Stream
  BY DEF StreamsInv, StreamsTypeOK, Counted, noStream, Stream
<1>2. /\ stream' \in [Streams -> Stream] /\ stream'[s] = noStream /\ noStream.pc = "idle"
      /\ \A t \in Streams : t # s => stream'[t] = stream[t]
  BY <1>1 DEF Leave, noStream
<1>3. Counted' = Counted \ {s} /\ Within' \subseteq Within
      /\ Counted \subseteq Streams /\ Within \subseteq Streams
  BY <1>2 DEF Counted, Within
<1>4. IsFiniteSet(Counted) /\ Cardinality(Counted) \in Nat /\ IsFiniteSet(Within)
      /\ Cardinality(Within) \in Nat /\ Cardinality(Within') \in Nat
  BY <1>3, StreamSets
<1>5. Cardinality(Counted') = Cardinality(Counted) - 1
  BY <1>3, <1>4, FS_RemoveElement
<1>6. Cardinality(Within') <= Cardinality(Within)
  BY <1>3, <1>4, FS_Subset
<1>7. counter \in Int /\ missed \in Nat /\ forgotten \in Nat
  BY DEF StreamsInv, StreamsTypeOK
<1>8. StreamsTypeOK'
  BY <1>2, <1>7 DEF StreamsInv, StreamsTypeOK, Hours
<1>9. CounterAccounts'
  BY <1>4, <1>5, <1>7 DEF StreamsInv, CounterAccounts
<1>10. \A t \in Admitted' : ~stream'[t].over
  BY <1>2 DEF StreamsInv, Admitted
<1>11. forgotten' = 0 => Cardinality(Within') <= Cap
  BY <1>4, <1>6, StreamsAssumption DEF StreamsInv
<1> QED BY <1>8, <1>9, <1>10, <1>11 DEF StreamsInv

(* INCR: the request is within the cap only if the counter was below it,   *)
(* and the counter is not below the number of the others within it.        *)
LEMMA IncrKeeps ==
  ASSUME StreamsInv, NEW s \in Streams, Incr(s)
  PROVE  StreamsInv'
<1> DEFINE new == [pc |-> "counted", over |-> OverCap]
<1>1. stream \in [Streams -> Stream] /\ stream[s].pc = "idle" /\ OverCap \in BOOLEAN
  BY DEF StreamsInv, StreamsTypeOK, Incr, StreamAt, OverCap
<1>2. new \in Stream /\ new.pc = "counted" /\ (new.over <=> OverCap)
  BY <1>1 DEF Stream
<1>3. stream' = [stream EXCEPT ![s] = new]
  BY DEF Incr
<1> HIDE DEF new
<1>4. /\ stream' \in [Streams -> Stream] /\ stream'[s] = new
      /\ \A t \in Streams : t # s => stream'[t] = stream[t]
  BY <1>1, <1>2, <1>3
<1>5. /\ Counted' = Counted \cup {s} /\ s \notin Counted
      /\ Counted \subseteq Streams /\ Within \subseteq Counted /\ Within \subseteq Streams
      /\ (OverCap => Within' = Within) /\ (~OverCap => Within' \subseteq Counted')
  BY <1>1, <1>2, <1>4 DEF Counted, Within
<1>6. /\ IsFiniteSet(Counted) /\ Cardinality(Counted) \in Nat
      /\ Cardinality(Counted') = Cardinality(Counted) + 1 /\ IsFiniteSet(Counted')
  BY <1>5, StreamSets, FS_AddElement
<1>7. counter \in Int /\ missed \in Nat /\ forgotten \in Nat /\ counter' = counter + 1
      /\ hour' = hour /\ expiry' \in 0..NoKey /\ missed' = missed /\ forgotten' = forgotten
  BY CountKeeps DEF StreamsInv, StreamsTypeOK, Incr, streamHistory
<1>8. StreamsTypeOK'
  BY <1>4, <1>7 DEF StreamsInv, StreamsTypeOK, Hours
<1>9. CounterAccounts'
  BY <1>6, <1>7 DEF StreamsInv, CounterAccounts
<1>10. \A t \in Admitted' : ~stream'[t].over
  BY <1>2, <1>4 DEF StreamsInv, Admitted
<1>11. ASSUME forgotten = 0 PROVE Cardinality(Within') <= Cap
  <2>1. CASE OverCap
    BY <1>5, <1>11, <2>1 DEF StreamsInv
  <2>2. CASE ~OverCap
    <3>1. Within' \subseteq Streams
      BY <1>5
    <3>2. Cardinality(Within') <= Cardinality(Counted') /\ Cardinality(Within') \in Nat
      BY <1>5, <1>6, <2>2, <3>1, StreamSets, FS_Subset
    <3>3. counter = Cardinality(Counted) + missed /\ counter + 1 <= Cap
      BY <1>6, <1>7, <1>11, <2>2, StreamsAssumption DEF StreamsInv, CounterAccounts, OverCap
    <3> QED BY <1>6, <1>7, <3>2, <3>3, StreamsAssumption
  <2> QED BY <2>1, <2>2
<1> QED BY <1>7, <1>8, <1>9, <1>10, <1>11 DEF StreamsInv

(* The key goes: the counter forgets the streams there are, and if there   *)
(* are none it has forgotten none.                                         *)
LEMMA PassHourKeeps ==
  ASSUME StreamsInv, PassHour
  PROVE  StreamsInv'
<1>1. stream' = stream /\ hour' \in Hours
  BY StreamsAssumption DEF StreamsInv, StreamsTypeOK, PassHour, Hours
<1>2. Counted' = Counted /\ Within' = Within /\ Admitted' = Admitted
      /\ Within \subseteq Counted /\ Counted \subseteq Streams /\ Within \subseteq Streams
  BY <1>1 DEF Counted, Within, Admitted
<1>3. /\ Cardinality(Counted) \in Nat /\ IsFiniteSet(Counted)
      /\ Cardinality(Within) \in Nat /\ Cardinality(Within) <= Cardinality(Counted)
  BY <1>2, StreamSets, FS_Subset
<1>4. CASE expiry <= hour + 1
  <2>1. /\ counter' = 0 /\ expiry' = NoKey /\ missed' = 0
        /\ forgotten' = Cardinality(Counted)
    BY <1>4 DEF PassHour
  <2>2. StreamsTypeOK'
    BY <1>1, <1>3, <2>1, StreamsAssumption DEF StreamsInv, StreamsTypeOK, NoExpiry, NoKey
  <2>3. CounterAccounts'
    BY <1>2, <1>3, <2>1 DEF CounterAccounts
  <2>4. forgotten' = 0 => Cardinality(Within') <= Cap
    BY <1>2, <1>3, <2>1, StreamsAssumption
  <2> QED BY <1>1, <1>2, <2>2, <2>3, <2>4 DEF StreamsInv
<1>5. CASE ~(expiry <= hour + 1)
  BY <1>1, <1>2, <1>5 DEF PassHour, StreamsInv, StreamsTypeOK, CounterAccounts
<1> QED BY <1>4, <1>5

LEMMA CrashStreamsKeeps ==
  ASSUME StreamsInv, CrashStreams
  PROVE  StreamsInv'
<1>1. stream' = [s \in Streams |-> noStream] /\ noStream \in Stream /\ noStream.pc = "idle"
  BY DEF CrashStreams, noStream, Stream
<1>2. Counted' = {} /\ Within' = {} /\ Admitted' = {} /\ Cardinality({}) = 0
  BY <1>1, FS_EmptySet DEF Counted, Within, Admitted
<1>3. Cardinality(Counted) \in Nat
  BY StreamSets DEF Counted
<1>4. /\ hour' = hour /\ counter' = counter /\ expiry' = expiry /\ forgotten' = forgotten
      /\ missed' = missed + Cardinality(Counted)
      /\ counter \in Int /\ missed \in Nat /\ forgotten \in Nat
  BY DEF CrashStreams, StreamsInv, StreamsTypeOK
<1>5. StreamsTypeOK'
  BY <1>1, <1>3, <1>4 DEF StreamsInv, StreamsTypeOK, Hours
<1>6. CounterAccounts'
  BY <1>2, <1>3, <1>4 DEF StreamsInv, CounterAccounts
<1> QED BY <1>2, <1>5, <1>6, StreamsAssumption DEF StreamsInv

LEMMA StreamsStep == StreamsInv /\ [StreamsNext]_streamsVars => StreamsInv'
<1> SUFFICES ASSUME StreamsInv, [StreamsNext]_streamsVars PROVE StreamsInv'
  OBVIOUS
<1>1. CASE UNCHANGED streamsVars
  BY <1>1 DEF streamsVars, StreamsInv, StreamsTypeOK, CounterAccounts, Counted, Within, Admitted
<1>2. CASE PassHour \/ CrashStreams
  BY <1>2, PassHourKeeps, CrashStreamsKeeps
<1>3. ASSUME NEW s \in Streams, Incr(s) PROVE StreamsInv'
  BY <1>3, IncrKeeps
<1>4. ASSUME NEW s \in Streams, Expire(s) PROVE StreamsInv'
  <2>1. hour + KeyTtl \in 0..NoKey /\ NoKey \in 0..NoKey
    BY StreamsAssumption DEF StreamsInv, StreamsTypeOK, Hours, NoExpiry, NoKey
  <2> QED BY <1>4, <2>1, StreamMoves DEF Expire, StreamAt, Counted, streamHistory
<1>5. ASSUME NEW s \in Streams, Admit(s) \/ BeginBody(s) PROVE StreamsInv'
  <2>1. expiry \in 0..NoKey
    BY DEF StreamsInv, StreamsTypeOK
  <2>2. ~stream[s].over /\ s \in Counted
    BY <1>5 DEF StreamsInv, Admit, BeginBody, StreamAt, Admitted, Counted
  <2> QED BY <1>5, <2>1, <2>2, StreamMoves DEF Admit, BeginBody, streamHistory
<1>6. ASSUME NEW s \in Streams, Refuse429(s) \/ EndBody(s) \/ LeakStream(s) PROVE StreamsInv'
  <2>1. s \in Counted
    BY <1>6 DEF Refuse429, EndBody, LeakStream, StreamAt, Counted
  <2>2. CASE Refuse429(s) \/ EndBody(s)
    <3>1. Count(-1) /\ Leave(s) /\ hour' = hour /\ missed' = missed /\ forgotten' = forgotten
      BY <2>2 DEF Refuse429, EndBody, streamHistory
    <3>2. counter' = counter - 1 /\ expiry' \in 0..NoKey
      <4>1. counter \in Int
        BY DEF StreamsInv, StreamsTypeOK
      <4> QED BY <3>1, <4>1, CountKeeps
    <3> QED BY <2>1, <3>1, <3>2, StreamLeaves
  <2>3. CASE LeakStream(s)
    <3>1. expiry \in 0..NoKey
      BY DEF StreamsInv, StreamsTypeOK
    <3> QED BY <2>1, <2>3, <3>1, StreamLeaves DEF LeakStream
  <2> QED BY <1>6, <2>2, <2>3
<1> QED BY <1>1, <1>2, <1>3, <1>4, <1>5, <1>6 DEF StreamsNext

(* StreamsInv holds in every reachable state.                              *)
THEOREM StreamsInvariant == StreamsSpec => []StreamsInv
BY StreamsInitInv, StreamsStep, PTL DEF StreamsSpec

(* No interleaving of increments, refusals, disconnects and crashes lets   *)
(* more streams in than the cap (extraction_progress, _capped_stream), so  *)
(* long as the counter's key has not expired under an open one.            *)
THEOREM CapHolds == StreamsSpec => []CapUnlessForgotten
<1>1. ASSUME StreamsInv PROVE CapUnlessForgotten
  <2>1. Admitted \subseteq Within /\ Within \subseteq Streams /\ Admitted \subseteq Streams
    BY <1>1 DEF StreamsInv, Admitted, Within, Counted
  <2>2. IsFiniteSet(Within) /\ Cardinality(Within) \in Nat /\ Cardinality(Admitted) \in Nat
        /\ Cardinality(Admitted) <= Cardinality(Within)
    BY <2>1, StreamSets, FS_Subset
  <2> QED BY <1>1, <2>2, StreamsAssumption DEF StreamsInv, CapUnlessForgotten
<1> QED BY <1>1, StreamsInvariant, PTL

---------------------------------------------------------------------------
(* What processes open and close, for every mode, configuration and way of *)
(* ending: the steps of startup and teardown as they are written.          *)

OpenedBefore(n) == UNION {Startup[mode][k].open : k \in 1 .. n - 1}
KeptBefore(n) == UNION {Startup[mode][k].keep : k \in 1 .. n - 1}
ClosedFrom(n) == {Teardown[mode][k] : k \in n .. Len(Teardown[mode])}

(* While it boots, a process has what the steps so far have opened.        *)
BootOk ==
  phase = "boot" =>
    /\ ~served /\ step <= Len(Startup[mode]) + 1
    /\ opened = {r \in OpenedBefore(step) : Wanted(r)}
    /\ known = {r \in KeptBefore(step) : Wanted(r)}

(* Nothing is open without a handle once it serves; what it has a handle   *)
(* of is on the list of what it will close, still to come or stuck.        *)
CloseOk ==
  /\ served \/ phase = "serve" => opened \subseteq known
  /\ known \subseteq ClosedFrom(1)
  /\ phase \in {"unwind", "finally"} =>
       step <= Len(Teardown[mode]) + 1 /\ opened \cap known \subseteq stuck \cup ClosedFrom(step)
  /\ phase = "down" /\ (stuck = {} \/ mode = "server") => opened \cap known \subseteq stuck
  /\ phase = "finally" => mode # "server"

(* The sweeper is started last and closed first, so it never sees the rest *)
(* of startup or teardown.                                                 *)
CronOk ==
  "cron" \in opened =>
    /\ mode = "server" /\ "cron" \in known
    /\ {"admin_pool", "redis", "redis_pool"} \subseteq opened
    /\ phase \in {"boot", "serve"} \/ (phase = "unwind" /\ step = 1)

LifeInv == LifeTypeOK /\ BootOk /\ CloseOk /\ CronOk

---------------------------------------------------------------------------
(* The steps of the lifespan in order.                                     *)
LEMMA LifespanSteps ==
  /\ Len(Lifespan) = 15
  /\ Lifespan[1] = Check /\ Lifespan[2] = Opens("admin_pool") /\ Lifespan[3] = Opens("pool")
  /\ Lifespan[4] = Check /\ Lifespan[5] = Handed({"admin_pool", "pool"})
  /\ Lifespan[6] = Opens("oauth") /\ Lifespan[7] = Check /\ Lifespan[8] = Handed({"oauth"})
  /\ Lifespan[9] = Takes("hydra") /\ Lifespan[10] = Takes("redis_pool")
  /\ Lifespan[11] = Takes("redis") /\ Lifespan[12] = Check /\ Lifespan[13] = Takes("arq_pool")
  /\ Lifespan[14] = Takes("cron") /\ Lifespan[15] = Check
BY DEF Lifespan, BuildAppCtx, SetupOAuth

(* The three sequences of startup, step by step.                           *)
LEMMA StartupSteps ==
  ASSUME NEW m \in DOMAIN Startup
  PROVE  /\ m \in {"server", "stdio", "worker"} /\ Len(Startup[m]) \in 1 .. 15
         /\ m = "server" => Startup[m] = Lifespan
         /\ m = "stdio" => /\ Len(Startup[m]) = 4
                           /\ Startup[m][1] = Opens("admin_pool") /\ Startup[m][2] = Opens("pool")
                           /\ Startup[m][3] = Check /\ Startup[m][4] = Handed({"admin_pool", "pool"})
         /\ m = "worker" => /\ Len(Startup[m]) = 4
                            /\ Startup[m][1] = Takes("pool") /\ Startup[m][2] = Takes("redis_pool")
                            /\ Startup[m][3] = Takes("redis") /\ Startup[m][4] = Check
<1>1. m \in {"server", "stdio", "worker"}
  BY DEF Startup
<1>2. CASE m = "server"
  BY <1>2, LifespanSteps DEF Startup
<1>3. CASE m = "stdio"
  BY <1>3 DEF Startup, BuildAppCtx
<1>4. CASE m = "worker"
  BY <1>4 DEF Startup
<1> QED BY <1>1, <1>2, <1>3, <1>4

LEMMA TeardownSteps ==
  ASSUME NEW m \in DOMAIN Startup
  PROVE  /\ Len(Teardown[m]) \in 1 .. 8
         /\ m = "server" =>
              /\ Len(Teardown[m]) = 8
              /\ Teardown[m][1] = "cron" /\ Teardown[m][2] = "arq_pool" /\ Teardown[m][3] = "redis"
              /\ Teardown[m][4] = "redis_pool" /\ Teardown[m][5] = "oauth"
              /\ Teardown[m][6] = "hydra" /\ Teardown[m][7] = "pool"
              /\ Teardown[m][8] = "admin_pool"
         /\ m = "stdio" => /\ Len(Teardown[m]) = 2
                           /\ Teardown[m][1] = "admin_pool" /\ Teardown[m][2] = "pool"
         /\ m = "worker" => /\ Len(Teardown[m]) = 3 /\ Teardown[m][1] = "redis"
                            /\ Teardown[m][2] = "redis_pool" /\ Teardown[m][3] = "pool"
<1>1. m \in {"server", "stdio", "worker"}
  BY StartupSteps
<1>2. CASE m = "server"
  BY <1>2 DEF Teardown, LifespanTeardown
<1>3. CASE m = "stdio"
  BY <1>3 DEF Teardown
<1>4. CASE m = "worker"
  BY <1>4 DEF Teardown
<1> QED BY <1>1, <1>2, <1>3, <1>4

(* Every resource that a startup opens, it is given the handle of in the   *)
(* end, and its teardown closes it; the sweeper is the server's alone.     *)
LEMMA ServerCovered ==
  ASSUME LifeTypeOK, mode = "server"
  PROVE  /\ \A k \in 1 .. 15 : /\ Startup[mode][k].open \subseteq Resources
                               /\ Startup[mode][k].keep \subseteq Resources
                               /\ "cron" \in Startup[mode][k].open => k = 14
         /\ Resources \subseteq KeptBefore(16) /\ Resources \subseteq ClosedFrom(1)
         /\ "cron" \in Startup[mode][14].keep /\ "admin_pool" \in Startup[mode][2].open
         /\ "redis_pool" \in Startup[mode][10].open /\ "redis" \in Startup[mode][11].open
<1>1. Startup[mode] = Lifespan
  BY StartupSteps DEF LifeTypeOK
<1>2. ASSUME NEW k \in 1 .. 15
      PROVE  /\ Lifespan[k].open \subseteq Resources /\ Lifespan[k].keep \subseteq Resources
             /\ "cron" \in Lifespan[k].open => k = 14
  <2>1. \/ k = 1 \/ k = 2 \/ k = 3 \/ k = 4 \/ k = 5 \/ k = 6 \/ k = 7 \/ k = 8 \/ k = 9
        \/ k = 10 \/ k = 11 \/ k = 12 \/ k = 13 \/ k = 14 \/ k = 15
    OBVIOUS
  <2> QED BY <2>1, LifespanSteps DEF Check, Opens, Takes, Handed, Resources
<1>3. /\ {"admin_pool", "pool"} = Lifespan[5].keep /\ {"oauth"} = Lifespan[8].keep
      /\ "hydra" \in Lifespan[9].keep /\ "redis_pool" \in Lifespan[10].keep
      /\ "redis" \in Lifespan[11].keep /\ "arq_pool" \in Lifespan[13].keep
      /\ "cron" \in Lifespan[14].keep /\ "admin_pool" \in Lifespan[2].open
      /\ "redis_pool" \in Lifespan[10].open /\ "redis" \in Lifespan[11].open
  BY LifespanSteps DEF Check, Opens, Takes, Handed
<1>4. KeptBefore(16) = UNION {Lifespan[k].keep : k \in 1 .. 15}
  BY <1>1 DEF KeptBefore
<1>5. Resources \subseteq KeptBefore(16)
  BY <1>3, <1>4 DEF Resources
<1>6. Resources \subseteq ClosedFrom(1)
  <2> DEFINE list == Teardown[mode]
  <2>1. /\ list[1] = "cron" /\ list[2] = "arq_pool" /\ list[3] = "redis" /\ list[4] = "redis_pool"
        /\ list[5] = "oauth" /\ list[6] = "hydra" /\ list[7] = "pool" /\ list[8] = "admin_pool"
        /\ Len(list) = 8
    BY TeardownSteps DEF LifeTypeOK
  <2> HIDE DEF list
  <2>2. /\ 1 \in 1 .. 8 /\ 2 \in 1 .. 8 /\ 3 \in 1 .. 8 /\ 4 \in 1 .. 8
        /\ 5 \in 1 .. 8 /\ 6 \in 1 .. 8 /\ 7 \in 1 .. 8 /\ 8 \in 1 .. 8
    OBVIOUS
  <2>3. Resources \subseteq {list[k] : k \in 1 .. 8}
    BY <2>1, <2>2, Zenon DEF Resources
  <2> QED BY <2>1, <2>3 DEF ClosedFrom, list
<1> QED BY <1>1, <1>2, <1>3, <1>5, <1>6

LEMMA OthersCovered ==
  ASSUME LifeTypeOK, mode # "server"
  PROVE  /\ Len(Startup[mode]) = 4
         /\ \A k \in 1 .. 4 : /\ Startup[mode][k].open \subseteq {"admin_pool", "pool", "redis", "redis_pool"}
                              /\ Startup[mode][k].open \subseteq KeptBefore(5)
                              /\ Startup[mode][k].keep \subseteq ClosedFrom(1)
                              /\ Startup[mode][k].keep \subseteq Resources
                              /\ mode = "stdio" /\ k < 4 => Startup[mode][k].keep = {}
<1>1. mode \in {"stdio", "worker"} /\ Len(Startup[mode]) = 4
  BY StartupSteps DEF LifeTypeOK
<1>2. \A k \in 1 .. 4 : k = 1 \/ k = 2 \/ k = 3 \/ k = 4
  OBVIOUS
<1>3. KeptBefore(5) = UNION {Startup[mode][k].keep : k \in 1 .. 4}
  BY DEF KeptBefore
<1>4. CASE mode = "stdio"
  <2>1. {"admin_pool", "pool"} \subseteq ClosedFrom(1)
    BY <1>4, TeardownSteps DEF ClosedFrom, LifeTypeOK
  <2>2. {"admin_pool", "pool"} = Startup[mode][4].keep
    BY <1>4, StartupSteps DEF LifeTypeOK, Handed
  <2>3. {"admin_pool", "pool"} \subseteq KeptBefore(5)
    BY <1>3, <2>2
  <2> QED BY <1>1, <1>2, <1>4, <2>1, <2>3, StartupSteps DEF LifeTypeOK, Check, Opens, Takes, Handed,
                                                            Resources
<1>5. CASE mode = "worker"
  <2>1. {"redis", "redis_pool", "pool"} \subseteq ClosedFrom(1)
    BY <1>5, TeardownSteps DEF ClosedFrom, LifeTypeOK
  <2>2. /\ "pool" \in Startup[mode][1].keep /\ "redis_pool" \in Startup[mode][2].keep
        /\ "redis" \in Startup[mode][3].keep
    BY <1>5, StartupSteps DEF LifeTypeOK, Takes
  <2>3. {"redis", "redis_pool", "pool"} \subseteq KeptBefore(5)
    BY <1>3, <2>2
  <2> QED BY <1>1, <1>2, <1>5, <2>1, <2>3, StartupSteps DEF LifeTypeOK, Check, Opens, Takes, Handed,
                                                            Resources
<1> QED BY <1>1, <1>4, <1>5

(* The two together, as the invariant needs them.                          *)
LEMMA StartupCovered ==
  ASSUME LifeTypeOK
  PROVE  /\ Len(Startup[mode]) \in 1 .. 15 /\ Len(Teardown[mode]) \in 1 .. 8
         /\ \A k \in 1 .. Len(Startup[mode]) :
              /\ Startup[mode][k].open \subseteq Resources
              /\ Startup[mode][k].keep \subseteq Resources
              /\ Startup[mode][k].keep \subseteq ClosedFrom(1)
              /\ Startup[mode][k].open \subseteq KeptBefore(Len(Startup[mode]) + 1)
              /\ "cron" \in Startup[mode][k].open => mode = "server" /\ k = 14
              /\ mode = "stdio" /\ k < Len(Startup[mode]) => Startup[mode][k].keep = {}
<1>1. Len(Startup[mode]) \in 1 .. 15 /\ Len(Teardown[mode]) \in 1 .. 8
  BY StartupSteps, TeardownSteps DEF LifeTypeOK
<1>2. CASE mode = "server"
  <2>1. Len(Startup[mode]) = 15
    BY <1>2, StartupSteps, LifespanSteps DEF LifeTypeOK
  <2> QED BY <1>1, <1>2, <2>1, ServerCovered
<1>3. CASE mode # "server"
  <2>0. Len(Startup[mode]) = 4
    BY <1>3, OthersCovered
  <2>1. Len(Startup[mode]) = 4 /\ Len(Startup[mode]) + 1 = 5
    BY <2>0
  <2>2. {"admin_pool", "pool", "redis", "redis_pool"} \subseteq Resources \ {"cron"}
    BY DEF Resources
  <2>3. \A k \in 1 .. Len(Startup[mode]) :
          /\ Startup[mode][k].open \subseteq Resources \ {"cron"}
          /\ Startup[mode][k].keep \subseteq Resources
          /\ Startup[mode][k].keep \subseteq ClosedFrom(1)
          /\ Startup[mode][k].open \subseteq KeptBefore(Len(Startup[mode]) + 1)
          /\ mode = "stdio" /\ k < Len(Startup[mode]) => Startup[mode][k].keep = {}
    <3> SUFFICES ASSUME NEW k \in 1 .. 4
                 PROVE  /\ Startup[mode][k].open \subseteq Resources \ {"cron"}
                        /\ Startup[mode][k].keep \subseteq Resources
                        /\ Startup[mode][k].keep \subseteq ClosedFrom(1)
                        /\ Startup[mode][k].open \subseteq KeptBefore(5)
                        /\ mode = "stdio" /\ k < 4 => Startup[mode][k].keep = {}
      BY <2>1
    <3> QED BY <1>3, <2>2, OthersCovered
  <2> QED BY <1>1, <2>3
<1> QED BY <1>2, <1>3

---------------------------------------------------------------------------
LEMMA LifeInitInv == LifeInit => LifeInv
<1> SUFFICES ASSUME LifeInit PROVE LifeInv
  OBVIOUS
<1>1. LifeTypeOK
  <2>1. 1 \in 1 .. Len(Lifespan) + 1
    BY LifespanSteps
  <2> QED BY <2>1 DEF LifeInit, LifeTypeOK
<1>2. OpenedBefore(1) = {} /\ KeptBefore(1) = {}
  BY DEF OpenedBefore, KeptBefore
<1>3. 1 <= Len(Startup[mode]) + 1
  BY <1>1, StartupCovered
<1> QED BY <1>1, <1>2, <1>3 DEF LifeInv, BootOk, CloseOk, CronOk, LifeInit

(* A step of a sequence of startup or teardown is one of the lifespan's.   *)
LEMMA StepRange ==
  ASSUME NEW n \in 1 .. 15, NEW k \in 1 .. n
  PROVE  k + 1 <= n + 1 /\ k + 1 \in 1 .. Len(Lifespan) + 1
<1>1. k + 1 <= n + 1 /\ k + 1 \in 1 .. 15 + 1
  OBVIOUS
<1>2. Len(Lifespan) = 15
  BY LifespanSteps
<1> QED BY <1>1, <1>2

(* One more step of startup.                                               *)
LEMMA BeforeNext ==
  ASSUME LifeTypeOK
  PROVE  /\ OpenedBefore(step + 1) = OpenedBefore(step) \cup Startup[mode][step].open
         /\ KeptBefore(step + 1) = KeptBefore(step) \cup Startup[mode][step].keep
<1>1. step \in Nat \ {0}
  BY LifespanSteps DEF LifeTypeOK
<1>2. 1 .. (step + 1) - 1 = (1 .. step - 1) \cup {step}
  BY <1>1
<1> QED BY <1>2 DEF OpenedBefore, KeptBefore

LEMMA BootKeeps ==
  ASSUME LifeInv, Boot
  PROVE  LifeInv'
<1> DEFINE s == Startup[mode][step]
<1>1. LifeTypeOK /\ phase = "boot" /\ step <= Len(Startup[mode]) /\ ~served
  BY DEF LifeInv, Boot, BootOk
<1>2. /\ opened' = opened \cup {r \in s.open : Wanted(r)} /\ known' = known \cup {r \in s.keep : Wanted(r)}
      /\ step' = step + 1 /\ mode' = mode /\ config' = config /\ phase' = phase /\ stuck' = stuck
      /\ served' = served
  BY DEF Boot
<1>3. step \in 1 .. Len(Startup[mode]) /\ Len(Startup[mode]) \in 1 .. 15 /\ Len(Lifespan) = 15
  BY <1>1, StartupCovered, LifespanSteps DEF LifeTypeOK
<1>4. /\ s.open \subseteq Resources /\ s.keep \subseteq Resources /\ s.keep \subseteq ClosedFrom(1)
      /\ "cron" \in s.open => mode = "server" /\ step = 14
  BY <1>1, <1>3, StartupCovered
<1> HIDE DEF s
<1>5. LifeTypeOK'
  <2>1. step + 1 \in 1 .. Len(Lifespan) + 1
    BY <1>3, StepRange
  <2> QED BY <1>1, <1>2, <1>4, <2>1 DEF LifeTypeOK
<1>6. \A n : OpenedBefore(n)' = OpenedBefore(n) /\ KeptBefore(n)' = KeptBefore(n)
             /\ ClosedFrom(n)' = ClosedFrom(n) /\ \A r : Wanted(r)' = Wanted(r)
  BY <1>2 DEF OpenedBefore, KeptBefore, ClosedFrom, Wanted
<1>7. BootOk'
  <2>1. /\ opened' = {r \in OpenedBefore(step + 1) : Wanted(r)}
        /\ known' = {r \in KeptBefore(step + 1) : Wanted(r)}
    BY <1>1, <1>2, BeforeNext DEF LifeInv, BootOk, s
  <2> QED BY <1>1, <1>2, <1>3, <1>6, <2>1 DEF BootOk
<1>8. CloseOk'
  BY <1>1, <1>2, <1>4, <1>6 DEF LifeInv, CloseOk
<1>9. CronOk'
  <2>1. CASE "cron" \in opened
    <3>1. mode = "server" /\ "cron" \in known /\ {"admin_pool", "redis", "redis_pool"} \subseteq opened
      BY <2>1 DEF LifeInv, CronOk
    <3>2. /\ mode' = "server" /\ phase' = "boot" /\ "cron" \in known'
          /\ {"admin_pool", "redis", "redis_pool"} \subseteq opened'
      BY <1>1, <1>2, <3>1
    <3> QED BY <3>2 DEF CronOk
  <2>2. CASE "cron" \in s.open /\ Wanted("cron")
    <3>1. mode = "server" /\ step = 14 /\ "cron" \in s.keep
      BY <1>1, <1>4, <2>2, ServerCovered DEF s
    <3>2. {"admin_pool", "redis", "redis_pool"} \subseteq OpenedBefore(step)
      BY <1>1, <3>1, ServerCovered DEF OpenedBefore
    <3>3. Wanted("admin_pool") /\ Wanted("redis") /\ Wanted("redis_pool")
      BY <2>2 DEF Wanted
    <3>4. {"admin_pool", "redis", "redis_pool"} \subseteq opened
      BY <1>1, <3>2, <3>3 DEF LifeInv, BootOk
    <3>5. /\ mode' = "server" /\ phase' = "boot" /\ "cron" \in known'
          /\ {"admin_pool", "redis", "redis_pool"} \subseteq opened'
      BY <1>1, <1>2, <2>2, <3>1, <3>4
    <3> QED BY <3>5 DEF CronOk
  <2> QED BY <1>2, <2>1, <2>2 DEF CronOk
<1> QED BY <1>5, <1>7, <1>8, <1>9 DEF LifeInv

LEMMA ServeKeeps ==
  ASSUME LifeInv, Serve
  PROVE  LifeInv'
<1>1. LifeTypeOK /\ phase = "boot" /\ step > Len(Startup[mode]) /\ phase' = "serve" /\ served' = TRUE
      /\ mode' = mode /\ config' = config /\ step' = step /\ opened' = opened /\ known' = known
      /\ stuck' = stuck
  BY DEF LifeInv, Serve
<1>2. step = Len(Startup[mode]) + 1
  <2>1. step <= Len(Startup[mode]) + 1 /\ Len(Startup[mode]) \in Nat /\ step \in Nat
    BY <1>1, StartupCovered, LifespanSteps DEF LifeInv, BootOk, LifeTypeOK
  <2> QED BY <1>1, <2>1
<1>3. OpenedBefore(step) \subseteq KeptBefore(step)
  <2>1. 1 .. step - 1 = 1 .. Len(Startup[mode])
    BY <1>1, <1>2, StartupCovered
  <2> QED BY <1>1, <1>2, <2>1, StartupCovered DEF OpenedBefore
<1>4. opened \subseteq known
  BY <1>1, <1>3 DEF LifeInv, BootOk
<1>5. LifeTypeOK' /\ BootOk' /\ CronOk'
  BY <1>1 DEF LifeInv, LifeTypeOK, BootOk, CronOk
<1>6. CloseOk'
  BY <1>1, <1>4 DEF LifeInv, CloseOk, ClosedFrom
<1> QED BY <1>5, <1>6 DEF LifeInv

LEMMA StopKeeps ==
  ASSUME LifeInv, Stop
  PROVE  LifeInv'
<1>1. /\ LifeTypeOK /\ phase \in {"boot", "serve"} /\ phase' = Ending /\ step' = 1
      /\ mode' = mode /\ config' = config /\ opened' = opened /\ known' = known /\ stuck' = stuck
      /\ served' = served
  BY DEF LifeInv, Stop
<1>2. /\ Ending \in {"unwind", "finally", "down"}
      /\ mode = "server" => Ending = "unwind"
      /\ Ending = "down" => mode = "stdio" /\ phase = "boot" /\ step <= Len(Startup[mode])
  BY <1>1, StartupSteps DEF Ending, LifeTypeOK
<1>3. Ending = "down" => known = {}
  <2> SUFFICES ASSUME Ending = "down" PROVE known = {}
    OBVIOUS
  <2>1. \A k \in 1 .. step - 1 : Startup[mode][k].keep = {}
    <3>1. step \in Nat \ {0} /\ Len(Startup[mode]) \in Nat
      BY <1>1, StartupCovered, LifespanSteps DEF LifeTypeOK
    <3>2. ASSUME NEW k \in 1 .. step - 1
          PROVE  k \in 1 .. Len(Startup[mode]) /\ k < Len(Startup[mode])
      BY <1>2, <3>1
    <3> QED BY <1>1, <1>2, <3>2, StartupCovered
  <2>2. KeptBefore(step) = {}
    BY <2>1 DEF KeptBefore
  <2> QED BY <1>2, <2>2 DEF LifeInv, BootOk
<1>4. LifeTypeOK' /\ BootOk'
  BY <1>1, <1>2, LifespanSteps DEF LifeTypeOK, BootOk
<1>5. 1 <= Len(Teardown[mode]) + 1
  BY <1>1, StartupCovered
<1>6. CloseOk'
  BY <1>1, <1>2, <1>3, <1>5 DEF LifeInv, CloseOk, ClosedFrom
<1>7. CronOk'
  BY <1>1, <1>2 DEF LifeInv, CronOk
<1> QED BY <1>4, <1>6, <1>7 DEF LifeInv

(* One step of a teardown: what it closes, or cannot, is next on the list. *)
LEMMA ClosingNext ==
  ASSUME LifeTypeOK, InTeardown
  PROVE  /\ ClosedFrom(step) = {Closing} \cup ClosedFrom(step + 1)
         /\ step + 1 <= Len(Teardown[mode]) + 1 /\ step + 1 \in 1 .. Len(Lifespan) + 1
         /\ mode = "server" /\ step = 1 => Closing = "cron"
<1>1. step \in Nat \ {0} /\ Len(Teardown[mode]) \in 1 .. 8 /\ step <= Len(Teardown[mode])
      /\ Len(Lifespan) = 15
  BY StartupCovered, LifespanSteps DEF LifeTypeOK, InTeardown
<1>2. step .. Len(Teardown[mode]) = {step} \cup (step + 1 .. Len(Teardown[mode]))
  BY <1>1
<1>3. mode = "server" /\ step = 1 => Closing = "cron"
  BY TeardownSteps DEF Closing, LifeTypeOK
<1>4. step + 1 <= Len(Teardown[mode]) + 1 /\ step + 1 \in 1 .. Len(Lifespan) + 1
  <2>1. Len(Teardown[mode]) \in 1 .. 15 /\ step \in 1 .. Len(Teardown[mode])
    BY <1>1
  <2> QED BY <2>1, StepRange
<1>5. ClosedFrom(step) = {Closing} \cup ClosedFrom(step + 1)
  BY <1>2 DEF ClosedFrom, Closing
<1> QED BY <1>3, <1>4, <1>5

LEMMA CloseKeeps ==
  ASSUME LifeInv, Close
  PROVE  LifeInv'
<1>1. /\ LifeTypeOK /\ InTeardown /\ opened' = opened \ ({Closing} \cap known) /\ step' = step + 1
      /\ mode' = mode /\ config' = config /\ phase' = phase /\ known' = known /\ stuck' = stuck
      /\ served' = served
  BY DEF LifeInv, Close
<1>2. phase \in {"unwind", "finally"}
  BY <1>1 DEF InTeardown
<1>3. /\ ClosedFrom(step) = {Closing} \cup ClosedFrom(step + 1)
      /\ step + 1 <= Len(Teardown[mode]) + 1 /\ step + 1 \in 1 .. Len(Lifespan) + 1
      /\ mode = "server" /\ step = 1 => Closing = "cron"
  BY <1>1, ClosingNext
<1>4. \A n : ClosedFrom(n)' = ClosedFrom(n)
  BY <1>1 DEF ClosedFrom
<1>5. LifeTypeOK' /\ BootOk'
  BY <1>1, <1>2, <1>3 DEF LifeTypeOK, BootOk
<1>6. CloseOk'
  BY <1>1, <1>2, <1>3, <1>4 DEF LifeInv, CloseOk
<1>7. "cron" \notin opened'
  BY <1>1, <1>2, <1>3 DEF LifeInv, CronOk
<1> QED BY <1>5, <1>6, <1>7 DEF LifeInv, CronOk

LEMMA CloseFailsKeeps ==
  ASSUME LifeInv, CloseFails
  PROVE  LifeInv'
<1>1. /\ LifeTypeOK /\ InTeardown /\ Closing \in known \ {"cron"} /\ stuck' = stuck \cup {Closing}
      /\ mode' = mode /\ config' = config /\ opened' = opened /\ known' = known /\ served' = served
  BY DEF LifeInv, CloseFails
<1>2. phase \in {"unwind", "finally"}
  BY <1>1 DEF InTeardown
<1>3. /\ ClosedFrom(step) = {Closing} \cup ClosedFrom(step + 1)
      /\ step + 1 <= Len(Teardown[mode]) + 1 /\ step + 1 \in 1 .. Len(Lifespan) + 1
      /\ mode = "server" /\ step = 1 => Closing = "cron"
  BY <1>1, ClosingNext
<1>4. \A n : ClosedFrom(n)' = ClosedFrom(n)
  BY <1>1 DEF ClosedFrom
<1>5. "cron" \notin opened
  BY <1>1, <1>2, <1>3 DEF LifeInv, CronOk
<1>6. CASE phase = "unwind"
  <2>1. step' = step + 1 /\ phase' = phase
    BY <1>6 DEF CloseFails
  <2>2. LifeTypeOK' /\ BootOk'
    BY <1>1, <1>3, <1>6, <2>1 DEF LifeTypeOK, BootOk
  <2>3. CloseOk'
    BY <1>1, <1>3, <1>4, <1>6, <2>1 DEF LifeInv, CloseOk
  <2> QED BY <1>1, <1>5, <2>2, <2>3 DEF LifeInv, CronOk
<1>7. CASE phase = "finally"
  <2>1. phase' = "down" /\ step' = step /\ mode # "server"
    BY <1>7 DEF CloseFails, LifeInv, CloseOk
  <2>2. LifeTypeOK' /\ BootOk'
    BY <1>1, <2>1 DEF LifeTypeOK, BootOk
  <2>3. CloseOk'
    BY <1>1, <1>4, <1>7, <2>1 DEF LifeInv, CloseOk
  <2> QED BY <1>1, <1>5, <2>2, <2>3 DEF LifeInv, CronOk
<1> QED BY <1>2, <1>6, <1>7

LEMMA DownKeeps ==
  ASSUME LifeInv, Down
  PROVE  LifeInv'
<1>1. /\ LifeTypeOK /\ phase \in {"unwind", "finally"} /\ step > Len(Teardown[mode]) /\ phase' = "down"
      /\ mode' = mode /\ config' = config /\ step' = step /\ opened' = opened /\ known' = known
      /\ stuck' = stuck /\ served' = served
  BY DEF LifeInv, Down
<1>2. ClosedFrom(step) = {}
  <2>1. step \in Nat /\ Len(Teardown[mode]) \in 1 .. 8
    BY <1>1, StartupCovered, LifespanSteps DEF LifeTypeOK
  <2>2. step .. Len(Teardown[mode]) = {}
    BY <1>1, <2>1
  <2> QED BY <2>2 DEF ClosedFrom
<1>3. step # 1
  BY <1>1, StartupCovered
<1>4. \A n : ClosedFrom(n)' = ClosedFrom(n)
  BY <1>1 DEF ClosedFrom
<1>5. LifeTypeOK' /\ BootOk'
  BY <1>1 DEF LifeTypeOK, BootOk
<1>6. CloseOk'
  BY <1>1, <1>2, <1>4 DEF LifeInv, CloseOk
<1>7. CronOk'
  BY <1>1, <1>3 DEF LifeInv, CronOk
<1> QED BY <1>5, <1>6, <1>7 DEF LifeInv

LEMMA LifeStep == LifeInv /\ [LifeNext]_lifeVars => LifeInv'
<1> SUFFICES ASSUME LifeInv, [LifeNext]_lifeVars PROVE LifeInv'
  OBVIOUS
<1>1. CASE UNCHANGED lifeVars
  BY <1>1 DEF lifeVars, LifeInv, LifeTypeOK, BootOk, CloseOk, CronOk, OpenedBefore, KeptBefore,
              ClosedFrom, Wanted
<1>2. CASE LifeNext
  BY <1>2, BootKeeps, ServeKeeps, StopKeeps, CloseKeeps, CloseFailsKeeps, DownKeeps DEF LifeNext
<1> QED BY <1>1, <1>2

(* LifeInv holds in every reachable state.                                 *)
THEOREM LifeInvariant == LifeSpec => []LifeInv
BY LifeInitInv, LifeStep, PTL DEF LifeSpec

(* Whichever startup step fails, whatever a close does and whenever the    *)
(* process is told to stop (lifespan, _run_stdio, worker hooks), no handle *)
(* is lost and nothing is closed under the sweeper.                        *)
THEOREM TeardownComplete == LifeSpec => []TeardownCovers
<1>1. LifeInv => TeardownCovers
  BY DEF LifeInv, CloseOk, CronOk, TeardownCovers, HandlesKept, CronResourcesOpen
<1> QED BY <1>1, LifeInvariant, PTL
==============================================================================
