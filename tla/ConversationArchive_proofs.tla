--------------------- MODULE ConversationArchive_proofs ---------------------
(***************************************************************************)
(* Theorems about conversations: for any number of saves, titles and       *)
(* readers, files match rows, every conversation is of one save, and the   *)
(* whole implements the atomic store of SavedConversations.  A save before *)
(* its commit shows nothing but its file and its locks (BeforeCommit); the *)
(* lemma on commits is where the row changes hands.                        *)
(* And about the lists that clients page through, for any number of rows,  *)
(* any sort keys and any page size.                                        *)
(***************************************************************************)
EXTENDS ConversationArchive, ListingPages, FiniteSetTheorems, SequenceTheorems, TLAPS

(* What each row, save, file and reader may rely on.                       *)
RowOk(c) ==
  row[c] # Nothing =>
    row[c] \in disk /\ save[row[c]].conv = c /\ save[row[c]].pc \in Committed
MessagesOk(c) == messages[c] = IF row[c] = Nothing THEN {} ELSE {row[c]}
EntryOk(c) ==
  /\ row[c] = Nothing => LinkedEntries(c) = {}
  /\ row[c] # Nothing => \E e \in Saves : LinkedEntries(c) = {e} /\ entry[e] = row[c]

\* A save is no older than the file it found, no newer than the row.
RankOk(s) ==
  save[s].pc \in Committed =>
    /\ row[save[s].conv] # Nothing
    /\ save[s].rank <= save[row[save[s].conv]].rank
    /\ save[s].old # Nothing => save[save[s].old].rank < save[s].rank
OldOk(s) ==
  save[s].pc \in InFlight \cup Committed /\ save[s].old # Nothing =>
    save[save[s].old].pc \in Committed /\ save[save[s].old].conv = save[s].conv
HistoryOk(s) ==
  /\ save[s].pc # "idle" => save[s].conv \in Convs
  /\ save[s].pc \in InFlight => s \in disk
  /\ save[s].pc \notin Committed => save[s].prev = Nothing /\ entry[s] = Nothing

\* Under its row lock nothing changes that it has looked at.
LockOk(s) ==
  save[s].pc \in Open =>
    /\ rowLock[save[s].conv] = s
    /\ save[s].isUpdate = (row[save[s].conv] # Nothing)
    /\ save[s].pc # "messages" => save[s].seen = messages[save[s].conv]
LinkOk(s) ==
  save[s].pc \in {"platform", "commit"} =>
    save[s].link \in IF LinkedEntries(save[s].conv) = {} THEN {s} ELSE LinkedEntries(save[s].conv)

OrphanOk(f) ==
  f \in disk =>
    \/ \E c \in Convs : row[c] = f
    \/ save[f].pc \in InFlight \cup {"failed"}
    \/ \E s \in Saves : Replacer(s, f)

ReadOk(r) ==
  /\ read[r].pc \in {"meta", "done"} =>
       /\ read[r].meta \in Saves /\ read[r].conv \in Convs
       /\ save[read[r].meta].conv = read[r].conv /\ save[read[r].meta].pc \in Committed
  /\ read[r].pc = "done" => \E s \in Saves :
       /\ read[r].batch = {s} /\ save[s].pc \in Committed
       /\ save[s].rank >= save[read[r].meta].rank

RowsInv == \A c \in Convs : RowOk(c) /\ MessagesOk(c) /\ EntryOk(c)
SavesInv == \A s \in Saves : RankOk(s) /\ OldOk(s) /\ HistoryOk(s)
WorkInv == \A s \in Saves : LockOk(s) /\ LinkOk(s)
FilesInv == \A f \in Saves : OrphanOk(f)
ReadsInv == \A r \in Readers : ReadOk(r)
ArchiveInv == ArchiveTypeOK /\ RowsInv /\ SavesInv /\ WorkInv /\ FilesInv /\ ReadsInv

(* Nothing is saved, no file is written, no one reads.                     *)
LEMMA ArchiveInitInv == ArchiveInit => ArchiveInv
<1> SUFFICES ASSUME ArchiveInit PROVE ArchiveInv
  OBVIOUS
<1>1. ArchiveTypeOK
  BY DEF ArchiveInit, ArchiveTypeOK, Save, Read
<1>2. \A c \in Convs : LinkedEntries(c) = {}
  BY DEF ArchiveInit, LinkedEntries
<1>3. RowsInv
  BY <1>2 DEF ArchiveInit, RowsInv, RowOk, MessagesOk, EntryOk
<1>4. SavesInv /\ WorkInv
  BY DEF ArchiveInit, SavesInv, WorkInv, RankOk, OldOk, HistoryOk, LockOk, LinkOk, InFlight,
         Committed, Open
<1>5. FilesInv /\ ReadsInv
  BY DEF ArchiveInit, FilesInv, OrphanOk, ReadsInv, ReadOk
<1> QED BY <1>1, <1>3, <1>4, <1>5 DEF ArchiveInv

---------------------------------------------------------------------------
(* The steps of a save before its commit                                   *)

(* Such a step changes no table and no committed save; it may write its    *)
(* own file, take a free lock and give its own locks back.                 *)
BeforeCommit(s) ==
  /\ UNCHANGED tables /\ read' = read
  /\ disk \subseteq disk' /\ disk' \subseteq disk \cup {s}
  /\ save' \in [Saves -> Save] /\ \A t \in Saves : t # s => save'[t] = save[t]
  /\ save[s].pc \in {"idle", "prepare"} \cup InFlight
  /\ save'[s].pc \in {"prepare", "failed", "skipped"} \cup InFlight
  /\ save[s].pc \in InFlight => save'[s].pc \in InFlight \cup {"failed"}
  /\ save'[s].pc \in InFlight => s \in disk'
  /\ s \in disk' => s \in disk \/ save'[s].pc \in InFlight
  /\ save'[s].rank = save[s].rank /\ save'[s].prev = save[s].prev
  /\ save'[s].conv \in Convs /\ (save[s].pc # "idle" => save'[s].conv = save[s].conv)
  /\ rowLock' \in [Convs -> Saves \cup {Nothing}]
  /\ \A c \in Convs : rowLock[c] \notin {s, Nothing} => rowLock'[c] = rowLock[c]

LEMMA PcSets ==
  /\ Committed \cap InFlight = {} /\ Open \subseteq InFlight
  /\ \A pc \in {"idle", "prepare", "failed", "skipped"} : pc \notin Committed \cup InFlight
BY DEF Committed, InFlight, Open

(* The linked entries of a title stay what they are.                       *)
LEMMA BeforeLinked ==
  ASSUME ArchiveInv, NEW s \in Saves, BeforeCommit(s), NEW c \in Convs
  PROVE  LinkedEntries(c)' = LinkedEntries(c)
<1>1. entry' = entry /\ save[s].pc \notin Committed
  BY PcSets DEF BeforeCommit, tables
<1>2. entry[s] = Nothing
  BY <1>1 DEF ArchiveInv, SavesInv, HistoryOk
<1>3. \A e \in Saves : entry[e] # Nothing => save'[e] = save[e]
  BY <1>2 DEF BeforeCommit
<1> QED BY <1>1, <1>3 DEF LinkedEntries

LEMMA BeforeRows ==
  ASSUME ArchiveInv, NEW s \in Saves, BeforeCommit(s)
  PROVE  ArchiveTypeOK' /\ RowsInv'
<1>1. ArchiveTypeOK'
  BY DEF ArchiveInv, ArchiveTypeOK, BeforeCommit, tables
<1>2. ASSUME NEW c \in Convs PROVE (RowOk(c) /\ MessagesOk(c) /\ EntryOk(c))'
  <2>1. RowOk(c) /\ MessagesOk(c) /\ EntryOk(c) /\ row[c] \in Saves \cup {Nothing}
    BY DEF ArchiveInv, RowsInv, ArchiveTypeOK
  <2>2. row' = row /\ messages' = messages /\ entry' = entry /\ disk \subseteq disk'
    BY DEF BeforeCommit, tables
  <2>3. row[c] # Nothing => save'[row[c]] = save[row[c]]
    BY <2>1, PcSets DEF BeforeCommit, RowOk
  <2>4. RowOk(c)' BY <2>1, <2>2, <2>3 DEF RowOk
  <2>5. MessagesOk(c)' BY <2>1, <2>2 DEF MessagesOk
  <2>6. EntryOk(c)' BY <2>1, <2>2, BeforeLinked DEF EntryOk
  <2> QED BY <2>4, <2>5, <2>6
<1> QED BY <1>1, <1>2 DEF RowsInv

LEMMA BeforeSaves ==
  ASSUME ArchiveInv, NEW s \in Saves, BeforeCommit(s)
  PROVE  /\ \A t \in Saves : RankOk(t)' /\ HistoryOk(t)'
         /\ \A t \in Saves : t # s => OldOk(t)'
<1>1. /\ \A t \in Saves : save'[t].rank = save[t].rank
      /\ \A t \in Saves : save[t].pc \in Committed => save'[t] = save[t]
      /\ \A t \in Saves : save'[t].pc \in Committed => save'[t] = save[t]
      /\ row' = row /\ entry' = entry /\ disk \subseteq disk'
  BY PcSets DEF BeforeCommit, tables
<1>2. \A t \in Saves : save[t].old \in Saves \cup {Nothing} /\ save[t].conv \in Convs \cup {Nothing}
  BY DEF ArchiveInv, ArchiveTypeOK, Save
<1>3. \A c \in Convs : row[c] \in Saves \cup {Nothing}
  BY DEF ArchiveInv, ArchiveTypeOK
<1>4. ASSUME NEW t \in Saves PROVE RankOk(t)'
  <2>1. RankOk(t) /\ HistoryOk(t) BY DEF ArchiveInv, SavesInv
  <2>2. save[t].pc \in Committed => save[t].conv \in Convs BY <2>1, PcSets DEF HistoryOk
  <2> QED BY <1>1, <1>2, <1>3, <2>1, <2>2 DEF RankOk
<1>5. ASSUME NEW t \in Saves PROVE HistoryOk(t)'
  <2>1. HistoryOk(t) BY DEF ArchiveInv, SavesInv
  <2>2. CASE t = s BY <1>1, <2>1, <2>2, PcSets DEF HistoryOk, BeforeCommit
  <2>3. CASE t # s BY <1>1, <2>1, <2>3 DEF HistoryOk, BeforeCommit
  <2> QED BY <2>2, <2>3
<1>6. ASSUME NEW t \in Saves, t # s PROVE OldOk(t)'
  <2>1. OldOk(t) BY DEF ArchiveInv, SavesInv
  <2>2. save'[t] = save[t] BY <1>6 DEF BeforeCommit
  <2> QED BY <1>1, <1>2, <2>1, <2>2 DEF OldOk
<1> QED BY <1>4, <1>5, <1>6

LEMMA BeforeWork ==
  ASSUME ArchiveInv, NEW s \in Saves, BeforeCommit(s), NEW t \in Saves, t # s
  PROVE  LockOk(t)' /\ LinkOk(t)'
<1>1. LockOk(t) /\ LinkOk(t) /\ HistoryOk(t)
  BY DEF ArchiveInv, WorkInv, SavesInv
<1>2. save'[t] = save[t] /\ row' = row /\ messages' = messages /\ t # Nothing
  BY ArchiveAssumption DEF BeforeCommit, tables
<1>3. save[t].pc \in Open => save[t].conv \in Convs /\ rowLock'[save[t].conv] = t
  BY <1>1, <1>2, PcSets DEF LockOk, HistoryOk, BeforeCommit
<1>4. LockOk(t)'
  BY <1>1, <1>2, <1>3 DEF LockOk
<1>5. save[t].pc \in {"platform", "commit"} =>
        LinkedEntries(save[t].conv)' = LinkedEntries(save[t].conv)
  <2>1. save[t].pc \in {"platform", "commit"} => save[t].conv \in Convs
    BY <1>1 DEF HistoryOk
  <2> DEFINE c == save[t].conv
  <2>2. c \in Convs => \A e \in Saves : (entry[e] # Nothing /\ save[e].conv = c)
                                         <=> (entry'[e] # Nothing /\ save'[e].conv = c)
    <3>1. entry' = entry /\ save[s].pc \notin Committed
      BY PcSets DEF BeforeCommit, tables
    <3>2. entry[s] = Nothing
      BY <3>1 DEF ArchiveInv, SavesInv, HistoryOk
    <3> QED BY <3>1, <3>2 DEF BeforeCommit
  <2> QED BY <1>2, <2>1, <2>2 DEF LinkedEntries
<1>6. LinkOk(t)'
  BY <1>1, <1>2, <1>5 DEF LinkOk, LinkedEntries
<1> QED BY <1>4, <1>6

LEMMA BeforeFiles ==
  ASSUME ArchiveInv, NEW s \in Saves, BeforeCommit(s)
  PROVE  FilesInv' /\ ReadsInv'
<1>1. /\ \A t \in Saves : save[t].pc \in Committed => save'[t] = save[t]
      /\ row' = row /\ read' = read /\ save[s].prev = Nothing /\ save'[s].prev = Nothing
  BY PcSets DEF BeforeCommit, tables, ArchiveInv, SavesInv, HistoryOk
<1>2. \A q, f \in Saves : Replacer(q, f) => q # s /\ Replacer(q, f)'
  BY <1>1, ArchiveAssumption DEF Replacer, BeforeCommit
<1>3. ASSUME NEW f \in Saves PROVE OrphanOk(f)'
  <2>1. OrphanOk(f) BY DEF ArchiveInv, FilesInv
  <2>2. CASE f = s BY <1>1, <1>2, <2>1, <2>2 DEF OrphanOk, BeforeCommit
  <2>3. CASE f # s BY <1>1, <1>2, <2>1, <2>3 DEF OrphanOk, BeforeCommit
  <2> QED BY <2>2, <2>3
<1>4. ASSUME NEW r \in Readers PROVE ReadOk(r)'
  BY <1>1 DEF ArchiveInv, ReadsInv, ReadOk
<1> QED BY <1>3, <1>4 DEF FilesInv, ReadsInv

(* What is left to show of such a step: what the save itself holds then.   *)
LEMMA BeforeStep ==
  ASSUME ArchiveInv, NEW s \in Saves, BeforeCommit(s), OldOk(s)', LockOk(s)', LinkOk(s)'
  PROVE  ArchiveInv'
BY BeforeRows, BeforeSaves, BeforeWork, BeforeFiles DEF ArchiveInv, SavesInv, WorkInv

(* How a save is updated by each of these steps.                           *)
LEMMA SaveTyped ==
  ASSUME ArchiveTypeOK, NEW s \in Saves
  PROVE  /\ save[s] \in Save /\ save \in [Saves -> Save]
         /\ save[s].conv \in Convs \cup {Nothing} /\ save[s].old \in Saves \cup {Nothing}
         /\ save[s].link \in Saves \cup {Nothing} /\ save[s].rank \in Nat
         /\ rowLock \in [Convs -> Saves \cup {Nothing}] /\ disk \in SUBSET Saves
         /\ row \in [Convs -> Saves \cup {Nothing}] /\ messages \in [Convs -> SUBSET Saves]
BY DEF ArchiveTypeOK, Save

(* A save that goes on keeps everything but its place.                     *)
LEMMA GotoTyped ==
  ASSUME ArchiveTypeOK, NEW s \in Saves, NEW pc \in {"failed"} \cup InFlight, SaveGoto(s, pc)
  PROVE  /\ save'[s].pc = pc /\ save'[s].conv = save[s].conv /\ save'[s].rank = save[s].rank
         /\ save'[s].prev = save[s].prev /\ save'[s].old = save[s].old
         /\ save'[s].isUpdate = save[s].isUpdate /\ save'[s].seen = save[s].seen
         /\ save'[s].link = save[s].link
         /\ save' \in [Saves -> Save] /\ \A t \in Saves : t # s => save'[t] = save[t]
<1> DEFINE new == [save[s] EXCEPT !.pc = pc]
<1>1. save[s] \in Save /\ save \in [Saves -> Save]
  BY SaveTyped
<1>2. new \in Save
  BY <1>1 DEF Save
<1>3. /\ new.pc = pc /\ new.conv = save[s].conv /\ new.rank = save[s].rank /\ new.prev = save[s].prev
      /\ new.old = save[s].old /\ new.isUpdate = save[s].isUpdate /\ new.seen = save[s].seen
      /\ new.link = save[s].link
  BY <1>1 DEF Save
<1>4. save' = [save EXCEPT ![s] = new]
  BY <1>1 DEF SaveGoto
<1> HIDE DEF new
<1> QED BY <1>1, <1>2, <1>3, <1>4

LEMMA TablesTyped ==
  ASSUME ArchiveTypeOK, NEW c \in Convs
  PROVE  /\ row[c] \in Saves \cup {Nothing} /\ messages[c] \in SUBSET Saves
         /\ rowLock[c] \in Saves \cup {Nothing}
BY DEF ArchiveTypeOK

LEMMA StartSaveStep ==
  ASSUME ArchiveInv, NEW s \in Saves, NEW c \in Convs, NEW p \in Pids \cup {Nothing},
         StartSave(s, c, p)
  PROVE  ArchiveInv'
<1>1. PICK pc \in {"skipped", "prepare"} :
        save' = [save EXCEPT ![s].pc = pc, ![s].conv = c, ![s].pid = p]
  BY DEF StartSave
<1>2. /\ save'[s].pc = pc /\ save'[s].conv = c /\ save'[s].rank = save[s].rank
      /\ save'[s].prev = save[s].prev /\ save' \in [Saves -> Save]
      /\ \A t \in Saves : t # s => save'[t] = save[t]
  <2>1. save[s] \in Save /\ save \in [Saves -> Save] BY SaveTyped DEF ArchiveInv
  <2> DEFINE new == [save[s] EXCEPT !.pc = pc, !.conv = c, !.pid = p]
  <2>2. new \in Save BY <2>1 DEF Save
  <2>3. new.pc = pc /\ new.conv = c /\ new.rank = save[s].rank /\ new.prev = save[s].prev
    BY <2>1 DEF Save
  <2>4. save' = [save EXCEPT ![s] = new] BY <1>1, <2>1
  <2> HIDE DEF new
  <2> QED BY <2>1, <2>2, <2>3, <2>4
<1>3. /\ save[s].pc = "idle" /\ UNCHANGED tables /\ UNCHANGED <<disk, rowLock, read>>
      /\ disk \in SUBSET Saves
  BY SaveTyped DEF StartSave, SaveAt, ArchiveInv
<1>4. pc \notin InFlight /\ "idle" \notin InFlight
  BY DEF InFlight, Open
<1>5. BeforeCommit(s)
  <2>1. UNCHANGED tables /\ read' = read /\ disk' = disk /\ rowLock' = rowLock
    BY <1>3
  <2>2. save[s].pc \notin InFlight /\ save'[s].pc \notin InFlight
    BY <1>2, <1>3, <1>4
  <2>3. rowLock' \in [Convs -> Saves \cup {Nothing}]
    BY <2>1, SaveTyped DEF ArchiveInv
  <2> QED BY <1>2, <1>3, <2>1, <2>2, <2>3 DEF BeforeCommit
<1>6. OldOk(s)' /\ LockOk(s)' /\ LinkOk(s)'
  BY <1>2, PcSets DEF OldOk, LockOk, LinkOk
<1> QED BY <1>5, <1>6, BeforeStep

(* The file that the row names belongs to a committed save of the title.   *)
LEMMA PrepareFileStep ==
  ASSUME ArchiveInv, NEW s \in Saves, PrepareFile(s)
  PROVE  ArchiveInv'
<1>1. /\ save[s].pc = "prepare" /\ save[s].conv \in Convs
      /\ disk' = disk \cup {s} /\ UNCHANGED tables /\ UNCHANGED <<rowLock, read>>
  BY DEF PrepareFile, SaveAt, ArchiveInv, SavesInv, HistoryOk
<1>2. /\ save'[s].pc = "upsert" /\ save'[s].conv = save[s].conv /\ save'[s].rank = save[s].rank
      /\ save'[s].prev = save[s].prev /\ save'[s].old = row[save[s].conv]
      /\ save' \in [Saves -> Save] /\ \A t \in Saves : t # s => save'[t] = save[t]
  BY <1>1, SaveTyped DEF ArchiveInv, PrepareFile, Save, InFlight
<1>3. BeforeCommit(s)
  BY <1>1, <1>2, PcSets, SaveTyped DEF BeforeCommit, ArchiveInv, InFlight
<1>4. OldOk(s)'
  <2>1. RowOk(save[s].conv) BY <1>1 DEF ArchiveInv, RowsInv
  <2>2. row[save[s].conv] \in Saves \cup {Nothing} BY <1>1, SaveTyped DEF ArchiveInv
  <2>3. row[save[s].conv] # Nothing => save'[row[save[s].conv]] = save[row[save[s].conv]]
    BY <1>1, <1>2, <2>1, <2>2, PcSets DEF RowOk
  <2> QED BY <1>2, <2>1, <2>3 DEF OldOk, RowOk
<1>5. LockOk(s)' /\ LinkOk(s)'
  BY <1>2 DEF LockOk, LinkOk, Open
<1> QED BY <1>3, <1>4, <1>5, BeforeStep

(* The lock is free, so no other save is in the middle of its transaction. *)
LEMMA UpsertRowStep ==
  ASSUME ArchiveInv, NEW s \in Saves, UpsertRow(s)
  PROVE  ArchiveInv'
<1> DEFINE c == save[s].conv
<1>1. /\ save[s].pc = "upsert" /\ c \in Convs /\ s \in disk /\ disk' = disk
      /\ rowLock[c] = Nothing /\ rowLock' = [rowLock EXCEPT ![c] = s]
      /\ UNCHANGED tables /\ read' = read /\ row' = row
  BY DEF UpsertRow, SaveAt, ArchiveInv, SavesInv, HistoryOk, InFlight, tables
<1>2. /\ save'[s].pc = "messages" /\ save'[s].conv = c /\ save'[s].rank = save[s].rank
      /\ save'[s].prev = save[s].prev /\ save'[s].old = save[s].old
      /\ save'[s].isUpdate = (row[c] # Nothing)
      /\ save' \in [Saves -> Save] /\ \A t \in Saves : t # s => save'[t] = save[t]
  BY <1>1, SaveTyped DEF ArchiveInv, UpsertRow, Save, InFlight, Open
<1>3. /\ rowLock'[c] = s /\ \A d \in Convs : d # c => rowLock'[d] = rowLock[d]
      /\ rowLock' \in [Convs -> Saves \cup {Nothing}]
  BY <1>1, SaveTyped DEF ArchiveInv
<1>4. BeforeCommit(s)
  BY <1>1, <1>2, <1>3 DEF BeforeCommit, InFlight, Open
<1>5. OldOk(s)'
  <2>1. OldOk(s) BY DEF ArchiveInv, SavesInv
  <2>2. save[s].old # s \/ save[s].old = Nothing
    BY <1>1, <2>1, PcSets DEF OldOk, InFlight
  <2> QED BY <1>1, <1>2, <2>1, <2>2, SaveTyped DEF ArchiveInv, OldOk, InFlight
<1>6. LockOk(s)' /\ LinkOk(s)'
  BY <1>1, <1>2, <1>3 DEF LockOk, LinkOk
<1> QED BY <1>4, <1>5, <1>6, BeforeStep

(* The steps under the row lock.                                           *)
LEMMA UnderLock ==
  ASSUME ArchiveInv, NEW s \in Saves, save[s].pc \in Open
  PROVE  /\ save[s].conv \in Convs /\ s \in disk /\ save[s].pc \in InFlight
         /\ LockOk(s) /\ OldOk(s) /\ LinkOk(s) /\ save[s].old # s
<1>1. save[s].pc \in InFlight BY PcSets
<1>2. LockOk(s) /\ OldOk(s) /\ LinkOk(s) /\ HistoryOk(s)
  BY DEF ArchiveInv, WorkInv, SavesInv
<1>3. save[s].conv \in Convs /\ s \in disk
  BY <1>1, <1>2, PcSets DEF HistoryOk
<1>4. save[s].old # s
  BY <1>1, <1>2, PcSets, ArchiveAssumption DEF OldOk
<1> QED BY <1>1, <1>2, <1>3, <1>4

LEMMA RewriteMessagesStep ==
  ASSUME ArchiveInv, NEW s \in Saves, RewriteMessages(s)
  PROVE  ArchiveInv'
<1> DEFINE c == save[s].conv
<1>1. /\ save[s].pc = "messages" /\ save[s].pc \in Open
      /\ UNCHANGED tables /\ read' = read /\ row' = row /\ messages' = messages
      /\ disk' = disk /\ rowLock' = rowLock
  BY DEF RewriteMessages, SaveAt, Open, tables
<1>2. c \in Convs /\ s \in disk /\ LockOk(s) /\ OldOk(s) /\ save[s].old # s
  BY <1>1, UnderLock
<1>3. /\ save'[s].pc = "linked" /\ save'[s].conv = c /\ save'[s].rank = save[s].rank
      /\ save'[s].prev = save[s].prev /\ save'[s].old = save[s].old
      /\ save'[s].isUpdate = save[s].isUpdate /\ save'[s].seen = messages[c]
      /\ save' \in [Saves -> Save] /\ \A t \in Saves : t # s => save'[t] = save[t]
  BY <1>1, <1>2, SaveTyped DEF ArchiveInv, RewriteMessages, Save, InFlight, Open
<1>4. BeforeCommit(s)
  BY <1>1, <1>2, <1>3, SaveTyped DEF ArchiveInv, BeforeCommit, InFlight, Open
<1>5. OldOk(s)'
  BY <1>1, <1>2, <1>3, SaveTyped DEF ArchiveInv, OldOk, InFlight
<1>6. LockOk(s)' /\ LinkOk(s)'
  BY <1>1, <1>2, <1>3 DEF LockOk, LinkOk
<1> QED BY <1>4, <1>5, <1>6, BeforeStep

LEMMA UpsertLinkedStep ==
  ASSUME ArchiveInv, NEW s \in Saves, UpsertLinked(s)
  PROVE  ArchiveInv'
<1> DEFINE c == save[s].conv
<1>1. /\ save[s].pc = "linked" /\ save[s].pc \in Open
      /\ UNCHANGED tables /\ read' = read /\ row' = row /\ messages' = messages
      /\ disk' = disk /\ rowLock' = rowLock
  BY DEF UpsertLinked, SaveAt, Open, tables
<1>2. c \in Convs /\ s \in disk /\ LockOk(s) /\ OldOk(s) /\ save[s].old # s
  BY <1>1, UnderLock
<1>3. PICK e \in IF LinkedEntries(c) = {} THEN {s} ELSE LinkedEntries(c) :
        save' = [save EXCEPT ![s].link = e,
                             ![s].pc = IF save[s].pid = Nothing THEN "commit" ELSE "platform"]
  BY DEF UpsertLinked
<1>4. e \in Saves BY <1>3 DEF LinkedEntries
<1>5. PICK pc \in {"commit", "platform"} : save' = [save EXCEPT ![s].link = e, ![s].pc = pc]
  BY <1>3
<1>6. /\ save'[s].pc = pc /\ save'[s].conv = c /\ save'[s].rank = save[s].rank
      /\ save'[s].prev = save[s].prev /\ save'[s].old = save[s].old
      /\ save'[s].isUpdate = save[s].isUpdate /\ save'[s].seen = save[s].seen
      /\ save'[s].link = e
      /\ save' \in [Saves -> Save] /\ \A t \in Saves : t # s => save'[t] = save[t]
  BY <1>1, <1>2, <1>4, <1>5, SaveTyped DEF ArchiveInv, Save, InFlight, Open
<1>7. BeforeCommit(s)
  BY <1>1, <1>2, <1>6, SaveTyped DEF ArchiveInv, BeforeCommit, InFlight, Open
<1>8. OldOk(s)'
  BY <1>1, <1>2, <1>6, SaveTyped DEF ArchiveInv, OldOk, InFlight
<1>9. LockOk(s)'
  BY <1>1, <1>2, <1>6 DEF LockOk, Open
<1>10. LinkOk(s)'
  <2>1. PICK d \in Convs : d = c BY <1>2
  <2>2. LinkedEntries(d)' = LinkedEntries(d) BY <1>7, BeforeLinked
  <2>3. LinkedEntries(d)' = {x \in Saves : entry'[x] # Nothing /\ save'[x].conv = d}
    BY DEF LinkedEntries
  <2>4. e \in IF LinkedEntries(d) = {} THEN {s} ELSE LinkedEntries(d) BY <1>3, <2>1
  <2>5. save'[s].conv = d /\ save'[s].link = e BY <1>6, <2>1
  <2> QED BY <2>2, <2>3, <2>4, <2>5 DEF LinkOk, LinkedEntries
<1> QED BY <1>7, <1>8, <1>9, <1>10, BeforeStep

LEMMA SetPlatformStep ==
  ASSUME ArchiveInv, NEW s \in Saves, SetPlatform(s)
  PROVE  ArchiveInv'
<1> DEFINE c == save[s].conv
<1>1. /\ save[s].pc = "platform" /\ save[s].pc \in Open
      /\ UNCHANGED tables /\ read' = read /\ row' = row /\ messages' = messages
      /\ disk' = disk /\ rowLock' = rowLock
  BY DEF SetPlatform, SaveAt, Open, tables
<1>2. c \in Convs /\ s \in disk /\ LockOk(s) /\ OldOk(s) /\ LinkOk(s) /\ save[s].old # s
  BY <1>1, UnderLock
<1>3. /\ save'[s].pc = "commit" /\ save'[s].conv = c /\ save'[s].rank = save[s].rank
      /\ save'[s].prev = save[s].prev /\ save'[s].old = save[s].old
      /\ save'[s].isUpdate = save[s].isUpdate /\ save'[s].seen = save[s].seen
      /\ save'[s].link = save[s].link
      /\ save' \in [Saves -> Save] /\ \A t \in Saves : t # s => save'[t] = save[t]
  <2>1. "commit" \in InFlight /\ ArchiveTypeOK /\ SaveGoto(s, "commit")
    BY DEF InFlight, Open, ArchiveInv, SetPlatform
  <2> QED BY <2>1, GotoTyped
<1>4. BeforeCommit(s)
  BY <1>1, <1>2, <1>3, SaveTyped DEF ArchiveInv, BeforeCommit, InFlight, Open
<1>5. OldOk(s)'
  BY <1>1, <1>2, <1>3, SaveTyped DEF ArchiveInv, OldOk, InFlight
<1>6. LockOk(s)'
  BY <1>1, <1>2, <1>3 DEF LockOk, Open
<1>7. LinkOk(s)'
  <2>1. PICK d \in Convs : d = c BY <1>2
  <2>2. LinkedEntries(d)' = LinkedEntries(d) BY <1>4, BeforeLinked
  <2>3. LinkedEntries(d)' = {x \in Saves : entry'[x] # Nothing /\ save'[x].conv = d}
    BY DEF LinkedEntries
  <2>4. save[s].link \in IF LinkedEntries(d) = {} THEN {s} ELSE LinkedEntries(d)
    BY <1>1, <1>2, <2>1 DEF LinkOk
  <2>5. save'[s].conv = d /\ save'[s].link = save[s].link BY <1>3, <2>1
  <2> QED BY <2>2, <2>3, <2>4, <2>5 DEF LinkOk, LinkedEntries
<1> QED BY <1>4, <1>5, <1>6, <1>7, BeforeStep

(* A failure gives back the lock and leaves the file.                      *)
LEMMA FailSaveStep ==
  ASSUME ArchiveInv, NEW s \in Saves, FailSave(s)
  PROVE  ArchiveInv'
<1>1. /\ save[s].pc \in {"prepare"} \cup InFlight
      /\ UNCHANGED tables /\ read' = read /\ disk' = disk
      /\ rowLock' = [c \in Convs |-> IF rowLock[c] = s THEN Nothing ELSE rowLock[c]]
  BY DEF FailSave, Unlock
<1>2. save[s].conv \in Convs
  BY <1>1 DEF ArchiveInv, SavesInv, HistoryOk, InFlight, Open
<1>3. /\ save'[s].pc = "failed" /\ save'[s].conv = save[s].conv /\ save'[s].rank = save[s].rank
      /\ save'[s].prev = save[s].prev
      /\ save' \in [Saves -> Save] /\ \A t \in Saves : t # s => save'[t] = save[t]
  <2>1. ArchiveTypeOK /\ SaveGoto(s, "failed")
    BY DEF ArchiveInv, FailSave
  <2> QED BY <2>1, GotoTyped
<1>4. rowLock' \in [Convs -> Saves \cup {Nothing}]
  BY <1>1, SaveTyped DEF ArchiveInv
<1>5. BeforeCommit(s)
  BY <1>1, <1>2, <1>3, <1>4, SaveTyped DEF ArchiveInv, BeforeCommit, InFlight, Open
<1>6. OldOk(s)' /\ LockOk(s)' /\ LinkOk(s)'
  BY <1>3 DEF OldOk, LockOk, LinkOk, InFlight, Committed, Open
<1> QED BY <1>5, <1>6, BeforeStep

---------------------------------------------------------------------------
(* The steps after the commit, and the readers                             *)

(* Such a step changes nothing of a save but which committed stage it is   *)
(* in, and takes no file but the one that the save replaced.               *)
After(s) ==
  /\ UNCHANGED tables /\ rowLock' = rowLock /\ read' = read
  /\ save[s].pc = "delete" /\ save'[s].pc \in {"done", "dropped"}
  /\ save' \in [Saves -> Save] /\ \A t \in Saves : t # s => save'[t] = save[t]
  /\ save'[s].conv = save[s].conv /\ save'[s].old = save[s].old
  /\ save'[s].prev = save[s].prev /\ save'[s].rank = save[s].rank
  /\ \/ disk' = disk /\ save'[s].pc = "dropped"
     \/ disk' = disk \ {save[s].old}

(* The file a save replaced is no row's: the row has a later save.         *)
LEMMA OldIsNoRow ==
  ASSUME ArchiveInv, NEW s \in Saves, save[s].pc \in Committed, NEW c \in Convs, row[c] # Nothing
  PROVE  save[s].old # row[c]
<1> SUFFICES ASSUME save[s].old = row[c] PROVE FALSE
  OBVIOUS
<1>1. RankOk(s) /\ OldOk(s) /\ RowOk(c)
  BY DEF ArchiveInv, SavesInv, RowsInv
<1>2. save[row[c]].conv = c /\ save[s].conv = c
  BY <1>1 DEF OldOk, RowOk
<1>3. save[row[c]].rank < save[s].rank /\ save[s].rank <= save[row[c]].rank
  BY <1>1, <1>2 DEF RankOk
<1>4. row[c] \in Saves /\ save[row[c]].rank \in Nat /\ save[s].rank \in Nat
  BY SaveTyped DEF ArchiveInv
<1> QED BY <1>3, <1>4

LEMMA AfterRows ==
  ASSUME ArchiveInv, NEW s \in Saves, After(s)
  PROVE  ArchiveTypeOK' /\ RowsInv' /\ WorkInv' /\ ReadsInv'
<1>1. /\ row' = row /\ messages' = messages /\ entry' = entry /\ rowLock' = rowLock
      /\ read' = read /\ save[s].pc \in Committed /\ save'[s].pc \in Committed
      /\ \A t \in Saves : save'[t].conv = save[t].conv /\ save'[t].rank = save[t].rank
      /\ \A t \in Saves : save[t].pc \in Committed <=> save'[t].pc \in Committed
      /\ \A t \in Saves : save[t].pc \notin Committed => save'[t] = save[t]
  BY DEF After, tables, Committed
<1>2. ArchiveTypeOK'
  BY <1>1 DEF After, ArchiveInv, ArchiveTypeOK, tables
<1>3. \A c \in Convs : LinkedEntries(c)' = LinkedEntries(c)
  BY <1>1 DEF LinkedEntries
<1>4. ASSUME NEW c \in Convs PROVE (RowOk(c) /\ MessagesOk(c) /\ EntryOk(c))'
  <2>1. RowOk(c) /\ MessagesOk(c) /\ EntryOk(c) /\ row[c] \in Saves \cup {Nothing}
    BY SaveTyped DEF ArchiveInv, RowsInv
  <2>2. row[c] # Nothing => save[s].old # row[c]
    BY <1>1, OldIsNoRow
  <2>3. RowOk(c)' BY <1>1, <2>1, <2>2 DEF RowOk, After
  <2> QED BY <1>1, <1>3, <2>1, <2>3 DEF MessagesOk, EntryOk
<1>5. ASSUME NEW t \in Saves PROVE LockOk(t)' /\ LinkOk(t)'
  <2>1. LockOk(t) /\ LinkOk(t) BY DEF ArchiveInv, WorkInv
  <2>2. CASE save[t].pc \in Committed
    BY <1>1, <2>2, PcSets DEF LockOk, LinkOk, Committed, Open
  <2>3. CASE save[t].pc \notin Committed
    <3>1. save'[t] = save[t] BY <1>1, <2>3
    <3>2. LockOk(t)' BY <1>1, <2>1, <3>1 DEF LockOk
    <3>3. LinkOk(t)'
      BY <1>1, <2>1, <3>1 DEF LinkOk, LinkedEntries
    <3> QED BY <3>2, <3>3
  <2> QED BY <2>2, <2>3
<1>6. ASSUME NEW r \in Readers PROVE ReadOk(r)'
  <2>1. ReadOk(r) BY DEF ArchiveInv, ReadsInv
  <2> QED BY <1>1, <2>1 DEF ReadOk
<1> QED BY <1>2, <1>4, <1>5, <1>6 DEF RowsInv, WorkInv, ReadsInv

LEMMA AfterStep ==
  ASSUME ArchiveInv, NEW s \in Saves, After(s)
  PROVE  ArchiveInv'
<1>1. /\ row' = row /\ entry' = entry /\ save[s].pc \in Committed /\ save'[s].pc \in Committed
      /\ \A t \in Saves : /\ save'[t].conv = save[t].conv /\ save'[t].rank = save[t].rank
                          /\ save'[t].old = save[t].old /\ save'[t].prev = save[t].prev
      /\ \A t \in Saves : save[t].pc \in Committed <=> save'[t].pc \in Committed
      /\ \A t \in Saves : save[t].pc \notin Committed => save'[t] = save[t]
      /\ disk' \subseteq disk /\ \A f \in disk : f \in disk' \/ f = save[s].old
  BY DEF After, tables, Committed
<1>2. \A t \in Saves : /\ save[t].old \in Saves \cup {Nothing}
                       /\ save[t].conv \in Convs \cup {Nothing}
  BY SaveTyped DEF ArchiveInv
<1>3. \A c \in Convs : row[c] \in Saves \cup {Nothing}
  BY SaveTyped DEF ArchiveInv
<1>4. ASSUME NEW t \in Saves PROVE (RankOk(t) /\ OldOk(t) /\ HistoryOk(t))'
  <2>1. RankOk(t) /\ OldOk(t) /\ HistoryOk(t) BY DEF ArchiveInv, SavesInv
  <2>2. save[t].pc \in Committed => save[t].conv \in Convs
    BY <2>1 DEF HistoryOk, Committed
  <2>3. RankOk(t)' BY <1>1, <1>2, <1>3, <2>1, <2>2 DEF RankOk
  <2>4. OldOk(t)' BY <1>1, <1>2, <2>1 DEF OldOk
  <2>5. OldOk(s) /\ save[s].old \in Saves \cup {Nothing}
    BY <1>2 DEF ArchiveInv, SavesInv
  <2>6. save[t].pc \in InFlight => t # save[s].old
    BY <1>1, <2>5, PcSets, ArchiveAssumption DEF OldOk
  <2>7. HistoryOk(t)'
    <3>1. CASE save[t].pc \in Committed
      BY <1>1, <2>2, <3>1, PcSets DEF HistoryOk
    <3>2. CASE save[t].pc \notin Committed
      BY <1>1, <2>1, <2>6, <3>2 DEF HistoryOk
    <3> QED BY <3>1, <3>2
  <2> QED BY <2>3, <2>4, <2>7
<1>5. ASSUME NEW f \in Saves PROVE OrphanOk(f)'
  <2> SUFFICES ASSUME f \in disk' PROVE OrphanOk(f)'
    BY DEF OrphanOk
  <2>1. OrphanOk(f) /\ f \in disk BY <1>1 DEF ArchiveInv, FilesInv
  <2>2. CASE \E c \in Convs : row[c] = f
    BY <1>1, <2>2 DEF OrphanOk
  <2>3. CASE save[f].pc \in InFlight \cup {"failed"}
    <3>1. save[f].pc \notin Committed BY <2>3, PcSets
    <3> QED BY <1>1, <2>3, <3>1 DEF OrphanOk
  <2>4. ASSUME NEW q \in Saves, Replacer(q, f) PROVE Replacer(q, f)'
    <3>1. CASE q = s
      BY <1>1, <2>1, <2>4, <3>1 DEF Replacer, After
    <3>2. CASE q # s
      BY <2>4, <3>2 DEF Replacer, After
    <3> QED BY <3>1, <3>2
  <2> QED BY <2>1, <2>2, <2>3, <2>4 DEF OrphanOk
<1> QED BY <1>4, <1>5, AfterRows DEF ArchiveInv, SavesInv, FilesInv

LEMMA SupersededStep ==
  ASSUME ArchiveInv, NEW s \in Saves, DeleteSuperseded(s) \/ KeepSuperseded(s)
  PROVE  ArchiveInv'
<1>1. PICK pc \in {"done", "dropped"} :
        /\ save[s].pc = "delete" /\ save' = [save EXCEPT ![s].pc = pc]
        /\ UNCHANGED tables /\ rowLock' = rowLock /\ read' = read
        /\ \/ disk' = disk /\ pc = "dropped"
           \/ disk' = disk \ {save[s].old}
  BY DEF DeleteSuperseded, KeepSuperseded, SaveAt, SaveGoto
<1>2. /\ save'[s].pc = pc /\ save'[s].conv = save[s].conv /\ save'[s].old = save[s].old
      /\ save'[s].prev = save[s].prev /\ save'[s].rank = save[s].rank
      /\ save' \in [Saves -> Save] /\ \A t \in Saves : t # s => save'[t] = save[t]
  <2>1. save[s] \in Save /\ save \in [Saves -> Save] BY SaveTyped DEF ArchiveInv
  <2> DEFINE new == [save[s] EXCEPT !.pc = pc]
  <2>2. new \in Save BY <2>1 DEF Save, Committed
  <2>3. /\ new.pc = pc /\ new.conv = save[s].conv /\ new.old = save[s].old
        /\ new.prev = save[s].prev /\ new.rank = save[s].rank
    BY <2>1 DEF Save
  <2>4. save' = [save EXCEPT ![s] = new] BY <1>1, <2>1
  <2> HIDE DEF new
  <2> QED BY <2>1, <2>2, <2>3, <2>4
<1>3. After(s)
  BY <1>1, <1>2 DEF After
<1> QED BY <1>3, AfterStep

LEMMA ReadStepInv ==
  ASSUME ArchiveInv, NEW r \in Readers, ReadStep(r)
  PROVE  ArchiveInv'
<1>1. /\ row' = row /\ messages' = messages /\ entry' = entry /\ rowLock' = rowLock
      /\ disk' = disk /\ save' = save /\ platform' = platform
  BY DEF ReadStep, ReadRow, ReadMessages, tables
<1>2. (RowsInv /\ SavesInv /\ WorkInv /\ FilesInv)'
  <2>1. RowsInv'
    BY <1>1 DEF ArchiveInv, RowsInv, RowOk, MessagesOk, EntryOk, LinkedEntries
  <2>2. SavesInv'
    BY <1>1 DEF ArchiveInv, SavesInv, RankOk, OldOk, HistoryOk
  <2>3. WorkInv'
    <3>1. ASSUME NEW s \in Saves, LockOk(s), LinkOk(s) PROVE LockOk(s)' /\ LinkOk(s)'
      <4>1. LockOk(s)' BY <1>1, <3>1 DEF LockOk
      <4>2. LinkOk(s)' BY <1>1, <3>1 DEF LinkOk, LinkedEntries
      <4> QED BY <4>1, <4>2
    <3> QED BY <3>1 DEF ArchiveInv, WorkInv
  <2>4. FilesInv'
    BY <1>1 DEF ArchiveInv, FilesInv, OrphanOk, Replacer
  <2> QED BY <2>1, <2>2, <2>3, <2>4
<1>3. CASE \E c \in Convs : ReadRow(r, c)
  <2>1. PICK c \in Convs : ReadRow(r, c) BY <1>3
  <2>2. RowOk(c) /\ row[c] \in Saves /\ read[r].pc = "idle"
    BY <2>1, TablesTyped DEF ArchiveInv, RowsInv, ReadRow
  <2>3. /\ read'[r].pc = "meta" /\ read'[r].conv = c /\ read'[r].meta = row[c]
        /\ read' \in [Readers -> Read] /\ \A q \in Readers : q # r => read'[q] = read[q]
    BY <2>1, <2>2 DEF ReadRow, ArchiveInv, ArchiveTypeOK, Read
  <2>4. ReadOk(r)' BY <1>1, <2>2, <2>3, ArchiveAssumption DEF ReadOk, RowOk
  <2>5. \A q \in Readers : q # r => ReadOk(q)'
    BY <1>1, <2>3 DEF ArchiveInv, ReadsInv, ReadOk
  <2>6. ArchiveTypeOK' BY <1>1, <2>3 DEF ArchiveInv, ArchiveTypeOK
  <2> QED BY <1>2, <2>4, <2>5, <2>6 DEF ArchiveInv, ReadsInv
<1>4. CASE ReadMessages(r)
  <2>1. read[r].pc = "meta" /\ ReadOk(r) /\ read[r] \in Read
    BY <1>4 DEF ReadMessages, ArchiveInv, ReadsInv, ArchiveTypeOK
  <2>2. PICK c \in Convs : c = read[r].conv BY <2>1 DEF ReadOk
  <2>3. messages[c] \in SUBSET Saves /\ row[c] \in Saves \cup {Nothing}
    BY TablesTyped DEF ArchiveInv
  <2>4. /\ read'[r].pc = "done" /\ read'[r].conv = c /\ read'[r].meta = read[r].meta
        /\ read'[r].batch = messages[c]
        /\ read' \in [Readers -> Read] /\ \A q \in Readers : q # r => read'[q] = read[q]
    BY <1>4, <2>1, <2>2, <2>3 DEF ReadMessages, ArchiveInv, ArchiveTypeOK, Read
  <2>5. read[r].meta \in Saves /\ save[read[r].meta].conv = c /\ save[read[r].meta].pc \in Committed
    BY <2>1, <2>2 DEF ReadOk
  <2>6. RankOk(read[r].meta) /\ RowOk(c) /\ MessagesOk(c)
    BY <2>5 DEF ArchiveInv, SavesInv, RowsInv
  <2>7. row[c] # Nothing /\ save[read[r].meta].rank <= save[row[c]].rank
    BY <2>5, <2>6 DEF RankOk
  <2>8. messages[c] = {row[c]} /\ row[c] \in Saves /\ save[row[c]].pc \in Committed
    BY <2>3, <2>6, <2>7 DEF MessagesOk, RowOk
  <2>9. save[row[c]].rank >= save[read[r].meta].rank
    BY <2>5, <2>7, <2>8, SaveTyped DEF ArchiveInv
  <2>10. ReadOk(r)' BY <1>1, <2>2, <2>4, <2>5, <2>8, <2>9 DEF ReadOk
  <2>11. \A q \in Readers : q # r => ReadOk(q)'
    BY <1>1, <2>4 DEF ArchiveInv, ReadsInv, ReadOk
  <2>12. ArchiveTypeOK' BY <1>1, <2>4 DEF ArchiveInv, ArchiveTypeOK
  <2> QED BY <1>2, <2>10, <2>11, <2>12 DEF ArchiveInv, ReadsInv
<1> QED BY <1>3, <1>4 DEF ReadStep

---------------------------------------------------------------------------
(* The commit                                                              *)

(* What a commit of s to title c, which was of save o, does.               *)
Commits(s, c, o) ==
  /\ save[s].pc = "commit" /\ save[s].conv = c /\ row[c] = o
  /\ row'[c] = s /\ \A d \in Convs : d # c => row'[d] = row[d]
  /\ messages'[c] = {s} /\ \A d \in Convs : d # c => messages'[d] = messages[d]
  /\ entry'[save[s].link] = s /\ \A e \in Saves : e # save[s].link => entry'[e] = entry[e]
  /\ disk' = disk /\ read' = read
  /\ \A d \in Convs : rowLock[d] # s => rowLock'[d] = rowLock[d]
  /\ save' \in [Saves -> Save] /\ \A t \in Saves : t # s => save'[t] = save[t]
  /\ save'[s].pc \in Committed /\ save'[s].conv = c /\ save'[s].old = save[s].old
  /\ save'[s].prev = o
  /\ save'[s].rank = IF o = Nothing THEN 1 ELSE save[o].rank + 1
  /\ save'[s].pc = "done" => ~Supersedes(s)

LEMMA CommitEffect ==
  ASSUME ArchiveInv, NEW s \in Saves, NEW heard \in BOOLEAN, CommitSave(s, heard)
  PROVE  /\ save[s].conv \in Convs /\ Commits(s, save[s].conv, row[save[s].conv])
         /\ ArchiveTypeOK'
<1> DEFINE c == save[s].conv
<1>1. /\ save[s].pc = "commit" /\ save[s].pc \in Open
      /\ row' = [row EXCEPT ![c] = s]
      /\ platform' = [platform EXCEPT ![c] = IF save[s].pid = Nothing THEN platform[c] ELSE save[s].pid]
      /\ messages' = [messages EXCEPT ![c] = (messages[c] \ save[s].seen) \cup {s}]
      /\ entry' = [entry EXCEPT ![save[s].link] = s]
      /\ rowLock' = [d \in Convs |-> IF rowLock[d] = s THEN Nothing ELSE rowLock[d]]
      /\ disk' = disk /\ read' = read
  BY DEF CommitSave, SaveAt, Unlock, Open
<1>2. c \in Convs /\ LockOk(s) /\ LinkOk(s)
  BY <1>1, UnderLock
<1>3. row[c] \in Saves \cup {Nothing} /\ messages[c] \in SUBSET Saves
  BY <1>2, TablesTyped DEF ArchiveInv
<1>4. save[s].seen = messages[c] BY <1>1, <1>2 DEF LockOk
<1>5. save[s].link \in Saves BY <1>1, <1>2 DEF LinkOk, LinkedEntries
<1>6. PICK pc \in {"dropped", "delete", "done"}, rank \in Nat :
        /\ save' = [save EXCEPT ![s].pc = pc, ![s].prev = row[c], ![s].rank = rank]
        /\ pc = "done" => ~Supersedes(s)
        /\ rank = IF row[c] = Nothing THEN 1 ELSE save[row[c]].rank + 1
  <2> DEFINE pc == CASE ~heard -> "dropped"
                     [] heard /\ Supersedes(s) -> "delete"
                     [] OTHER -> "done"
  <2> DEFINE rank == IF row[c] = Nothing THEN 1 ELSE save[row[c]].rank + 1
  <2>1. pc \in {"dropped", "delete", "done"} /\ (pc = "done" => ~Supersedes(s))
    OBVIOUS
  <2>2. rank \in Nat
    BY <1>3, SaveTyped DEF ArchiveInv
  <2>3. save' = [save EXCEPT ![s].pc = pc, ![s].prev = row[c], ![s].rank = rank]
    BY DEF CommitSave
  <2> HIDE DEF pc, rank
  <2>4. rank = IF row[c] = Nothing THEN 1 ELSE save[row[c]].rank + 1
    BY DEF rank
  <2> QED BY <2>1, <2>2, <2>3, <2>4
<1>7. /\ save'[s].pc = pc /\ save'[s].conv = c /\ save'[s].old = save[s].old
      /\ save'[s].prev = row[c] /\ save'[s].rank = rank
      /\ save' \in [Saves -> Save] /\ \A t \in Saves : t # s => save'[t] = save[t]
  <2>1. save[s] \in Save /\ save \in [Saves -> Save] BY SaveTyped DEF ArchiveInv
  <2> DEFINE new == [save[s] EXCEPT !.pc = pc, !.prev = row[c], !.rank = rank]
  <2>2. new \in Save BY <1>3, <2>1 DEF Save, Committed
  <2>3. /\ new.pc = pc /\ new.conv = c /\ new.old = save[s].old
        /\ new.prev = row[c] /\ new.rank = rank
    BY <2>1 DEF Save
  <2>4. save' = [save EXCEPT ![s] = new] BY <1>6, <2>1
  <2> HIDE DEF new, c
  <2> QED BY <2>1, <2>2, <2>3, <2>4
<1>8. /\ row' \in [Convs -> Saves \cup {Nothing}] /\ messages' \in [Convs -> SUBSET Saves]
      /\ entry' \in [Saves -> Saves \cup {Nothing}]
      /\ rowLock' \in [Convs -> Saves \cup {Nothing}]
      /\ platform' \in [Convs -> Pids \cup {Nothing}]
  <2>1. save[s].pid \in Pids \cup {Nothing} BY DEF ArchiveInv, ArchiveTypeOK, Save
  <2> QED BY <1>1, <1>2, <1>3, <2>1 DEF ArchiveInv, ArchiveTypeOK
<1>9. ArchiveTypeOK'
  BY <1>1, <1>7, <1>8 DEF ArchiveInv, ArchiveTypeOK
<1>10. /\ row'[c] = s /\ \A d \in Convs : d # c => row'[d] = row[d]
       /\ messages'[c] = {s} /\ \A d \in Convs : d # c => messages'[d] = messages[d]
       /\ entry'[save[s].link] = s /\ \A e \in Saves : e # save[s].link => entry'[e] = entry[e]
       /\ \A d \in Convs : rowLock[d] # s => rowLock'[d] = rowLock[d]
  BY <1>1, <1>2, <1>4, <1>5 DEF ArchiveInv, ArchiveTypeOK
<1> QED BY <1>1, <1>2, <1>6, <1>7, <1>9, <1>10 DEF Commits, Committed

(* What holds before a commit: s is no row yet and has the row lock.       *)
LEMMA CommitReady ==
  ASSUME ArchiveInv, NEW s \in Saves, NEW c \in Convs, NEW o, Commits(s, c, o)
  PROVE  /\ LockOk(s) /\ OldOk(s) /\ LinkOk(s) /\ HistoryOk(s) /\ s \in disk /\ s # Nothing
         /\ save[s].pc \in Open /\ save[s].pc \notin Committed
         /\ rowLock[c] = s /\ save[s].isUpdate = (o # Nothing)
         /\ o \in Saves \cup {Nothing} /\ o # s
         /\ \A d \in Convs : row[d] # s
         /\ \A t \in Saves : save[t].pc \in Committed => t # s /\ save'[t] = save[t]
         /\ \A t \in Saves : save'[t].conv = save[t].conv
<1>1. save[s].pc \in Open /\ save[s].pc \notin Committed /\ s # Nothing
  BY ArchiveAssumption DEF Commits, Open, Committed
<1>2. LockOk(s) /\ OldOk(s) /\ LinkOk(s) /\ HistoryOk(s) /\ s \in disk
  BY <1>1, UnderLock DEF ArchiveInv, SavesInv
<1>3. \A d \in Convs : row[d] # s
  BY <1>1 DEF ArchiveInv, RowsInv, RowOk
<1>4. o \in Saves \cup {Nothing} /\ o # s
  BY <1>3, TablesTyped DEF ArchiveInv, Commits
<1>5. rowLock[c] = s /\ save[s].isUpdate = (o # Nothing)
  BY <1>1, <1>2 DEF LockOk, Commits
<1>6. \A t \in Saves : save[t].pc \in Committed => t # s /\ save'[t] = save[t]
  BY <1>1 DEF Commits
<1>7. \A t \in Saves : save'[t].conv = save[t].conv
  BY DEF Commits
<1> QED BY <1>1, <1>2, <1>3, <1>4, <1>5, <1>6, <1>7

(* The linked entry was the title's only one, or there was none.           *)
LEMMA CommitLinked ==
  ASSUME ArchiveInv, NEW s \in Saves, NEW c \in Convs, NEW o, Commits(s, c, o)
  PROVE  /\ save[s].link \in Saves /\ LinkedEntries(c)' = {save[s].link}
         /\ \A d \in Convs : d # c => LinkedEntries(d)' = LinkedEntries(d)
         /\ save[s].link = s \/ save[save[s].link].pc \in Committed
<1>1. EntryOk(c) /\ LinkOk(s) /\ save[s].pc = "commit" /\ save[s].conv = c /\ row[c] = o
  BY CommitReady DEF ArchiveInv, RowsInv, Commits
<1>2. PICK l \in Saves : l = save[s].link
  BY <1>1 DEF LinkOk, LinkedEntries
<1>3. CASE LinkedEntries(c) = {}
  <2>1. l = s BY <1>1, <1>2, <1>3 DEF LinkOk
  <2>2. \A e \in Saves : (entry'[e] # Nothing /\ save'[e].conv = c) <=> e = s
    <3>1. \A e \in Saves : ~(entry[e] # Nothing /\ save[e].conv = c)
      BY <1>3 DEF LinkedEntries
    <3>2. entry'[s] = s /\ \A e \in Saves : e # s => entry'[e] = entry[e]
      BY <1>2, <2>1 DEF Commits
    <3>3. s # Nothing /\ save[s].conv = c /\ \A e \in Saves : save'[e].conv = save[e].conv
      BY <1>1, CommitReady
    <3> QED BY <3>1, <3>2, <3>3
  <2>3. LinkedEntries(c)' = {l} BY <2>1, <2>2 DEF LinkedEntries
  <2>4. \A d \in Convs : d # c => LinkedEntries(d)' = LinkedEntries(d)
    <3>1. \A e \in Saves, d \in Convs : d # c =>
            ((entry'[e] # Nothing /\ save'[e].conv = d) <=> (entry[e] # Nothing /\ save[e].conv = d))
      BY <1>1, <1>2, <2>1, CommitReady DEF Commits
    <3> QED BY <3>1 DEF LinkedEntries
  <2> QED BY <1>2, <2>1, <2>3, <2>4
<1>4. CASE LinkedEntries(c) # {}
  <2>1. l \in LinkedEntries(c) BY <1>1, <1>2, <1>4 DEF LinkOk
  <2>2. LinkedEntries(c) = {l} /\ entry[l] # Nothing /\ save[l].conv = c
    BY <1>1, <1>4, <2>1 DEF EntryOk, LinkedEntries
  <2>3. \A e \in Saves : (entry'[e] # Nothing /\ save'[e].conv = c) <=> e = l
    BY <1>2, <2>2, CommitReady DEF LinkedEntries, Commits
  <2>4. LinkedEntries(c)' = {l} BY <2>3 DEF LinkedEntries
  <2>5. \A d \in Convs : d # c => LinkedEntries(d)' = LinkedEntries(d)
    <3>1. \A e \in Saves, d \in Convs : d # c =>
            ((entry'[e] # Nothing /\ save'[e].conv = d) <=> (entry[e] # Nothing /\ save[e].conv = d))
      BY <1>2, <2>2, CommitReady DEF Commits
    <3> QED BY <3>1 DEF LinkedEntries
  <2>6. save[l].pc \in Committed
    BY <2>2 DEF ArchiveInv, SavesInv, HistoryOk
  <2> QED BY <1>2, <2>4, <2>5, <2>6
<1> QED BY <1>3, <1>4

LEMMA CommitRows ==
  ASSUME ArchiveInv, NEW s \in Saves, NEW c \in Convs, NEW o, Commits(s, c, o)
  PROVE  RowsInv'
<1> SUFFICES ASSUME NEW d \in Convs PROVE (RowOk(d) /\ MessagesOk(d) /\ EntryOk(d))'
  BY DEF RowsInv
<1>1. RowOk(d) /\ MessagesOk(d) /\ EntryOk(d) /\ row[d] \in Saves \cup {Nothing}
  BY TablesTyped DEF ArchiveInv, RowsInv
<1>2. CASE d = c
  <2>1. /\ row'[d] = s /\ messages'[d] = {s} /\ disk' = disk /\ save'[s].conv = d
        /\ save'[s].pc \in Committed /\ entry'[save[s].link] = s /\ s \in disk /\ s # Nothing
    BY <1>2, CommitReady DEF Commits
  <2>2. save[s].link \in Saves /\ LinkedEntries(d)' = {save[s].link}
    BY <1>2, CommitLinked
  <2>3. RowOk(d)' /\ MessagesOk(d)' BY <2>1 DEF RowOk, MessagesOk
  <2>4. EntryOk(d)' BY <2>1, <2>2 DEF EntryOk
  <2> QED BY <2>3, <2>4
<1>3. CASE d # c
  <2>1. row'[d] = row[d] /\ messages'[d] = messages[d] /\ disk' = disk
    BY <1>3 DEF Commits
  <2>2. RowOk(d)' BY <1>1, <2>1, CommitReady DEF RowOk
  <2>3. MessagesOk(d)' BY <1>1, <2>1 DEF MessagesOk
  <2>4. LinkedEntries(d)' = LinkedEntries(d) /\ save[s].link \in Saves BY <1>3, CommitLinked
  <2>5. \A e \in LinkedEntries(d) : entry'[e] = entry[e]
    <3>1. save[s].link \in LinkedEntries(c)' BY CommitLinked
    <3>2. save'[save[s].link].conv = c BY <3>1 DEF LinkedEntries
    <3>3. save[save[s].link].conv = c BY <2>4, <3>2, CommitReady
    <3> QED BY <1>3, <3>3 DEF LinkedEntries, Commits
  <2>6. EntryOk(d)' BY <1>1, <2>1, <2>4, <2>5 DEF EntryOk
  <2> QED BY <2>2, <2>3, <2>6
<1> QED BY <1>2, <1>3

(* The new row has a higher rank than every earlier save of the title.     *)
LEMMA CommitSaves ==
  ASSUME ArchiveInv, NEW s \in Saves, NEW c \in Convs, NEW o, Commits(s, c, o)
  PROVE  SavesInv'
<1> SUFFICES ASSUME NEW t \in Saves PROVE (RankOk(t) /\ OldOk(t) /\ HistoryOk(t))'
  BY DEF SavesInv
<1>1. RankOk(t) /\ OldOk(t) /\ HistoryOk(t) /\ OldOk(s)
  BY DEF ArchiveInv, SavesInv
<1>2. /\ \A q \in Saves : save[q].rank \in Nat /\ save[q].old \in Saves \cup {Nothing}
      /\ \A d \in Convs : row[d] \in Saves \cup {Nothing}
  BY SaveTyped, TablesTyped DEF ArchiveInv
<1>3. /\ save[s].conv = c /\ save'[s].conv = c /\ row'[c] = s /\ row[c] = o
      /\ save'[s].old = save[s].old /\ save'[s].pc \in Committed
      /\ save'[s].rank = IF o = Nothing THEN 1 ELSE save[o].rank + 1
      /\ disk' = disk /\ save[s].pc \in InFlight
  BY CommitReady, PcSets DEF Commits
<1>4. \A q \in Saves : save[q].pc \in Committed /\ save[q].conv = c => save[q].rank < save'[s].rank
  <2> SUFFICES ASSUME NEW q \in Saves, save[q].pc \in Committed, save[q].conv = c
               PROVE save[q].rank < save'[s].rank
    OBVIOUS
  <2>1. row[c] # Nothing /\ save[q].rank <= save[row[c]].rank
    BY DEF ArchiveInv, SavesInv, RankOk
  <2> QED BY <1>2, <1>3, <2>1
<1>5. save[s].old # Nothing => /\ save[save[s].old].pc \in Committed
                               /\ save[save[s].old].conv = c
  BY <1>1, <1>3 DEF OldOk
<1>6. save'[s].rank \in Nat /\ s # Nothing BY <1>2, <1>3, CommitReady
<1>7. CASE t = s
  <2>1. save[s].old # Nothing => /\ save'[save[s].old] = save[save[s].old]
                                 /\ save[save[s].old].rank < save'[s].rank
    BY <1>2, <1>4, <1>5, CommitReady
  <2>2. RankOk(t)'
    BY <1>3, <1>6, <1>7, <2>1 DEF RankOk
  <2>3. OldOk(t)' BY <1>3, <1>5, <1>7, <2>1 DEF OldOk
  <2>4. HistoryOk(t)' BY <1>3, <1>7, PcSets DEF HistoryOk
  <2> QED BY <2>2, <2>3, <2>4
<1>8. CASE t # s
  <2>1. save'[t] = save[t] BY <1>8 DEF Commits
  <2>2. save[t].pc \in InFlight \cup Committed /\ save[t].old # Nothing =>
          save'[save[t].old] = save[save[t].old]
    BY <1>1, <1>2, CommitReady DEF OldOk
  <2>3. OldOk(t)' BY <1>1, <2>1, <2>2 DEF OldOk
  <2>4. save[t].pc \in Committed => save[t].conv \in Convs
    BY <1>1 DEF HistoryOk, Committed
  <2>5. RankOk(t)'
    <3> SUFFICES ASSUME save[t].pc \in Committed PROVE RankOk(t)'
      BY <2>1 DEF RankOk
    <3>1. save[t].old # Nothing => save'[save[t].old].rank < save'[t].rank
      BY <1>1, <2>1, <2>2 DEF RankOk
    <3>2. CASE save[t].conv = c
      <4>1. save[t].rank <= save'[s].rank BY <1>2, <1>4, <1>6, <3>2
      <4> QED BY <1>3, <1>6, <2>1, <3>1, <3>2, <4>1 DEF RankOk
    <3>3. CASE save[t].conv # c
      <4>1. PICK d \in Convs : d = save[t].conv BY <2>4
      <4>2. row'[d] = row[d] /\ row[d] # s BY <3>3, <4>1, CommitReady DEF Commits
      <4>3. row[d] # Nothing /\ save[t].rank <= save[row[d]].rank
        BY <1>1, <4>1 DEF RankOk
      <4>4. save'[row[d]] = save[row[d]]
        BY <1>2, <4>2, <4>3 DEF Commits
      <4> QED BY <2>1, <3>1, <4>1, <4>2, <4>3, <4>4 DEF RankOk
    <3> QED BY <3>2, <3>3
  <2>6. HistoryOk(t)'
    <3>1. save[t].pc \notin Committed => t # save[s].link
      BY <1>8, CommitLinked
    <3> QED BY <1>1, <1>3, <2>1, <3>1 DEF HistoryOk, Commits
  <2> QED BY <2>3, <2>5, <2>6
<1> QED BY <1>7, <1>8

(* No other save has a lock on the title, so none has looked at its rows.  *)
LEMMA CommitWork ==
  ASSUME ArchiveInv, NEW s \in Saves, NEW c \in Convs, NEW o, Commits(s, c, o)
  PROVE  WorkInv'
<1> SUFFICES ASSUME NEW t \in Saves PROVE LockOk(t)' /\ LinkOk(t)'
  BY DEF WorkInv
<1>1. CASE save'[t].pc \notin Open
  <2>1. LockOk(t)' BY <1>1 DEF LockOk
  <2>2. LinkOk(t)' BY <1>1 DEF LinkOk, Open
  <2> QED BY <2>1, <2>2
<1>2. CASE save'[t].pc \in Open
  <2>1. t # s
    BY <1>2, PcSets DEF Commits
  <2>2. save'[t] = save[t] /\ save[t].pc \in Open BY <1>2, <2>1 DEF Commits
  <2>3. LockOk(t) /\ LinkOk(t) /\ HistoryOk(t) BY DEF ArchiveInv, WorkInv, SavesInv
  <2>4. PICK d \in Convs : d = save[t].conv
    BY <2>2, UnderLock
  <2>5. rowLock[d] = t /\ d # c
    BY <2>1, <2>2, <2>3, <2>4, CommitReady DEF LockOk
  <2>6. row'[d] = row[d] /\ messages'[d] = messages[d] /\ rowLock'[d] = t
    BY <2>1, <2>5 DEF Commits
  <2>7. LockOk(t)' BY <2>2, <2>3, <2>4, <2>6 DEF LockOk
  <2>8. LinkedEntries(d)' = LinkedEntries(d) BY <2>5, CommitLinked
  <2>9. LinkedEntries(d)' = {e \in Saves : entry'[e] # Nothing /\ save'[e].conv = d}
    BY DEF LinkedEntries
  <2>10. save[t].pc \in {"platform", "commit"} =>
           save[t].link \in IF LinkedEntries(d) = {} THEN {t} ELSE LinkedEntries(d)
    BY <2>3, <2>4 DEF LinkOk
  <2>11. LinkOk(t)' BY <2>2, <2>4, <2>8, <2>9, <2>10 DEF LinkOk, LinkedEntries
  <2> QED BY <2>7, <2>11
<1> QED BY <1>1, <1>2

(* The file of the old row is explained by the save that replaced it.      *)
LEMMA CommitFiles ==
  ASSUME ArchiveInv, NEW s \in Saves, NEW c \in Convs, NEW o, Commits(s, c, o)
  PROVE  FilesInv' /\ ReadsInv'
<1>1. ASSUME NEW f \in Saves, f \in disk' PROVE OrphanOk(f)'
  <2>1. OrphanOk(f) /\ f \in disk BY <1>1 DEF ArchiveInv, FilesInv, Commits
  <2>2. CASE f = s BY <2>2 DEF OrphanOk, Commits
  <2>3. CASE f # s /\ f = o
    <3>1. save'[s].pc # "done" => save'[s].pc \in {"delete", "dropped"}
      BY DEF Commits, Committed
    <3>2. save'[s].pc = "done" => save'[s].old # f
      <4>1. o # Nothing BY <2>3, ArchiveAssumption
      <4>2. save[s].isUpdate = (o # Nothing) BY CommitReady
      <4>3. Supersedes(s) <=> save[s].old \notin {Nothing, s}
        BY <4>1, <4>2, Zenon DEF Supersedes
      <4>4. save'[s].pc = "done" => save[s].old \in {Nothing, s}
        BY <4>3 DEF Commits
      <4>5. save'[s].old = save[s].old BY DEF Commits
      <4> QED BY <2>3, <4>1, <4>4, <4>5
    <3>3. save'[s].prev = f BY <2>3 DEF Commits
    <3>4. Replacer(s, f)' BY <3>1, <3>2, <3>3 DEF Replacer
    <3> QED BY <3>4 DEF OrphanOk
  <2>4. CASE f # s /\ f # o
    <3>1. CASE \E d \in Convs : row[d] = f
      BY <2>4, <3>1 DEF OrphanOk, Commits
    <3>2. CASE save[f].pc \in InFlight \cup {"failed"}
      BY <2>4, <3>2 DEF OrphanOk, Commits
    <3>3. ASSUME NEW q \in Saves, Replacer(q, f) PROVE Replacer(q, f)'
      <4>1. q # s
        BY <3>3, CommitReady, ArchiveAssumption DEF Replacer, HistoryOk
      <4> QED BY <3>3, <4>1 DEF Replacer, Commits
    <3> QED BY <2>1, <3>1, <3>2, <3>3 DEF OrphanOk
  <2> QED BY <2>2, <2>3, <2>4
<1>2. ASSUME NEW r \in Readers PROVE ReadOk(r)'
  <2>1. ReadOk(r) /\ read' = read BY DEF ArchiveInv, ReadsInv, Commits
  <2> QED BY <2>1, CommitReady DEF ReadOk
<1>3. FilesInv' BY <1>1 DEF FilesInv, OrphanOk
<1> QED BY <1>2, <1>3 DEF ReadsInv

LEMMA CommitSaveStep ==
  ASSUME ArchiveInv, NEW s \in Saves, NEW heard \in BOOLEAN, CommitSave(s, heard)
  PROVE  ArchiveInv'
<1>1. PICK c \in Convs, o \in Saves \cup {Nothing} : Commits(s, c, o) /\ ArchiveTypeOK'
  <2>1. \A c \in Convs : row[c] \in Saves \cup {Nothing} BY DEF ArchiveInv, ArchiveTypeOK
  <2> QED BY <2>1, CommitEffect
<1> QED BY <1>1, CommitRows, CommitSaves, CommitWork, CommitFiles DEF ArchiveInv

---------------------------------------------------------------------------
LEMMA ArchiveStep == ArchiveInv /\ [ArchiveNext]_archiveVars => ArchiveInv'
<1> SUFFICES ASSUME ArchiveInv, [ArchiveNext]_archiveVars PROVE ArchiveInv'
  OBVIOUS
<1>1. CASE UNCHANGED archiveVars
  <2>1. /\ row' = row /\ messages' = messages /\ entry' = entry /\ rowLock' = rowLock
        /\ disk' = disk /\ save' = save /\ platform' = platform /\ read' = read
    BY <1>1 DEF archiveVars
  <2>2. ArchiveTypeOK' BY <2>1 DEF ArchiveInv, ArchiveTypeOK
  <2>3. RowsInv'
    BY <2>1 DEF ArchiveInv, RowsInv, RowOk, MessagesOk, EntryOk, LinkedEntries
  <2>4. SavesInv'
    BY <2>1 DEF ArchiveInv, SavesInv, RankOk, OldOk, HistoryOk
  <2>5. ASSUME NEW s \in Saves, LockOk(s), LinkOk(s) PROVE LockOk(s)' /\ LinkOk(s)'
    <3>1. LockOk(s)' BY <2>1, <2>5 DEF LockOk
    <3>2. LinkOk(s)' BY <2>1, <2>5 DEF LinkOk, LinkedEntries
    <3> QED BY <3>1, <3>2
  <2>6. WorkInv' BY <2>5 DEF ArchiveInv, WorkInv
  <2>7. FilesInv'
    BY <2>1 DEF ArchiveInv, FilesInv, OrphanOk, Replacer
  <2>8. ReadsInv'
    BY <2>1 DEF ArchiveInv, ReadsInv, ReadOk
  <2> QED BY <2>2, <2>3, <2>4, <2>6, <2>7, <2>8 DEF ArchiveInv
<1>2. ASSUME NEW s \in Saves, SaveStep(s) PROVE ArchiveInv'
  BY <1>2, StartSaveStep, PrepareFileStep, UpsertRowStep, RewriteMessagesStep, UpsertLinkedStep,
     SetPlatformStep, CommitSaveStep, FailSaveStep, SupersededStep
     DEF SaveStep
<1> QED BY <1>1, <1>2, ReadStepInv DEF ArchiveNext

---------------------------------------------------------------------------
(* ArchiveInv holds in every reachable state.                              *)
THEOREM ArchiveInvariant == ArchiveSpec => []ArchiveInv
BY ArchiveInitInv, ArchiveStep, PTL DEF ArchiveSpec

(* Every row has its file, and every file without a row has a cause        *)
(* (storage/repositories/conversations.py), for any number of overlapping  *)
(* saves of any number of titles.                                          *)
THEOREM FilesMatch == ArchiveSpec => []FilesMatchRows
<1>1. ArchiveInv => FilesMatchRows
  BY DEF ArchiveInv, RowsInv, FilesInv, FilesMatchRows, RowFileKept, OrphansExplained,
         RowOk, OrphanOk, ArchiveTypeOK
<1> QED BY <1>1, ArchiveInvariant, PTL

(* Row, messages and linked entry are of one save, and so is what a reader *)
(* gets, however saves and reads overlap.                                  *)
THEOREM OneSave == ArchiveSpec => []OneSaveThroughout
<1>1. ASSUME ArchiveInv PROVE OneSavePerRow
  <2>1. \A c \in Convs : row[c] # Nothing => EntryOk(c) /\ MessagesOk(c)
    BY <1>1 DEF ArchiveInv, RowsInv
  <2> QED BY <2>1 DEF OneSavePerRow, EntryOk, MessagesOk
<1>2. ASSUME ArchiveInv PROVE ReadsOneBatch
  BY <1>2 DEF ArchiveInv, ReadsInv, ReadOk, ReadsOneBatch
<1>3. ArchiveInv => OneSaveThroughout
  BY <1>1, <1>2 DEF OneSaveThroughout
<1> QED BY <1>3, ArchiveInvariant, PTL

---------------------------------------------------------------------------
(* ConversationArchive implements SavedConversations: the transaction, its *)
(* locks, its failures and the clean-up of files are invisible in the      *)
(* tables but for the commit.                                              *)

\* A save that is about to commit has its platform id to itself
\* (idx_conv_platform_dedup).
PidsInv == \A s \in Saves : SaveAt(s, "commit") /\ save[s].pid # Nothing =>
                              PidFree(s) /\ ~PidAwaited(s)
PlatformIdsUnique ==
  \A c, d \in Convs : platform[c] # Nothing /\ platform[c] = platform[d] => c = d
SavedInv == ArchiveInv /\ PidsInv /\ PlatformIdsUnique

QuietStep(s) ==
  \/ \E c \in Convs, p \in Pids \cup {Nothing} : StartSave(s, c, p)
  \/ PrepareFile(s) \/ UpsertRow(s) \/ RewriteMessages(s) \/ UpsertLinked(s) \/ SetPlatform(s)
  \/ FailSave(s) \/ DeleteSuperseded(s) \/ KeepSuperseded(s)

(* Whatever a step of a save does to its record, it does to no other.      *)
LEMMA SaveUpdate ==
  ASSUME ArchiveTypeOK, NEW s \in Saves, NEW new, save' = [save EXCEPT ![s] = new]
  PROVE  save'[s] = new /\ \A t \in Saves : t # s => save'[t] = save[t]
BY SaveTyped

(* Every step of a save but its commit: the tables stay, no save becomes   *)
(* or ceases to be committed, and only SetPlatform lets one that has a     *)
(* platform id go to its commit.                                           *)
LEMMA QuietEffect ==
  ASSUME ArchiveTypeOK, NEW s \in Saves, QuietStep(s)
  PROVE  /\ row' = row /\ messages' = messages /\ platform' = platform /\ read' = read
         /\ \A t \in Saves : t # s => save'[t] = save[t]
         /\ save[s].pc \in Committed <=> save'[s].pc \in Committed
         /\ \/ save'[s].pc # "commit" \/ save'[s].pid = Nothing
            \/ SetPlatform(s) /\ save'[s].pid = save[s].pid /\ save'[s].conv = save[s].conv
<1>0. save[s] \in Save
  BY SaveTyped
<1>1. ASSUME NEW c \in Convs, NEW p \in Pids \cup {Nothing}, StartSave(s, c, p)
      PROVE  /\ row' = row /\ messages' = messages /\ platform' = platform /\ read' = read
             /\ \A t \in Saves : t # s => save'[t] = save[t]
             /\ save[s].pc \notin Committed /\ save'[s].pc \notin Committed
             /\ save'[s].pc # "commit"
  <2>1. PICK pc \in {"skipped", "prepare"} :
          save' = [save EXCEPT ![s] = [save[s] EXCEPT !.pc = pc, !.conv = c, !.pid = p]]
    BY <1>1 DEF StartSave
  <2> DEFINE new == [save[s] EXCEPT !.pc = pc, !.conv = c, !.pid = p]
  <2>2. new.pc = pc /\ save' = [save EXCEPT ![s] = new]
    BY <1>0, <2>1 DEF Save
  <2> HIDE DEF new
  <2>3. save'[s].pc = pc /\ \A t \in Saves : t # s => save'[t] = save[t]
    BY <2>2, SaveUpdate
  <2> QED BY <1>1, <2>3 DEF StartSave, tables, SaveAt, Committed
<1>2. ASSUME PrepareFile(s) \/ UpsertRow(s) \/ RewriteMessages(s)
      PROVE  /\ row' = row /\ messages' = messages /\ platform' = platform /\ read' = read
             /\ \A t \in Saves : t # s => save'[t] = save[t]
             /\ save[s].pc \notin Committed /\ save'[s].pc \notin Committed
             /\ save'[s].pc # "commit"
  <2>1. /\ UNCHANGED tables /\ read' = read
        /\ save[s].pc \in {"prepare", "upsert", "messages"}
        /\ \E new : save' = [save EXCEPT ![s] = new] /\ new.pc \in {"upsert", "messages", "linked"}
    <3>1. CASE PrepareFile(s)
      <4> DEFINE new == [save[s] EXCEPT !.old = row[save[s].conv], !.pc = "upsert"]
      <4>1. save' = [save EXCEPT ![s] = new] /\ new.pc = "upsert"
        BY <1>0, <3>1 DEF PrepareFile, Save
      <4> QED BY <3>1, <4>1 DEF PrepareFile, SaveAt
    <3>2. CASE UpsertRow(s)
      <4> DEFINE new == [save[s] EXCEPT !.isUpdate = row[save[s].conv] # Nothing, !.pc = "messages"]
      <4>1. save' = [save EXCEPT ![s] = new] /\ new.pc = "messages"
        BY <1>0, <3>2 DEF UpsertRow, Save
      <4> QED BY <3>2, <4>1 DEF UpsertRow, SaveAt
    <3>3. CASE RewriteMessages(s)
      <4> DEFINE new == [save[s] EXCEPT !.seen = messages[save[s].conv], !.pc = "linked"]
      <4>1. save' = [save EXCEPT ![s] = new] /\ new.pc = "linked"
        BY <1>0, <3>3 DEF RewriteMessages, Save
      <4> QED BY <3>3, <4>1 DEF RewriteMessages, SaveAt
    <3> QED BY <1>2, <3>1, <3>2, <3>3
  <2> QED BY <2>1, SaveUpdate DEF tables, Committed
<1>3. ASSUME UpsertLinked(s)
      PROVE  /\ row' = row /\ messages' = messages /\ platform' = platform /\ read' = read
             /\ \A t \in Saves : t # s => save'[t] = save[t]
             /\ save[s].pc \notin Committed /\ save'[s].pc \notin Committed
             /\ save'[s].pc # "commit" \/ save'[s].pid = Nothing
  <2>1. PICK e : save' = [save EXCEPT ![s] = [save[s] EXCEPT !.link = e,
                            !.pc = IF save[s].pid = Nothing THEN "commit" ELSE "platform"]]
    BY <1>3 DEF UpsertLinked
  <2> DEFINE new == [save[s] EXCEPT !.link = e,
                       !.pc = IF save[s].pid = Nothing THEN "commit" ELSE "platform"]
  <2>2. /\ save' = [save EXCEPT ![s] = new] /\ new.pid = save[s].pid
        /\ new.pc = IF save[s].pid = Nothing THEN "commit" ELSE "platform"
    BY <1>0, <2>1 DEF Save
  <2> HIDE DEF new
  <2>3. save'[s] = new /\ \A t \in Saves : t # s => save'[t] = save[t]
    BY <2>2, SaveUpdate
  <2> QED BY <1>3, <2>2, <2>3 DEF UpsertLinked, tables, SaveAt, Committed
<1>4. ASSUME NEW pc, SaveGoto(s, pc)
      PROVE  /\ \A t \in Saves : t # s => save'[t] = save[t]
             /\ save'[s].pc = pc /\ save'[s].pid = save[s].pid /\ save'[s].conv = save[s].conv
  <2> DEFINE new == [save[s] EXCEPT !.pc = pc]
  <2>1. /\ save' = [save EXCEPT ![s] = new]
        /\ new.pc = pc /\ new.pid = save[s].pid /\ new.conv = save[s].conv
    BY <1>0, <1>4 DEF SaveGoto, Save
  <2> HIDE DEF new
  <2> QED BY <2>1, SaveUpdate
<1>5. CASE SetPlatform(s)
  BY <1>4, <1>5 DEF SetPlatform, tables, SaveAt, Committed
<1>6. CASE FailSave(s) \/ DeleteSuperseded(s) \/ KeepSuperseded(s)
  BY <1>4, <1>6 DEF FailSave, DeleteSuperseded, KeepSuperseded, tables, SaveAt, Committed,
                    InFlight, Open
<1> QED BY <1>1, <1>2, <1>3, <1>5, <1>6 DEF QuietStep

LEMMA PidsQuiet ==
  ASSUME SavedInv, NEW s \in Saves, QuietStep(s)
  PROVE  PidsInv' /\ PlatformIdsUnique'
<1>0. ArchiveTypeOK
  BY DEF SavedInv, ArchiveInv
<1>1. /\ platform' = platform /\ \A t \in Saves : t # s => save'[t] = save[t]
      /\ \/ save'[s].pc # "commit" \/ save'[s].pid = Nothing
         \/ SetPlatform(s) /\ save'[s].pid = save[s].pid /\ save'[s].conv = save[s].conv
  BY <1>0, QuietEffect
<1>2. PlatformIdsUnique'
  BY <1>1 DEF SavedInv, PlatformIdsUnique
<1>3. ASSUME NEW t \in Saves, SaveAt(t, "commit")', save'[t].pid # Nothing
      PROVE  (PidFree(t) /\ ~PidAwaited(t))'
  <2>1. CASE t # s
    <3>1. save'[t] = save[t] /\ PidFree(t) /\ ~PidAwaited(t)
      BY <1>1, <1>3, <2>1 DEF SaveAt, SavedInv, PidsInv
    <3>2. PidFree(t)'
      BY <1>1, <3>1 DEF PidFree
    <3>3. ASSUME save'[s].pc = "commit", save'[s].pid = save'[t].pid PROVE FALSE
      <4>1. SetPlatform(s) /\ save'[s].pid = save[s].pid
        BY <1>1, <1>3, <3>3
      <4>2. save[t].pc = "commit" /\ save[t].pid = save[s].pid
        BY <1>3, <3>1, <3>3, <4>1 DEF SaveAt
      <4> QED BY <2>1, <4>1, <4>2 DEF SetPlatform, PidAwaited
    <3> QED BY <1>1, <3>1, <3>2, <3>3 DEF PidAwaited
  <2>2. CASE t = s
    <3>1. /\ SetPlatform(s) /\ save'[s].pid = save[s].pid /\ save'[s].conv = save[s].conv
      BY <1>1, <1>3, <2>2 DEF SaveAt
    <3> QED BY <1>1, <2>2, <3>1 DEF SetPlatform, PidFree, PidAwaited
  <2> QED BY <2>1, <2>2
<1> QED BY <1>2, <1>3 DEF PidsInv

LEMMA PidsCommit ==
  ASSUME SavedInv, NEW s \in Saves, NEW heard \in BOOLEAN, CommitSave(s, heard)
  PROVE  PidsInv' /\ PlatformIdsUnique'
<1> DEFINE c == save[s].conv
           p == save[s].pid
<1>1. /\ c \in Convs /\ save[s].pc = "commit" /\ save'[s].pc # "commit"
      /\ \A t \in Saves : t # s => save'[t] = save[t]
  BY CommitEffect DEF SavedInv, Commits, Committed
<1>2. platform \in [Convs -> Pids \cup {Nothing}]
  BY DEF SavedInv, ArchiveInv, ArchiveTypeOK
<1>3. /\ \A d \in Convs : d # c => platform'[d] = platform[d]
      /\ platform'[c] = IF p = Nothing THEN platform[c] ELSE p
  BY <1>1, <1>2 DEF CommitSave
<1>4. p # Nothing => /\ \A d \in Convs : d # c => platform[d] # p
                     /\ \A t \in Saves : t # s /\ save[t].pc = "commit" => save[t].pid # p
  BY <1>1 DEF SavedInv, PidsInv, SaveAt, PidFree, PidAwaited
<1>5. PlatformIdsUnique'
  BY <1>3, <1>4 DEF SavedInv, PlatformIdsUnique
<1>6. ASSUME NEW t \in Saves, SaveAt(t, "commit")', save'[t].pid # Nothing
      PROVE  (PidFree(t) /\ ~PidAwaited(t))'
  <2>1. t # s /\ save'[t] = save[t] /\ save[t].pc = "commit"
    BY <1>1, <1>6 DEF SaveAt
  <2>2. PidFree(t) /\ ~PidAwaited(t)
    BY <1>6, <2>1 DEF SavedInv, PidsInv, SaveAt
  <2>3. PidFree(t)'
    BY <1>3, <1>4, <2>1, <2>2 DEF PidFree
  <2>4. ~PidAwaited(t)'
    BY <1>1, <2>1, <2>2 DEF PidAwaited
  <2> QED BY <2>3, <2>4
<1> QED BY <1>5, <1>6 DEF PidsInv

LEMMA SavedStep == SavedInv /\ [ArchiveNext]_archiveVars => SavedInv'
<1> SUFFICES ASSUME SavedInv, [ArchiveNext]_archiveVars PROVE SavedInv'
  OBVIOUS
<1>1. ArchiveInv'
  BY ArchiveStep DEF SavedInv
<1>2. ASSUME platform' = platform, save' = save PROVE PidsInv' /\ PlatformIdsUnique'
  BY <1>2 DEF SavedInv, PidsInv, PlatformIdsUnique, SaveAt, PidFree, PidAwaited
<1>3. ASSUME NEW s \in Saves, SaveStep(s) PROVE PidsInv' /\ PlatformIdsUnique'
  BY <1>3, PidsQuiet, PidsCommit DEF SaveStep, QuietStep
<1>4. ASSUME NEW r \in Readers, ReadStep(r) PROVE platform' = platform /\ save' = save
  BY <1>4 DEF ReadStep, ReadRow, ReadMessages, tables
<1>5. ASSUME UNCHANGED archiveVars PROVE platform' = platform /\ save' = save
  BY <1>5 DEF archiveVars
<1> QED BY <1>1, <1>2, <1>3, <1>4, <1>5 DEF ArchiveNext, SavedInv

LEMMA SavedInvariant == ArchiveSpec => []SavedInv
<1>1. ArchiveInit => SavedInv
  <2> SUFFICES ASSUME ArchiveInit PROVE PidsInv /\ PlatformIdsUnique
    BY ArchiveInitInv DEF SavedInv
  <2> QED BY DEF ArchiveInit, PidsInv, PlatformIdsUnique, SaveAt
<1> QED BY <1>1, SavedStep, PTL DEF ArchiveSpec

(* A platform id is on one conversation at most, whatever imports overlap: *)
(* the unique index and its wait (set_platform_metadata).                  *)
THEOREM OneHolder == ArchiveSpec => []PlatformIdsUnique
<1>1. SavedInv => PlatformIdsUnique
  BY DEF SavedInv
<1> QED BY <1>1, SavedInvariant, PTL

(* What a reader of the tables sees follows from the rows.                 *)
TextOf == [c \in Convs |-> IF row[c] = Nothing THEN {} ELSE {row[c]}]
WithRow == {c \in Convs : row[c] # Nothing}

Seen == linkedTexts = TextOf /\ archivedConvs = WithRow /\ messages = TextOf

LEMMA SeenByRows == ArchiveInv => Seen
<1> SUFFICES ASSUME ArchiveInv PROVE Seen
  OBVIOUS
<1>1. ASSUME NEW c \in Convs
      PROVE  /\ {entry[e] : e \in LinkedEntries(c)} = IF row[c] = Nothing THEN {} ELSE {row[c]}
             /\ row[c] # Nothing => row[c] \in disk
             /\ messages[c] = IF row[c] = Nothing THEN {} ELSE {row[c]}
  <2>1. EntryOk(c) /\ RowOk(c) /\ MessagesOk(c)
    BY DEF ArchiveInv, RowsInv
  <2>2. CASE row[c] = Nothing
    BY <2>1, <2>2 DEF EntryOk, MessagesOk
  <2>3. CASE row[c] # Nothing
    <3>1. PICK e \in Saves : LinkedEntries(c) = {e} /\ entry[e] = row[c]
      BY <2>1, <2>3 DEF EntryOk
    <3>2. {entry[x] : x \in LinkedEntries(c)} = {row[c]}
      BY <3>1
    <3> QED BY <2>1, <2>3, <3>2 DEF RowOk, MessagesOk
  <2> QED BY <2>2, <2>3
<1>2. messages \in [Convs -> SUBSET Saves]
  BY DEF ArchiveInv, ArchiveTypeOK
<1>3. linkedTexts = TextOf
  BY <1>1 DEF linkedTexts, TextOf
<1>4. archivedConvs = WithRow
  BY <1>1 DEF archivedConvs, WithRow
<1>5. messages = TextOf
  BY <1>1, <1>2 DEF TextOf
<1> QED BY <1>3, <1>4, <1>5 DEF Seen

LEMMA RefineQuiet ==
  ASSUME ArchiveInv, Seen, Seen', NEW s \in Saves, QuietStep(s)
  PROVE  UNCHANGED Saved!savedVars
<1>0. ArchiveTypeOK
  BY DEF ArchiveInv
<1>1. /\ row' = row /\ messages' = messages /\ platform' = platform /\ read' = read
      /\ \A t \in Saves : t # s => save'[t] = save[t]
      /\ save[s].pc \in Committed <=> save'[s].pc \in Committed
  BY <1>0, QuietEffect
<1>2. TextOf' = TextOf /\ WithRow' = WithRow
  BY <1>1 DEF TextOf, WithRow
<1>3. linkedTexts' = linkedTexts /\ archivedConvs' = archivedConvs
  <2>1. linkedTexts' = TextOf' /\ archivedConvs' = WithRow'
    BY DEF Seen
  <2> QED BY <1>2, <2>1 DEF Seen
<1>4. committedSaves' = committedSaves
  BY <1>1 DEF committedSaves
<1> QED BY <1>1, <1>3, <1>4 DEF Saved!savedVars

(* The commit is the step of the abstract store.                           *)
LEMMA RefineCommit ==
  ASSUME SavedInv, Seen, Seen', NEW s \in Saves, NEW heard \in BOOLEAN, CommitSave(s, heard)
  PROVE  Saved!Take(s, save[s].conv, save[s].pid)
<1> DEFINE c == save[s].conv
           p == save[s].pid
<1>0. ArchiveInv /\ row \in [Convs -> Saves \cup {Nothing}] /\ s # Nothing
  BY ArchiveAssumption DEF SavedInv, ArchiveInv, ArchiveTypeOK
<1>1. /\ c \in Convs /\ Commits(s, c, row[c])
  BY <1>0, CommitEffect
<1>2. /\ save[s].pc \notin Committed /\ save'[s].pc \in Committed
      /\ \A t \in Saves : t # s => save'[t] = save[t]
      /\ read' = read
  BY <1>1 DEF Commits, Committed
<1>3. s \notin committedSaves /\ committedSaves' = committedSaves \cup {s}
  BY <1>2 DEF committedSaves
<1>4. row' = [row EXCEPT ![c] = s]
  BY DEF CommitSave
<1>5. platform' = [platform EXCEPT ![c] = IF p = Nothing THEN platform[c] ELSE p]
  BY DEF CommitSave
<1>6. p # Nothing => \A d \in Convs \ {c} : platform[d] # p
  BY DEF SavedInv, PidsInv, SaveAt, PidFree, CommitSave
<1>7. TextOf' = [TextOf EXCEPT ![c] = {s}] /\ WithRow' = WithRow \cup {c}
  <2>1. \A d \in Convs : row'[d] = IF d = c THEN s ELSE row[d]
    BY <1>0, <1>1, <1>4
  <2>2. TextOf' = [TextOf EXCEPT ![c] = {s}]
    BY <1>0, <1>1, <2>1 DEF TextOf
  <2>3. WithRow' = WithRow \cup {c}
    BY <1>0, <1>1, <2>1 DEF WithRow
  <2> QED BY <2>2, <2>3
<1>8. /\ linkedTexts' = [linkedTexts EXCEPT ![c] = {s}]
      /\ messages' = [messages EXCEPT ![c] = {s}]
      /\ archivedConvs' = archivedConvs \cup {c}
  <2>1. linkedTexts = TextOf /\ archivedConvs = WithRow /\ messages = TextOf
    BY DEF Seen
  <2>2. linkedTexts' = TextOf' /\ archivedConvs' = WithRow' /\ messages' = TextOf'
    BY DEF Seen
  <2> QED BY <1>7, <2>1, <2>2
<1> QED BY <1>2, <1>3, <1>4, <1>5, <1>6, <1>8 DEF Saved!Take

LEMMA RefineRead ==
  ASSUME ArchiveInv, NEW r \in Readers, ReadStep(r)
  PROVE  (\E c \in Convs : Saved!See(r, c)) \/ Saved!Get(r)
<1>1. /\ row' = row /\ messages' = messages /\ entry' = entry /\ disk' = disk
      /\ save' = save /\ platform' = platform
  BY DEF ReadStep, ReadRow, ReadMessages, tables
<1>2. linkedTexts' = linkedTexts /\ archivedConvs' = archivedConvs
      /\ committedSaves' = committedSaves
  BY <1>1 DEF linkedTexts, archivedConvs, committedSaves, LinkedEntries
<1>3. ASSUME NEW c \in Convs, ReadRow(r, c) PROVE Saved!See(r, c)
  BY <1>1, <1>2, <1>3 DEF ReadRow, Saved!See
<1>4. CASE ReadMessages(r)
  <2>1. ReadOk(r) /\ read[r].pc = "meta"
    BY <1>4 DEF ArchiveInv, ReadsInv, ReadMessages
  <2>2. PICK c \in Convs : c = read[r].conv
    BY <2>1 DEF ReadOk
  <2>3. /\ read[r].meta \in Saves /\ save[read[r].meta].conv = c
        /\ save[read[r].meta].pc \in Committed
    BY <2>1, <2>2 DEF ReadOk
  <2>4. row[c] # Nothing /\ MessagesOk(c)
    BY <2>3 DEF ArchiveInv, SavesInv, RowsInv, RankOk
  <2>5. messages[c] = {row[c]}
    BY <2>4 DEF MessagesOk
  <2>6. read' = [read EXCEPT ![r] = [read[r] EXCEPT !.batch = messages[read[r].conv],
                                                   !.pc = "done"]]
    BY <1>4 DEF ReadMessages
  <2>7. read' = [read EXCEPT ![r] = [read[r] EXCEPT !.pc = "done",
                                                   !.batch = {row[read[r].conv]}]]
    <3>1. read[r] \in Read
      BY DEF ArchiveInv, ArchiveTypeOK
    <3>2. [read[r] EXCEPT !.batch = messages[read[r].conv], !.pc = "done"]
            = [read[r] EXCEPT !.pc = "done", !.batch = {row[read[r].conv]}]
      BY <2>2, <2>5, <3>1 DEF Read
    <3> QED BY <2>6, <3>2
  <2>8. read' = [read EXCEPT ![r].pc = "done", ![r].batch = {row[read[r].conv]}]
    BY <2>7
  <2> QED BY <1>1, <1>2, <2>1, <2>8 DEF Saved!Get
<1> QED BY <1>3, <1>4 DEF ReadStep

LEMMA RefineSaves ==
  ASSUME SavedInv, Seen, Seen', [ArchiveNext]_archiveVars
  PROVE  [Saved!Next]_(Saved!savedVars)
<1>0. ArchiveInv
  BY DEF SavedInv
<1>1. ASSUME NEW s \in Saves, QuietStep(s) PROVE UNCHANGED Saved!savedVars
  BY <1>0, <1>1, RefineQuiet
<1>2. ASSUME NEW s \in Saves, NEW heard \in BOOLEAN, CommitSave(s, heard) PROVE Saved!Next
  <2>1. save[s].conv \in Convs /\ save[s].pid \in Pids \cup {Nothing}
    BY <1>0, <1>2, CommitEffect DEF ArchiveInv, ArchiveTypeOK, Save
  <2>2. Saved!Take(s, save[s].conv, save[s].pid)
    BY <1>0, <1>2, RefineCommit
  <2> QED BY <2>1, <2>2 DEF Saved!Next
<1>3. ASSUME NEW r \in Readers, ReadStep(r) PROVE Saved!Next
  BY <1>0, <1>3, RefineRead DEF Saved!Next
<1>4. ASSUME UNCHANGED archiveVars PROVE UNCHANGED Saved!savedVars
  <2>1. /\ row' = row /\ messages' = messages /\ entry' = entry /\ disk' = disk
        /\ save' = save /\ platform' = platform /\ read' = read
    BY <1>4 DEF archiveVars
  <2>2. linkedTexts' = linkedTexts /\ archivedConvs' = archivedConvs
        /\ committedSaves' = committedSaves
    BY <2>1 DEF linkedTexts, archivedConvs, committedSaves, LinkedEntries
  <2> QED BY <2>1, <2>2 DEF Saved!savedVars
<1> QED BY <1>1, <1>2, <1>3, <1>4 DEF ArchiveNext, SaveStep, QuietStep

(* Every behaviour of the saves, with their transactions, failures and     *)
(* files (save_conversation, delete_superseded_json_archive), is one of    *)
(* the atomic store.                                                       *)
THEOREM SavesRefine == ArchiveSpec => ImplementsSaves
<1>1. ArchiveInit => Saved!Init
  <2> SUFFICES ASSUME ArchiveInit PROVE Saved!Init
    OBVIOUS
  <2>1. linkedTexts = TextOf /\ archivedConvs = WithRow
    BY ArchiveInitInv, SeenByRows DEF Seen
  <2>2. TextOf = [c \in Convs |-> {}] /\ WithRow = {} /\ committedSaves = {}
    BY DEF ArchiveInit, TextOf, WithRow, committedSaves, Committed
  <2> QED BY <2>1, <2>2 DEF ArchiveInit, Saved!Init
<1>2. SavedInv /\ Seen /\ Seen' /\ [ArchiveNext]_archiveVars => [Saved!Next]_(Saved!savedVars)
  BY RefineSaves
<1>3. SavedInv => Seen
  BY SeenByRows DEF SavedInv
<1> QED BY <1>1, <1>2, <1>3, SavedInvariant, PTL DEF ArchiveSpec, ImplementsSaves, Saved!Spec

---------------------------------------------------------------------------
(* Lists in pages, for any number of rows, any keys and any page size.     *)

Shown == {shown[i] : i \in DOMAIN shown}
Total == Cardinality(Listable)

(* While the list stands still, the pages so far are its beginning.        *)
StillOk ==
  ~added /\ ~withdrawn =>
    /\ Len(shown) = IF offset < Total THEN offset ELSE Total
    /\ \A i \in 1 .. Len(shown) : shown[i] = Order[i]
    /\ walk # "paging" => offset >= Total
(* While rows only enter, those that stay and stand before the next page   *)
(* have been shown; rows that enter only push them back.                   *)
StaysOk ==
  ~withdrawn =>
    /\ \A r \in kept : Rank(r) < offset => r \in Shown
    /\ walk # "paging" => kept \subseteq Shown
(* While rows only leave, what has been shown and is still there stands    *)
(* before the next page.                                                   *)
LeavesOk ==
  ~added =>
    /\ \A i, j \in 1 .. Len(shown) : shown[i] = shown[j] => i = j
    /\ \A r \in Shown \cap Listable : Rank(r) < offset

PagesInv ==
  /\ PagesTypeOK
  /\ walk # "done" => offset <= LastRow
  /\ \A r \in Rows : r > newestRow => key[r] = Out
  /\ StillOk /\ StaysOk /\ LeavesOk

---------------------------------------------------------------------------
(* The order of the list: every row has a rank, and every rank a row.      *)
Preceding(r) == {s \in Listable : Before(s, r)}

LEMMA PagesNumbers ==
  ASSUME PagesTypeOK
  PROVE  /\ LastRow \in Nat /\ LastKey \in Nat \ {0} /\ PageSize \in Nat \ {0}
         /\ newestRow \in Nat /\ newestRow <= LastRow /\ offset \in Nat
         /\ \A r \in Rows : r \in Nat /\ r >= 1 /\ key[r] \in Nat
BY PagesAssumption DEF PagesTypeOK, Rows, Keys, Out

LEMMA RowSubsets == \A S \in SUBSET Rows : IsFiniteSet(S) /\ Cardinality(S) \in Nat
<1>1. IsFiniteSet(Rows)
  BY FS_Interval, PagesAssumption DEF Rows
<1> QED BY <1>1, FS_Subset, FS_CardinalityType

LEMMA ListFinite ==
  /\ IsFiniteSet(Listable) /\ Total \in Nat /\ Total <= LastRow
  /\ \A S \in SUBSET Listable : IsFiniteSet(S) /\ Cardinality(S) \in Nat /\ Cardinality(S) <= Total
<1>1. IsFiniteSet(Rows) /\ Cardinality(Rows) = LastRow
  BY FS_Interval, PagesAssumption DEF Rows
<1>2. Listable \subseteq Rows
  BY DEF Listable
<1>3. IsFiniteSet(Listable) /\ Cardinality(Listable) <= Cardinality(Rows)
  BY <1>1, <1>2, FS_Subset
<1> QED BY <1>1, <1>3, FS_Subset, FS_CardinalityType DEF Total

LEMMA BeforeOrders ==
  ASSUME PagesTypeOK
  PROVE  /\ \A r \in Rows : ~Before(r, r)
         /\ \A r, s \in Rows : r # s => Before(r, s) \/ Before(s, r)
         /\ \A r, s, t \in Rows : Before(r, s) /\ Before(s, t) => Before(r, t)
BY PagesNumbers DEF Before, Newer

LEMMA RankGrows ==
  ASSUME PagesTypeOK, NEW r \in Listable, NEW s \in Listable, Before(r, s)
  PROVE  Rank(r) < Rank(s)
<1>1. r \in Rows /\ s \in Rows /\ Listable \subseteq Rows
  BY DEF Listable
<1>2. Preceding(r) \subseteq Preceding(s) /\ r \in Preceding(s) /\ r \notin Preceding(r)
  BY <1>1, BeforeOrders DEF Preceding
<1>3. /\ IsFiniteSet(Preceding(r)) /\ Cardinality(Preceding(r)) \in Nat
      /\ IsFiniteSet(Preceding(s)) /\ Cardinality(Preceding(s)) \in Nat
  BY ListFinite DEF Preceding
<1>4. Cardinality(Preceding(r)) < Cardinality(Preceding(s))
  <2>1. Preceding(r) # Preceding(s)
    BY <1>2
  <2>2. Cardinality(Preceding(r)) <= Cardinality(Preceding(s))
        /\ (Cardinality(Preceding(r)) = Cardinality(Preceding(s)) => Preceding(r) = Preceding(s))
    BY <1>2, <1>3, FS_Subset
  <2> QED BY <1>3, <2>1, <2>2
<1> QED BY <1>4 DEF Rank, Preceding

LEMMA RankRange ==
  ASSUME PagesTypeOK, NEW r \in Listable
  PROVE  Rank(r) \in 0 .. (Total - 1)
<1>1. r \in Rows
  BY DEF Listable
<1>2. Preceding(r) \subseteq Listable /\ Preceding(r) # Listable
  BY <1>1, BeforeOrders DEF Preceding
<1>3. IsFiniteSet(Listable) /\ Cardinality(Preceding(r)) \in Nat /\ Total \in Nat
  BY <1>2, ListFinite
<1>4. Cardinality(Preceding(r)) <= Total /\ Cardinality(Preceding(r)) # Total
  BY <1>2, <1>3, FS_Subset DEF Total
<1>5. Rank(r) = Cardinality(Preceding(r))
  BY DEF Rank, Preceding
<1> QED BY <1>3, <1>4, <1>5

LEMMA RankOnto ==
  ASSUME PagesTypeOK
  PROVE  /\ \A r, s \in Listable : Rank(r) = Rank(s) => r = s
         /\ \A n \in 0 .. (Total - 1) : \E r \in Listable : Rank(r) = n
<1> DEFINE Ranks == 0 .. (Total - 1)
           f == [r \in Listable |-> Rank(r)]
<1>1. ASSUME NEW r \in Listable, NEW s \in Listable, Rank(r) = Rank(s) PROVE r = s
  <2>1. Rank(r) \in Int /\ r \in Rows /\ s \in Rows
    BY RankRange DEF Listable
  <2> QED BY <1>1, <2>1, BeforeOrders, RankGrows
<1>2. f \in Injection(Listable, Ranks)
  BY <1>1, RankRange DEF Injection, IsInjective
<1>3. IsFiniteSet(Ranks) /\ Cardinality(Ranks) = Total
  <2>1. Total \in Nat /\ Total - 1 \in Int /\ 0 \in Int
    BY ListFinite
  <2>2. IsFiniteSet(Ranks) /\ Cardinality(Ranks) = IF 0 > Total - 1 THEN 0 ELSE Total - 1 - 0 + 1
    BY <2>1, FS_Interval
  <2> QED BY <2>1, <2>2
<1>4. f \in Surjection(Listable, Ranks)
  <2> HIDE DEF f, Ranks
  <2> QED BY <1>2, <1>3, FS_Injection DEF Total
<1>5. \A n \in Ranks : \E r \in Listable : Rank(r) = n
  BY <1>4 DEF Surjection
<1> QED BY <1>1, <1>5

LEMMA OrderLists ==
  ASSUME PagesTypeOK
  PROVE  /\ Order \in Seq(Rows) /\ Len(Order) = Total
         /\ \A i \in 1 .. Total : Order[i] \in Listable /\ Rank(Order[i]) = i - 1
         /\ \A r \in Listable : Rank(r) + 1 \in 1 .. Total /\ Order[Rank(r) + 1] = r
<1>1. Total \in Nat
  BY ListFinite
<1>2. \A i \in 1 .. Total : Order[i] \in Listable /\ Rank(Order[i]) = i - 1
  <2> SUFFICES ASSUME NEW i \in 1 .. Total
               PROVE  Order[i] \in Listable /\ Rank(Order[i]) = i - 1
    OBVIOUS
  <2>1. i - 1 \in 0 .. (Total - 1)
    BY <1>1
  <2>2. \E r \in Listable : Rank(r) = i - 1
    BY <2>1, RankOnto
  <2>3. Order[i] = CHOOSE r \in Listable : Rank(r) = i - 1
    BY DEF Order, Total
  <2> QED BY <2>2, <2>3
<1>3. Order \in [1 .. Total -> Listable] /\ Listable \subseteq Rows
  <2>1. DOMAIN Order = 1 .. Total /\ Order = [i \in 1 .. Total |-> Order[i]]
    BY DEF Order, Total
  <2> QED BY <1>2, <2>1 DEF Listable
<1>4. Order \in Seq(Rows) /\ Len(Order) = Total
  <2>1. Order \in [1 .. Total -> Rows]
    BY <1>3
  <2> HIDE DEF Total
  <2> QED BY <1>1, <2>1
<1>5. ASSUME NEW r \in Listable PROVE Rank(r) + 1 \in 1 .. Total /\ Order[Rank(r) + 1] = r
  <2>1. Rank(r) \in 0 .. (Total - 1)
    BY RankRange
  <2>2. Rank(r) + 1 \in 1 .. Total /\ (Rank(r) + 1) - 1 = Rank(r)
    BY <1>1, <2>1
  <2>3. Order[Rank(r) + 1] \in Listable /\ Rank(Order[Rank(r) + 1]) = Rank(r)
    BY <1>2, <2>2
  <2> QED BY <2>2, <2>3, RankOnto
<1> QED BY <1>2, <1>4, <1>5
(* A page is the slice of the order from the offset on.                    *)
LEMMA PageSlice ==
  ASSUME PagesTypeOK
  PROVE  /\ Page \in Seq(Rows)
         /\ Len(Page) = IF offset >= Total THEN 0
                        ELSE IF offset + PageSize < Total THEN PageSize ELSE Total - offset
         /\ \A i \in 1 .. Len(Page) : offset + i \in 1 .. Total /\ Page[i] = Order[offset + i]
<1> DEFINE last == IF offset + PageSize < Total THEN offset + PageSize ELSE Total
<1>1. Total \in Nat /\ offset \in Nat /\ PageSize \in Nat \ {0}
  BY ListFinite, PagesNumbers
<1>2. Page = SubSeq(Order, offset + 1, last)
  BY OrderLists DEF Page
<1>3. last \in Int /\ last <= Total /\ offset + 1 \in Int /\ offset + 1 >= 1
  BY <1>1
<1>4. \A i \in (offset + 1) .. last : Order[i] \in Rows
  BY <1>1, <1>3, OrderLists DEF Listable
<1> HIDE DEF last
<1>5. /\ Page \in Seq(Rows)
      /\ Len(Page) = IF offset + 1 <= last THEN last - (offset + 1) + 1 ELSE 0
      /\ \A i \in 1 .. (last - (offset + 1) + 1) : Page[i] = Order[offset + 1 + i - 1]
  BY <1>2, <1>3, <1>4, SubSeqProperties
<1>6. Len(Page) = IF offset >= Total THEN 0
                  ELSE IF offset + PageSize < Total THEN PageSize ELSE Total - offset
  BY <1>1, <1>5 DEF last
<1>7. ASSUME NEW i \in 1 .. Len(Page)
      PROVE  offset + i \in 1 .. Total /\ Page[i] = Order[offset + i]
  <2>1. i \in Int /\ i >= 1 /\ i <= last - (offset + 1) + 1
    BY <1>1, <1>3, <1>5
  <2>2. i \in 1 .. (last - (offset + 1) + 1) /\ offset + 1 + i - 1 = offset + i
    BY <1>1, <1>3, <2>1
  <2> QED BY <1>1, <1>3, <1>5, <2>1, <2>2
<1> QED BY <1>5, <1>6, <1>7

LEMMA ShownSeq ==
  ASSUME PagesTypeOK
  PROVE  shown \in Seq(Rows) /\ Len(shown) \in Nat /\ DOMAIN shown = 1 .. Len(shown)
         /\ (\A i \in 1 .. Len(shown) : shown[i] \in Shown) /\ Shown \subseteq Rows
BY LenProperties DEF PagesTypeOK, Shown

(* What has been shown after another page.                                 *)
LEMMA NextShown ==
  ASSUME PagesTypeOK, shown' = shown \o Page
  PROVE  /\ shown' \in Seq(Rows) /\ Len(shown') = Len(shown) + Len(Page)
         /\ \A i \in 1 .. Len(shown') :
              shown'[i] = IF i <= Len(shown) THEN shown[i] ELSE Page[i - Len(shown)]
         /\ Shown' = Shown \cup {Page[i] : i \in 1 .. Len(Page)}
<1>1. /\ shown' \in Seq(Rows) /\ Len(shown') = Len(shown) + Len(Page)
      /\ \A i \in 1 .. Len(shown) + Len(Page) :
           shown'[i] = IF i <= Len(shown) THEN shown[i] ELSE Page[i - Len(shown)]
  BY ShownSeq, PageSlice, ConcatProperties
<1>2. Len(shown) \in Nat /\ Len(Page) \in Nat
  BY ShownSeq, PageSlice, LenProperties
<1>3. Shown = {shown[i] : i \in 1 .. Len(shown)} /\ Shown' = {shown'[i] : i \in 1 .. (Len(shown) + Len(Page))}
  BY <1>1, ShownSeq, LenProperties DEF Shown
<1>4. \A i \in 1 .. Len(shown) : i \in 1 .. (Len(shown) + Len(Page)) /\ shown'[i] = shown[i]
  BY <1>1, <1>2
<1>5. \A i \in 1 .. Len(Page) : Len(shown) + i \in 1 .. (Len(shown) + Len(Page))
                                /\ shown'[Len(shown) + i] = Page[i]
  <2> SUFFICES ASSUME NEW i \in 1 .. Len(Page)
               PROVE  Len(shown) + i \in 1 .. (Len(shown) + Len(Page)) /\ shown'[Len(shown) + i] = Page[i]
    OBVIOUS
  <2>1. Len(shown) + i \in 1 .. (Len(shown) + Len(Page)) /\ ~(Len(shown) + i <= Len(shown))
        /\ Len(shown) + i - Len(shown) = i
    BY <1>2
  <2> QED BY <1>1, <2>1
<1>6. \A i \in 1 .. (Len(shown) + Len(Page)) :
        i \in 1 .. Len(shown) \/ (i - Len(shown) \in 1 .. Len(Page) /\ shown'[i] = Page[i - Len(shown)])
  BY <1>1, <1>2
<1>7. Shown' \subseteq Shown \cup {Page[i] : i \in 1 .. Len(Page)}
  BY <1>3, <1>4, <1>6
<1>8. Shown \cup {Page[i] : i \in 1 .. Len(Page)} \subseteq Shown'
  BY <1>3, <1>4, <1>5
<1> QED BY <1>1, <1>7, <1>8
LEMMA SameOrder ==
  ASSUME UNCHANGED <<sort, key>>
  PROVE  /\ Listable' = Listable /\ Total' = Total /\ Order' = Order
         /\ \A r \in Rows : Rank(r)' = Rank(r)
BY DEF Listable, Total, Order, Rank, Before, Newer

(* The client stops when the next offset is not below the total.           *)
LEMMA GoOnRange ==
  ASSUME PagesTypeOK, offset <= LastRow, GoOn(Total)
  PROVE  /\ offset' = offset + PageSize /\ offset' \in 0 .. LastRow + PageSize
         /\ walk' \in {"paging", "done"}
         /\ walk' # "done" => offset' < Total /\ offset' <= LastRow
         /\ walk' = "done" => offset' >= Total
BY ListFinite, PagesNumbers DEF GoOn

LEMMA EmptyPageStep ==
  ASSUME PagesInv, FetchPage, Page = << >>
  PROVE  PagesInv'
<1>1. /\ UNCHANGED <<sort, newestRow, key, kept, added, withdrawn, offset, shown>>
      /\ walk = "paging" /\ walk' = "counting"
  BY DEF FetchPage
<1>2. PagesTypeOK
  BY DEF PagesInv
<1>3. Len(Page) = 0 /\ PageSize \in Nat \ {0} /\ Total \in Nat /\ offset \in Nat
  BY <1>2, ListFinite, PagesNumbers
<1>4. offset >= Total
  BY <1>2, <1>3, PageSlice
<1>5. /\ Listable' = Listable /\ Total' = Total /\ Order' = Order /\ Shown' = Shown
      /\ \A r \in Rows : Rank(r)' = Rank(r)
  BY <1>1, SameOrder DEF Shown
<1>6. PagesTypeOK'
  BY <1>1, <1>2, <1>5 DEF PagesTypeOK
<1>7. kept \subseteq Listable /\ \A r \in kept : r \in Rows /\ Rank(r) < offset
  <2> SUFFICES ASSUME NEW r \in kept PROVE r \in Listable /\ r \in Rows /\ Rank(r) < offset
    OBVIOUS
  <2>1. r \in Listable /\ r \in Rows
    BY <1>2 DEF PagesTypeOK, Listable
  <2>2. Rank(r) \in 0 .. (Total - 1)
    BY <1>2, <2>1, RankRange
  <2> QED BY <1>3, <1>4, <2>1, <2>2
<1>8. StillOk'
  BY <1>1, <1>4, <1>5 DEF PagesInv, StillOk
<1>9. StaysOk'
  BY <1>1, <1>5, <1>7 DEF PagesInv, StaysOk
<1>10. LeavesOk'
  BY <1>1, <1>5, Listable \subseteq Rows DEF PagesInv, LeavesOk, Listable
<1> QED BY <1>1, <1>6, <1>8, <1>9, <1>10 DEF PagesInv

LEMMA FullPageStep ==
  ASSUME PagesInv, FetchPage, Page # << >>
  PROVE  PagesInv'
<1>1. /\ UNCHANGED <<sort, newestRow, key, kept, added, withdrawn>>
      /\ walk = "paging" /\ shown' = shown \o Page
  BY DEF FetchPage
<1>2. PagesTypeOK /\ offset <= LastRow
  BY <1>1 DEF PagesInv
<1>3. PageSize \in Nat \ {0} /\ Total \in Nat /\ offset \in Nat /\ Len(shown) \in Nat
  BY <1>2, ListFinite, PagesNumbers, ShownSeq
<1>4. GoOn(Total)
  BY <1>2, OrderLists DEF FetchPage
<1>5. /\ offset' = offset + PageSize /\ offset' \in 0 .. LastRow + PageSize
      /\ walk' \in {"paging", "done"}
      /\ walk' # "done" => offset' < Total /\ offset' <= LastRow
      /\ walk' = "done" => offset' >= Total
  BY <1>2, <1>4, GoOnRange
<1>6. /\ Listable' = Listable /\ Total' = Total /\ Order' = Order
      /\ \A r \in Rows : Rank(r)' = Rank(r)
  BY <1>1, SameOrder
<1>7. /\ shown' \in Seq(Rows) /\ Len(shown') = Len(shown) + Len(Page)
      /\ \A i \in 1 .. Len(shown') :
           shown'[i] = IF i <= Len(shown) THEN shown[i] ELSE Page[i - Len(shown)]
      /\ Shown' = Shown \cup {Page[i] : i \in 1 .. Len(Page)}
  BY <1>1, <1>2, NextShown
<1>8. /\ Page \in Seq(Rows) /\ Len(Page) \in Nat
      /\ Len(Page) = IF offset >= Total THEN 0
                     ELSE IF offset + PageSize < Total THEN PageSize ELSE Total - offset
      /\ \A i \in 1 .. Len(Page) : offset + i \in 1 .. Total /\ Page[i] = Order[offset + i]
  BY <1>2, PageSlice, LenProperties
<1>9. offset < Total
  <2>1. Len(Page) # 0
    BY <1>8, EmptySeq
  <2> QED BY <1>3, <1>8, <2>1
<1>10. \A i \in 1 .. Len(Page) : Page[i] \in Listable /\ Rank(Page[i]) = offset + i - 1
  <2> SUFFICES ASSUME NEW i \in 1 .. Len(Page)
               PROVE  Page[i] \in Listable /\ Rank(Page[i]) = offset + i - 1
    OBVIOUS
  <2> DEFINE n == offset + i
  <2>1. n \in 1 .. Total /\ Page[i] = Order[n]
    BY <1>8
  <2>2. n - 1 = offset + i - 1
    BY <1>3, <1>8
  <2> HIDE DEF n
  <2>3. Order[n] \in Listable /\ Rank(Order[n]) = n - 1
    BY <1>2, <2>1, OrderLists
  <2> QED BY <2>1, <2>2, <2>3
<1>11. \A r \in Listable : offset <= Rank(r) /\ Rank(r) < offset + PageSize =>
         \E i \in 1 .. Len(Page) : Page[i] = r
  <2> SUFFICES ASSUME NEW r \in Listable, offset <= Rank(r), Rank(r) < offset + PageSize
               PROVE  \E i \in 1 .. Len(Page) : Page[i] = r
    OBVIOUS
  <2>1. Rank(r) \in 0 .. (Total - 1) /\ Order[Rank(r) + 1] = r
    BY <1>2, RankRange, OrderLists
  <2>2. Rank(r) + 1 - offset \in 1 .. Len(Page) /\ offset + (Rank(r) + 1 - offset) = Rank(r) + 1
    BY <1>3, <1>8, <1>9, <2>1
  <2> QED BY <1>8, <2>1, <2>2
<1>12. PagesTypeOK' /\ (walk' # "done" => offset' <= LastRow)
  BY <1>1, <1>2, <1>5, <1>6, <1>7 DEF PagesTypeOK
<1>13. StillOk'
  <2> SUFFICES ASSUME ~added, ~withdrawn
               PROVE  /\ Len(shown') = IF offset' < Total THEN offset' ELSE Total
                      /\ \A i \in 1 .. Len(shown') : shown'[i] = Order[i]
                      /\ walk' # "paging" => offset' >= Total
    BY <1>1, <1>6 DEF StillOk
  <2>1. Len(shown) = offset /\ \A i \in 1 .. Len(shown) : shown[i] = Order[i]
    BY <1>9 DEF PagesInv, StillOk
  <2>2. Len(shown') = IF offset' < Total THEN offset' ELSE Total
    BY <1>3, <1>5, <1>7, <1>8, <1>9, <2>1
  <2>3. ASSUME NEW i \in 1 .. Len(shown') PROVE shown'[i] = Order[i]
    <3>1. CASE i <= Len(shown)
      BY <1>3, <1>7, <2>1, <3>1
    <3>2. CASE ~(i <= Len(shown))
      <4>1. i - Len(shown) \in 1 .. Len(Page) /\ offset + (i - Len(shown)) = i
        BY <1>3, <1>7, <1>8, <2>1, <3>2
      <4>2. Page[i - Len(shown)] = Order[i]
        BY <1>8, <4>1
      <4> QED BY <1>7, <3>2, <4>2
    <3> QED BY <3>1, <3>2
  <2> QED BY <1>5, <2>2, <2>3
<1>14. StaysOk'
  <2> SUFFICES ASSUME ~withdrawn
               PROVE  /\ \A r \in kept : Rank(r) < offset' => r \in Shown'
                      /\ walk' = "done" => kept \subseteq Shown'
    <3>1. kept \subseteq Rows
      BY <1>2 DEF PagesTypeOK, Listable
    <3> QED BY <1>1, <1>5, <1>6, <3>1 DEF StaysOk
  <2>1. ASSUME NEW r \in kept, Rank(r) < offset' PROVE r \in Shown'
    <3>1. r \in Listable
      BY <1>2 DEF PagesTypeOK
    <3>2. Rank(r) \in 0 .. (Total - 1)
      BY <1>2, <3>1, RankRange
    <3>3. CASE Rank(r) < offset
      BY <1>7, <3>3 DEF PagesInv, StaysOk
    <3>4. CASE offset <= Rank(r)
      BY <1>5, <1>7, <1>11, <2>1, <3>1, <3>4
    <3> QED BY <1>3, <3>2, <3>3, <3>4
  <2>2. ASSUME walk' = "done", NEW r \in kept PROVE Rank(r) < offset'
    <3>1. r \in Listable
      BY <1>2 DEF PagesTypeOK
    <3>2. Rank(r) \in 0 .. (Total - 1)
      BY <1>2, <3>1, RankRange
    <3> QED BY <1>3, <1>5, <2>2, <3>2
  <2> QED BY <2>1, <2>2
<1>15. LeavesOk'
  <2> SUFFICES ASSUME ~added
               PROVE  /\ \A i, j \in 1 .. Len(shown') : shown'[i] = shown'[j] => i = j
                      /\ \A r \in Shown' \cap Listable : Rank(r) < offset'
    <3>1. Listable \subseteq Rows
      BY DEF Listable
    <3> QED BY <1>1, <1>6, <3>1 DEF LeavesOk
  <2>1. /\ \A i, j \in 1 .. Len(shown) : shown[i] = shown[j] => i = j
        /\ \A r \in Shown \cap Listable : Rank(r) < offset
    BY DEF PagesInv, LeavesOk
  <2>2. ASSUME NEW r \in Shown' \cap Listable PROVE Rank(r) < offset'
    <3>1. Rank(r) \in 0 .. (Total - 1)
      BY <1>2, RankRange
    <3>2. CASE r \in Shown
      BY <1>3, <1>5, <2>1, <3>1, <3>2
    <3>3. CASE \E i \in 1 .. Len(Page) : r = Page[i]
      <4>1. PICK i \in 1 .. Len(Page) : r = Page[i]
        BY <3>3
      <4>2. Rank(r) = offset + i - 1 /\ i <= PageSize /\ i \in Nat
        BY <1>3, <1>8, <1>9, <1>10, <4>1
      <4> QED BY <1>3, <1>5, <4>2
    <3> QED BY <1>7, <3>2, <3>3
  <2>3. ASSUME NEW i \in 1 .. Len(shown'), NEW j \in 1 .. Len(shown'), shown'[i] = shown'[j]
        PROVE  i = j
    <3>1. \A k \in 1 .. Len(shown') :
            \/ /\ k \in 1 .. Len(shown) /\ shown'[k] = shown[k]
            \/ /\ k - Len(shown) \in 1 .. Len(Page) /\ ~(k \in 1 .. Len(shown))
               /\ shown'[k] = Page[k - Len(shown)]
      BY <1>3, <1>7, <1>8
    <3>2. \A k \in 1 .. Len(shown) : shown[k] \in Listable => Rank(shown[k]) < offset
      BY <1>2, <2>1, ShownSeq
    <3>3. \A k \in 1 .. Len(Page) : Page[k] \in Listable /\ Rank(Page[k]) = offset + k - 1
                                   /\ ~(Rank(Page[k]) < offset)
      BY <1>3, <1>8, <1>10
    <3>4. CASE i \in 1 .. Len(shown) /\ j \in 1 .. Len(shown)
      BY <2>1, <2>3, <3>1, <3>4
    <3>5. CASE i \in 1 .. Len(shown) /\ j \notin 1 .. Len(shown)
      BY <2>3, <3>1, <3>2, <3>3, <3>5
    <3>6. CASE i \notin 1 .. Len(shown) /\ j \in 1 .. Len(shown)
      BY <2>3, <3>1, <3>2, <3>3, <3>6
    <3>7. CASE i \notin 1 .. Len(shown) /\ j \notin 1 .. Len(shown)
      <4>1. /\ i - Len(shown) \in 1 .. Len(Page) /\ j - Len(shown) \in 1 .. Len(Page)
            /\ Page[i - Len(shown)] = Page[j - Len(shown)]
        BY <2>3, <3>1, <3>7
      <4>2. offset + (i - Len(shown)) - 1 = offset + (j - Len(shown)) - 1
        BY <3>3, <4>1
      <4> QED BY <1>3, <1>8, <4>1, <4>2
    <3> QED BY <3>4, <3>5, <3>6, <3>7
  <2> QED BY <2>2, <2>3
<1> QED BY <1>1, <1>12, <1>13, <1>14, <1>15 DEF PagesInv
LEMMA CountStep ==
  ASSUME PagesInv, CountRows
  PROVE  PagesInv'
<1>1. /\ UNCHANGED <<sort, newestRow, key, shown, kept, added, withdrawn>>
      /\ walk = "counting" /\ GoOn(Total)
  BY DEF CountRows, Total
<1>2. PagesTypeOK /\ offset <= LastRow
  BY <1>1 DEF PagesInv
<1>3. PageSize \in Nat \ {0} /\ Total \in Nat /\ offset \in Nat
  BY <1>2, ListFinite, PagesNumbers
<1>4. /\ offset' = offset + PageSize /\ offset' \in 0 .. LastRow + PageSize
      /\ walk' \in {"paging", "done"} /\ (walk' # "done" => offset' <= LastRow)
      /\ walk' = "done" => offset' >= Total
  BY <1>1, <1>2, GoOnRange
<1>5. /\ Listable' = Listable /\ Total' = Total /\ Order' = Order /\ Shown' = Shown
      /\ \A r \in Rows : Rank(r)' = Rank(r)
  BY <1>1, SameOrder DEF Shown
<1>6. PagesTypeOK'
  BY <1>1, <1>2, <1>4, <1>5 DEF PagesTypeOK
<1>7. StillOk'
  BY <1>1, <1>3, <1>4, <1>5 DEF PagesInv, StillOk
<1>8. StaysOk'
  BY <1>1, <1>5 DEF PagesInv, StaysOk
<1>9. LeavesOk'
  <2>1. \A r \in Listable : r \in Rows /\ Rank(r) \in Int
    BY <1>2, RankRange DEF Listable
  <2> QED BY <1>1, <1>3, <1>4, <1>5, <2>1 DEF PagesInv, LeavesOk
<1> QED BY <1>1, <1>4, <1>6, <1>7, <1>8, <1>9 DEF PagesInv

(* Who stays is not brought forward by a row that enters.                  *)
LEMMA EnterStep ==
  ASSUME PagesInv, Enter
  PROVE  PagesInv'
<1>1. /\ UNCHANGED <<sort, walk, offset, shown, kept, withdrawn>>
      /\ newestRow < LastRow /\ newestRow' = newestRow + 1 /\ added' = TRUE
  BY DEF Enter
<1>2. PICK k \in Keys : key' = [key EXCEPT ![newestRow + 1] = k]
  BY DEF Enter
<1>3. PagesTypeOK
  BY DEF PagesInv
<1>4. newestRow + 1 \in Rows /\ newestRow \in Nat
  BY <1>1, <1>3, PagesNumbers DEF Rows
<1>5. key[newestRow + 1] = Out
  BY <1>4 DEF PagesInv
<1>6. /\ key' \in [Rows -> Keys \cup {Out}] /\ key'[newestRow + 1] # Out
      /\ \A r \in Rows : r # newestRow + 1 => key'[r] = key[r]
  BY <1>2, <1>3, <1>4, PagesAssumption DEF PagesTypeOK, Keys, Out
<1>7. Listable \subseteq Listable' /\ newestRow + 1 \notin Listable
  BY <1>5, <1>6 DEF Listable
<1>8. PagesTypeOK' /\ \A r \in Rows : r > newestRow' => key'[r] = Out
  <2>1. newestRow' \in 0 .. LastRow
    BY <1>1, <1>3, <1>4, PagesNumbers
  <2>2. kept' \subseteq Listable'
    BY <1>1, <1>3, <1>7 DEF PagesTypeOK
  <2>3. ASSUME NEW r \in Rows, r > newestRow + 1 PROVE key'[r] = Out
    BY <1>3, <1>4, <1>6, <2>3, PagesNumbers DEF PagesInv
  <2> QED BY <1>1, <1>3, <1>6, <2>1, <2>2, <2>3 DEF PagesTypeOK
<1>9. ASSUME NEW r \in Listable PROVE Rank(r) <= Rank(r)' /\ Rank(r) \in Nat /\ Rank(r)' \in Nat
  <2>1. Preceding(r) \subseteq Preceding(r)'
    BY <1>1, <1>6, <1>7 DEF Preceding, Before, Newer, Listable
  <2>2. IsFiniteSet(Preceding(r)') /\ Cardinality(Preceding(r)') \in Nat /\ Cardinality(Preceding(r)) \in Nat
    <3>1. Preceding(r) \in SUBSET Listable /\ Preceding(r)' \in SUBSET Rows
      BY DEF Preceding, Listable
    <3> QED BY <3>1, ListFinite, RowSubsets
  <2>3. Cardinality(Preceding(r)) <= Cardinality(Preceding(r)')
    BY <2>1, <2>2, FS_Subset
  <2> QED BY <2>2, <2>3 DEF Rank, Preceding
<1>10. StaysOk'
  <2>1. \A r \in kept : r \in Listable
    BY <1>3 DEF PagesTypeOK
  <2>2. Shown' = Shown /\ offset \in Nat
    BY <1>1, <1>3, PagesNumbers DEF Shown
  <2> QED BY <1>1, <1>9, <2>1, <2>2 DEF PagesInv, StaysOk
<1>11. StillOk' /\ LeavesOk'
  BY <1>1 DEF StillOk, LeavesOk
<1> QED BY <1>1, <1>8, <1>10, <1>11 DEF PagesInv

(* Who has been shown is not pushed back by a row that leaves.             *)
LEMMA WithdrawStep ==
  ASSUME PagesInv, NEW q \in Rows, Withdraw(q)
  PROVE  PagesInv'
<1>1. /\ UNCHANGED <<sort, newestRow, walk, offset, shown, added>>
      /\ key' = [key EXCEPT ![q] = Out] /\ kept' = kept \ {q} /\ withdrawn' = TRUE
  BY DEF Withdraw
<1>2. PagesTypeOK
  BY DEF PagesInv
<1>3. /\ key' \in [Rows -> Keys \cup {Out}] /\ key'[q] = Out
      /\ \A r \in Rows : r # q => key'[r] = key[r]
  BY <1>1, <1>2 DEF PagesTypeOK
<1>4. Listable' = Listable \ {q}
  BY <1>3 DEF Listable
<1>5. PagesTypeOK' /\ \A r \in Rows : r > newestRow' => key'[r] = Out
  BY <1>1, <1>2, <1>3, <1>4 DEF PagesTypeOK, PagesInv
<1>6. ASSUME NEW r \in Listable' PROVE Rank(r)' <= Rank(r) /\ Rank(r) \in Nat /\ Rank(r)' \in Nat
  <2>1. Preceding(r)' \subseteq Preceding(r) /\ Preceding(r) \in SUBSET Listable
    BY <1>1, <1>3, <1>4, <1>6 DEF Preceding, Before, Newer, Listable
  <2>2. IsFiniteSet(Preceding(r)) /\ Cardinality(Preceding(r)') \in Nat /\ Cardinality(Preceding(r)) \in Nat
    BY <2>1, ListFinite
  <2>3. Cardinality(Preceding(r)') <= Cardinality(Preceding(r))
    BY <2>1, <2>2, FS_Subset
  <2> QED BY <2>2, <2>3 DEF Rank, Preceding
<1>7. LeavesOk'
  <2>1. Shown' = Shown /\ offset \in Nat
    BY <1>1, <1>2, PagesNumbers DEF Shown
  <2> QED BY <1>1, <1>4, <1>6, <2>1 DEF PagesInv, LeavesOk
<1>8. StillOk' /\ StaysOk'
  BY <1>1 DEF StillOk, StaysOk
<1> QED BY <1>1, <1>5, <1>7, <1>8 DEF PagesInv

LEMMA ReorderStep ==
  ASSUME PagesInv, NEW q \in Rows, Reorder(q)
  PROVE  PagesInv'
<1>1. /\ UNCHANGED <<sort, newestRow, walk, offset, shown>>
      /\ kept' = kept \ {q} /\ added' = TRUE /\ withdrawn' = TRUE /\ key[q] # Out
  BY DEF Reorder
<1>2. PICK k \in Keys : key' = [key EXCEPT ![q] = k]
  BY DEF Reorder
<1>3. /\ key' \in [Rows -> Keys \cup {Out}] /\ key'[q] # Out
      /\ \A r \in Rows : r # q => key'[r] = key[r]
  BY <1>2, PagesAssumption DEF PagesInv, PagesTypeOK, Keys, Out
<1>4. Listable' = Listable
  BY <1>1, <1>3 DEF Listable
<1>5. PagesTypeOK' /\ \A r \in Rows : r > newestRow' => key'[r] = Out
  BY <1>1, <1>3, <1>4 DEF PagesTypeOK, PagesInv
<1>6. StillOk' /\ StaysOk' /\ LeavesOk'
  BY <1>1 DEF StillOk, StaysOk, LeavesOk
<1> QED BY <1>1, <1>5, <1>6 DEF PagesInv

LEMMA PagesBase == PagesInit => PagesInv
<1> SUFFICES ASSUME PagesInit PROVE PagesInv
  OBVIOUS
<1>1. PagesTypeOK
  <2>1. kept \subseteq Listable
    BY PagesAssumption DEF PagesInit, Listable, Rows
  <2>2. shown \in Seq(Rows)
    BY DEF PagesInit
  <2>3. offset \in 0 .. LastRow + PageSize
    BY PagesAssumption DEF PagesInit
  <2>4. key \in [Rows -> Keys \cup {Out}]
    BY DEF PagesInit
  <2> QED BY <2>1, <2>2, <2>3, <2>4 DEF PagesInit, PagesTypeOK
<1>2. Len(shown) = 0 /\ Shown = {} /\ offset = 0 /\ walk = "paging" /\ Total \in Nat
  BY ListFinite DEF PagesInit, Shown
<1>3. StillOk /\ LeavesOk
  BY <1>2 DEF StillOk, LeavesOk
<1>4. StaysOk
  <2>1. ASSUME NEW r \in kept PROVE ~(Rank(r) < 0)
    BY <1>1, RankRange DEF PagesTypeOK
  <2> QED BY <1>2, <2>1 DEF StaysOk
<1>5. \A r \in Rows : r > newestRow => key[r] = Out
  BY PagesNumbers, <1>1 DEF PagesInit
<1> QED BY <1>1, <1>2, <1>3, <1>4, <1>5, PagesAssumption DEF PagesInv

LEMMA PagesStep == PagesInv /\ [PagesNext]_pagesVars => PagesInv'
<1> SUFFICES ASSUME PagesInv, [PagesNext]_pagesVars PROVE PagesInv'
  OBVIOUS
<1>1. CASE FetchPage
  BY <1>1, EmptyPageStep, FullPageStep
<1>2. CASE CountRows
  BY <1>2, CountStep
<1>3. CASE Enter
  BY <1>3, EnterStep
<1>4. ASSUME NEW r \in Rows, Withdraw(r) \/ Reorder(r) PROVE PagesInv'
  BY <1>4, WithdrawStep, ReorderStep
<1>5. CASE UNCHANGED pagesVars
  <2>1. UNCHANGED <<sort, newestRow, key, walk, offset, shown, kept, added, withdrawn>>
    BY <1>5 DEF pagesVars
  <2>2. /\ Listable' = Listable /\ Total' = Total /\ Order' = Order /\ Shown' = Shown
        /\ \A r \in Rows : Rank(r)' = Rank(r)
    BY <2>1, SameOrder DEF Shown
  <2>3. kept \subseteq Rows /\ Listable \subseteq Rows
    BY DEF PagesInv, PagesTypeOK, Listable
  <2>4. PagesTypeOK'
    BY <2>1, <2>2 DEF PagesInv, PagesTypeOK
  <2>5. StillOk'
    BY <2>1, <2>2 DEF PagesInv, StillOk
  <2>6. StaysOk' /\ LeavesOk'
    BY <2>1, <2>2, <2>3 DEF PagesInv, StaysOk, LeavesOk
  <2> QED BY <2>1, <2>4, <2>5, <2>6 DEF PagesInv
<1> QED BY <1>1, <1>2, <1>3, <1>4, <1>5 DEF PagesNext

(* What the pages have shown so far and the ranks of what they have not    *)
(* (entries.py, conversations.py, topics.py: ORDER BY, LIMIT and OFFSET).  *)
THEOREM PagesInvariant == PagesSpec => []PagesInv
BY PagesBase, PagesStep, PTL DEF PagesSpec

(* Pages 0, N, 2N, .. are a partition of the list (entries.py:210): of the *)
(* whole when it stands still, without gaps for what stays while rows only *)
(* enter, and without repeats while rows only leave.                       *)
THEOREM PagesPartitioned == PagesSpec => []PagesPartition
<1>1. ASSUME PagesInv PROVE PagesPartition
  <2> SUFFICES ASSUME walk = "done"
               PROVE  /\ ~added /\ ~withdrawn => shown = Order
                      /\ ~withdrawn => \A r \in kept : \E i \in DOMAIN shown : shown[i] = r
                      /\ ~added => \A i, j \in DOMAIN shown : shown[i] = shown[j] => i = j
    BY DEF PagesPartition
  <2>1. PagesTypeOK
    BY <1>1 DEF PagesInv
  <2>2. shown \in Seq(Rows) /\ DOMAIN shown = 1 .. Len(shown)
    BY <2>1, ShownSeq
  <2>3. ASSUME ~added, ~withdrawn PROVE shown = Order
    <3>1. /\ offset >= Total
          /\ Len(shown) = IF offset < Total THEN offset ELSE Total
          /\ \A i \in 1 .. Len(shown) : shown[i] = Order[i]
      BY <1>1, <2>3 DEF PagesInv, StillOk
    <3>2. Len(shown) = Total
      BY <2>1, <3>1, ListFinite, PagesNumbers
    <3>3. Order \in Seq(Rows) /\ Len(Order) = Total
      BY <2>1, OrderLists
    <3> QED BY <2>2, <3>1, <3>2, <3>3, SeqEqual
  <2>4. ~withdrawn => \A r \in kept : r \in Shown
    BY <1>1 DEF PagesInv, StaysOk
  <2>5. ~added => \A i, j \in 1 .. Len(shown) : shown[i] = shown[j] => i = j
    BY <1>1 DEF PagesInv, LeavesOk
  <2> QED BY <2>2, <2>3, <2>4, <2>5 DEF Shown
<1> QED BY <1>1, PagesInvariant, PTL
=============================================================================
