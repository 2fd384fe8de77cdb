------------------------ MODULE ConversationArchive ------------------------
(***************************************************************************)
(* Saving conversations (storage/repositories/conversations.py), called by *)
(* the journal_save_conversation tool and by TXN 1 of the ingest endpoint: *)
(* the row, its messages, its linked entry, and the JSON file on disk that *)
(* belongs to no transaction.                                              *)
(*                                                                         *)
(* Every save writes one fresh file (uuid4), one batch of messages and one *)
(* text, so a save stands for all of them: s \in disk is its file, row[c]  *)
(* = s a row with its json_path and content, s \in messages[c] its batch.  *)
(* A conversation is a (topic, slug), i.e. a title in a topic.             *)
(***************************************************************************)
EXTENDS Naturals, FiniteSets

CONSTANTS Convs,     \* (topic, slug) pairs
          Saves,     \* calls of save_conversation
          Readers,   \* calls of read_conversation_by_id
          Pids,      \* (platform, platform_id) pairs
          Nothing

ASSUME ArchiveAssumption == Nothing \notin Convs \cup Saves \cup Pids

VARIABLES
  row,       \* conversations: the save that wrote each row
  platform,  \* conversations.platform, platform_id
  messages,  \* messages: the batches each conversation has
  entry,     \* the linked entries, named for the save that inserted them: text
  disk,      \* conversations_json
  rowLock,   \* the transaction holding each conversations row
  save,      \* the saves
  read       \* the readers

archiveVars == <<row, platform, messages, entry, disk, rowLock, save, read>>
tables == <<row, platform, messages, entry>>

---------------------------------------------------------------------------
(* Types and initial state                                                 *)

Open == {"messages", "linked", "platform", "commit"}
InFlight == {"upsert"} \cup Open
Committed == {"delete", "dropped", "done"}

Save == [pc : {"idle", "prepare", "failed", "skipped"} \cup InFlight \cup Committed,
         conv : Convs \cup {Nothing},
         pid : Pids \cup {Nothing},     \* set by ingest only
         old : Saves \cup {Nothing},    \* old_json_path
         isUpdate : BOOLEAN,
         prev : Saves \cup {Nothing},   \* the save this one replaced (history)
         seen : SUBSET Saves,           \* the batches its DELETE found
         link : Saves \cup {Nothing},   \* the linked entry it writes
         rank : Nat]                    \* its place among the row's saves (history)

Read == [pc : {"idle", "meta", "done"}, conv : Convs \cup {Nothing},
         meta : Saves \cup {Nothing}, batch : SUBSET Saves]

ArchiveTypeOK ==
  /\ row \in [Convs -> Saves \cup {Nothing}]
  /\ platform \in [Convs -> Pids \cup {Nothing}]
  /\ messages \in [Convs -> SUBSET Saves]
  /\ entry \in [Saves -> Saves \cup {Nothing}]
  /\ disk \in SUBSET Saves
  /\ rowLock \in [Convs -> Saves \cup {Nothing}]
  /\ save \in [Saves -> Save]
  /\ read \in [Readers -> Read]

ArchiveInit ==
  /\ row = [c \in Convs |-> Nothing]
  /\ platform = [c \in Convs |-> Nothing]
  /\ messages = [c \in Convs |-> {}]
  /\ entry = [s \in Saves |-> Nothing]
  /\ disk = {}
  /\ rowLock = [c \in Convs |-> Nothing]
  /\ save = [s \in Saves |-> [pc |-> "idle", conv |-> Nothing, pid |-> Nothing,
                              old |-> Nothing, isUpdate |-> FALSE, prev |-> Nothing,
                              seen |-> {}, link |-> Nothing, rank |-> 0]]
  /\ read = [r \in Readers |-> [pc |-> "idle", conv |-> Nothing, meta |-> Nothing,
                                batch |-> {}]]

---------------------------------------------------------------------------
(* What the actions share                                                  *)

SaveAt(s, pc) == save[s].pc = pc
SaveGoto(s, pc) == save' = [save EXCEPT ![s].pc = pc]
Unlock(s) == rowLock' = [c \in Convs |-> IF rowLock[c] = s THEN Nothing ELSE rowLock[c]]
LinkedEntries(c) == {e \in Saves : entry[e] # Nothing /\ save[e].conv = c}

---------------------------------------------------------------------------
(* A call arrives.  The tool saves at once; ingest looks for the platform  *)
(* id first, in a transaction of its own, and skips what it finds.         *)
StartSave(s, c, p) ==
  /\ SaveAt(s, "idle")
  /\ LET known == p # Nothing /\ \E d \in Convs : platform[d] = p
     IN save' = [save EXCEPT ![s].pc = IF known THEN "skipped" ELSE "prepare",
                             ![s].conv = c, ![s].pid = p]
  /\ UNCHANGED tables /\ UNCHANGED <<disk, rowLock, read>>

(* The transaction begins: read the old json_path, with no lock, and write *)
(* the new file.  The file is fresh, so nobody can tell the two apart.     *)
PrepareFile(s) ==
  /\ SaveAt(s, "prepare")
  /\ save' = [save EXCEPT ![s].old = row[save[s].conv], ![s].pc = "upsert"]
  /\ disk' = disk \cup {s}
  /\ UNCHANGED tables /\ UNCHANGED <<rowLock, read>>

(* INSERT ... ON CONFLICT DO UPDATE waits for whoever holds the row, and   *)
(* tells whether there was one (xmax # 0).  The row it wrote is its own    *)
(* until the end of the transaction.                                       *)
\* Mutant: the row is not locked by the upsert.
UpsertUnlocked(s) ==
  /\ SaveAt(s, "upsert")
  /\ save' = [save EXCEPT ![s].isUpdate = row[save[s].conv] # Nothing, ![s].pc = "messages"]
  /\ UNCHANGED tables /\ UNCHANGED <<disk, rowLock, read>>

UpsertRow(s) ==
  LET c == save[s].conv IN
  /\ SaveAt(s, "upsert") /\ rowLock[c] = Nothing
  /\ rowLock' = [rowLock EXCEPT ![c] = s]
  /\ save' = [save EXCEPT ![s].isUpdate = row[c] # Nothing, ![s].pc = "messages"]
  /\ UNCHANGED tables /\ UNCHANGED <<disk, read>>

(* DELETE FROM messages, then the inserts.                                 *)
RewriteMessages(s) ==
  /\ SaveAt(s, "messages")
  /\ save' = [save EXCEPT ![s].seen = messages[save[s].conv], ![s].pc = "linked"]
  /\ UNCHANGED tables /\ UNCHANGED <<disk, rowLock, read>>

\* Mutant: the superseded file goes before the commit.
UpsertLinkedDeleting(s) ==
  LET known == LinkedEntries(save[s].conv) IN
  /\ SaveAt(s, "linked")
  /\ \E e \in IF known = {} THEN {s} ELSE known :
       save' = [save EXCEPT ![s].link = e, ![s].pc = "commit"]
  /\ disk' = disk \ {save[s].old}
  /\ UNCHANGED tables /\ UNCHANGED <<rowLock, read>>

(* _upsert_linked_entry: SELECT by conversation_id, then update or insert. *)
UpsertLinked(s) ==
  LET known == LinkedEntries(save[s].conv) IN
  /\ SaveAt(s, "linked")
  /\ \E e \in IF known = {} THEN {s} ELSE known :
       save' = [save EXCEPT ![s].link = e,
                            ![s].pc = IF save[s].pid = Nothing THEN "commit" ELSE "platform"]
  /\ UNCHANGED tables /\ UNCHANGED <<disk, rowLock, read>>

(* set_platform_metadata, ingest only.  idx_conv_platform_dedup makes it   *)
(* wait for an open transaction with the same id, and fail on a row.       *)
PidFree(s) == \A d \in Convs \ {save[s].conv} : platform[d] # save[s].pid
PidAwaited(s) == \E t \in Saves \ {s} : save[t].pc = "commit" /\ save[t].pid = save[s].pid

\* Mutant: the index sees committed rows only, no one waits.
SetPlatformUnawaited(s) ==
  /\ SaveAt(s, "platform") /\ PidFree(s)
  /\ SaveGoto(s, "commit")
  /\ UNCHANGED tables /\ UNCHANGED <<disk, rowLock, read>>

SetPlatform(s) ==
  /\ SaveAt(s, "platform") /\ ~PidAwaited(s) /\ PidFree(s)
  /\ SaveGoto(s, "commit")
  /\ UNCHANGED tables /\ UNCHANGED <<disk, rowLock, read>>

Supersedes(s) == save[s].isUpdate /\ save[s].old \notin {Nothing, s}

(* The transaction is over: everything it wrote is there at once.  The     *)
(* caller may not hear of it (the connection or the process is lost).      *)
CommitSave(s, heard) ==
  LET c == save[s].conv IN
  /\ SaveAt(s, "commit")
  /\ row' = [row EXCEPT ![c] = s]
  /\ platform' = [platform EXCEPT ![c] = IF save[s].pid = Nothing THEN @ ELSE save[s].pid]
  /\ messages' = [messages EXCEPT ![c] = (@ \ save[s].seen) \cup {s}]
  /\ entry' = [entry EXCEPT ![save[s].link] = s]
  /\ save' = [save EXCEPT ![s].pc = CASE ~heard -> "dropped"
                                      [] heard /\ Supersedes(s) -> "delete"
                                      [] OTHER -> "done",
                          ![s].prev = row[c],
                          ![s].rank = IF row[c] = Nothing THEN 1 ELSE save[row[c]].rank + 1]
  /\ Unlock(s)
  /\ UNCHANGED <<disk, read>>

(* The file cannot be written, a statement fails, the platform id is       *)
(* taken, the connection breaks, the process dies: nothing but the file    *)
(* stays behind.                                                           *)
FailSave(s) ==
  /\ save[s].pc \in {"prepare"} \cup InFlight
  /\ SaveGoto(s, "failed")
  /\ Unlock(s)
  /\ UNCHANGED tables /\ UNCHANGED <<disk, read>>

(* delete_superseded_json_archive, after the commit; ingest calls it at    *)
(* the end of its batch.                                                   *)
DeleteSuperseded(s) ==
  /\ SaveAt(s, "delete")
  /\ disk' = disk \ {save[s].old}
  /\ SaveGoto(s, "done")
  /\ UNCHANGED tables /\ UNCHANGED <<rowLock, read>>

(* unlink fails, or the caller ends between commit and deletion.           *)
KeepSuperseded(s) ==
  /\ SaveAt(s, "delete")
  /\ SaveGoto(s, "dropped")
  /\ UNCHANGED tables /\ UNCHANGED <<disk, rowLock, read>>

---------------------------------------------------------------------------
(* read_conversation_by_id and its paginated form: the row, then its       *)
(* messages, in one transaction but with a snapshot for each statement.    *)

ReadRow(r, c) ==
  /\ read[r].pc = "idle" /\ row[c] # Nothing
  /\ read' = [read EXCEPT ![r] = [pc |-> "meta", conv |-> c, meta |-> row[c], batch |-> {}]]
  /\ UNCHANGED tables /\ UNCHANGED <<disk, rowLock, save>>

ReadMessages(r) ==
  /\ read[r].pc = "meta"
  /\ read' = [read EXCEPT ![r].batch = messages[read[r].conv], ![r].pc = "done"]
  /\ UNCHANGED tables /\ UNCHANGED <<disk, rowLock, save>>

---------------------------------------------------------------------------
SaveStep(s) ==
  \/ \E c \in Convs, p \in Pids \cup {Nothing} : StartSave(s, c, p)
  \/ PrepareFile(s) \/ UpsertRow(s) \/ RewriteMessages(s) \/ UpsertLinked(s) \/ SetPlatform(s)
  \/ \E heard \in BOOLEAN : CommitSave(s, heard)
  \/ FailSave(s) \/ DeleteSuperseded(s) \/ KeepSuperseded(s)
ReadStep(r) == (\E c \in Convs : ReadRow(r, c)) \/ ReadMessages(r)

ArchiveNext == (\E s \in Saves : SaveStep(s)) \/ (\E r \in Readers : ReadStep(r))
ArchiveSpec == ArchiveInit /\ [][ArchiveNext]_archiveVars

---------------------------------------------------------------------------
(* Properties                                                              *)

(* The json_path of a row names a file that exists, whatever saves race,   *)
(* roll back or die: the contract of save_conversation's docstring.        *)
RowFileKept == \A c \in Convs : row[c] # Nothing => row[c] \in disk

(* Row, messages and linked entry of a conversation are of one save: the   *)
(* upsert comes first and its row lock serialises the rest of the          *)
(* transaction.                                                            *)
OneSavePerRow ==
  \A c \in Convs : row[c] # Nothing =>
    /\ messages[c] = {row[c]}
    /\ \E e \in Saves : LinkedEntries(c) = {e} /\ entry[e] = row[c]

(* A file that no row names has a cause: its save is under way or failed,  *)
(* or the save that replaced it did not get to deleting it, or had read    *)
(* json_path before it was committed (two saves of one title overlapped).  *)
Replacer(s, f) == save[s].prev = f /\ (save[s].pc \in {"delete", "dropped"} \/ save[s].old # f)
OrphansExplained ==
  \A f \in disk :
    \/ \E c \in Convs : row[c] = f
    \/ save[f].pc \in InFlight \cup {"failed"}
    \/ \E s \in Saves : Replacer(s, f)

(* A reader that overlaps saves gets the messages of one save, never a     *)
(* mixture or none, and never of an older save than the row it read.       *)
ReadsOneBatch ==
  \A r \in Readers : read[r].pc = "done" =>
    \E s \in Saves : read[r].batch = {s} /\ save[s].rank >= save[read[r].meta].rank

(* What save_conversation leaves on disk and in the tables, through every  *)
(* overlap of saves and reads and every failure between two steps.         *)
FilesMatchRows == RowFileKept /\ OrphansExplained
OneSaveThroughout == OneSavePerRow /\ ReadsOneBatch

(* The whole promise, transactions and failures aside: a save is one step  *)
(* of SavedConversations (its commit) and everything else is hidden.       *)
linkedTexts == [c \in Convs |-> {entry[e] : e \in LinkedEntries(c)}]
archivedConvs == {c \in Convs : row[c] # Nothing /\ row[c] \in disk}
committedSaves == {s \in Saves : save[s].pc \in Committed}

Saved == INSTANCE SavedConversations WITH
           transcript <- messages, text <- linkedTexts, holder <- platform,
           archived <- archivedConvs, used <- committedSaves, answer <- read
ImplementsSaves == Saved!Spec
=============================================================================
