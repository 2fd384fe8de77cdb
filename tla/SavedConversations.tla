------------------------- MODULE SavedConversations -------------------------
(***************************************************************************)
(* What the journal promises about saved conversations, with no            *)
(* transactions, no locks, no files to clean up and no failures:           *)
(*   - a save takes effect in one step and at most once: the row, its      *)
(*     transcript, its linked text, its file and its platform id change    *)
(*     together, or nothing does;                                          *)
(*   - a platform id belongs to one conversation;                          *)
(*   - a conversation once archived stays archived;                        *)
(*   - a reader gets one whole transcript, not older than the row it saw.  *)
(* ConversationArchive implements it (ConversationArchive_proofs).         *)
(***************************************************************************)
CONSTANTS Convs, Saves, Readers, Pids, Nothing

VARIABLES row,         \* the save each conversation is of, Nothing before
          transcript,  \* the message batches of each
          text,        \* the texts of the entries linked to each
          holder,      \* the platform id of each
          archived,    \* conversations whose row names an existing file
          used,        \* saves that have taken effect
          answer       \* the readers

savedVars == <<row, transcript, text, holder, archived, used, answer>>

Init == /\ row = [c \in Convs |-> Nothing]
        /\ transcript = [c \in Convs |-> {}]
        /\ text = [c \in Convs |-> {}]
        /\ holder = [c \in Convs |-> Nothing]
        /\ archived = {} /\ used = {}
        /\ answer = [r \in Readers |-> [pc |-> "idle", conv |-> Nothing, meta |-> Nothing,
                                        batch |-> {}]]

\* Ingest gives a platform id, the tool gives none and keeps what is there.
Take(s, c, p) ==
  /\ row' = [row EXCEPT ![c] = s]
  /\ s \notin used /\ used' = used \cup {s}
  /\ p # Nothing => \A d \in Convs \ {c} : holder[d] # p
  /\ transcript' = [transcript EXCEPT ![c] = {s}]
  /\ text' = [text EXCEPT ![c] = {s}]
  /\ holder' = [holder EXCEPT ![c] = IF p = Nothing THEN @ ELSE p]
  /\ archived' = archived \cup {c}
  /\ UNCHANGED answer

See(r, c) ==
  /\ answer[r].pc = "idle" /\ row[c] # Nothing
  /\ answer' = [answer EXCEPT ![r] = [pc |-> "meta", conv |-> c, meta |-> row[c],
                                      batch |-> {}]]
  /\ UNCHANGED <<row, transcript, text, holder, archived, used>>

Get(r) ==
  /\ answer[r].pc = "meta"
  /\ answer' = [answer EXCEPT ![r].pc = "done", ![r].batch = {row[answer[r].conv]}]
  /\ UNCHANGED <<row, transcript, text, holder, archived, used>>

Next == \/ \E s \in Saves, c \in Convs, p \in Pids \cup {Nothing} : Take(s, c, p)
        \/ \E r \in Readers : (\E c \in Convs : See(r, c)) \/ Get(r)

Spec == Init /\ [][Next]_savedVars
=============================================================================
