--------------------------- MODULE MCEntryIndex ---------------------------
(***************************************************************************)
(* Small instances of EntryIndex.  Tool calls, passes and texts are        *)
(* interchangeable; entry ids are not: the cursor compares them.           *)
(***************************************************************************)
EXTENDS EntryIndex, TLC

CallsAndTexts == Permutations(Tools) \cup Permutations(Workers) \cup Permutations(Texts)
===========================================================================
