---------------------------- MODULE ListingPages ----------------------------
(***************************************************************************)
(* A client that pages through a list with limit and offset while the      *)
(* journal changes: the entries of a topic or of all topics, the timeline, *)
(* conversations and topics (the list functions of storage/repositories/). *)
(* Every page is a statement of its own over one ordering, ties broken by  *)
(* the row's serial id; an empty page needs a second statement for the     *)
(* total.  What the rows hold and the filters are abstracted to whether a  *)
(* row is in the list and to its sort key.                                 *)
(***************************************************************************)
EXTENDS Naturals, FiniteSets, Sequences

CONSTANTS
  LastRow,   \* bound of the serial ids
  LastKey,   \* bound of the sort keys: dates, or the times of updates
  PageSize   \* the client's limit

ASSUME PagesAssumption ==
  /\ LastRow \in Nat /\ LastKey \in Nat \ {0} /\ PageSize \in Nat \ {0}

Rows == 1 .. LastRow
Out == 0  \* the key of a row that the filters leave out, or that is deleted
Keys == 1 .. LastKey

VARIABLES
  sort,      \* "newest" or "oldest" first
  newestRow, \* the last serial id given
  key,       \* the sort key of each row
  walk,      \* paging, counting (the page was empty) or done
  offset,    \* of the next page
  shown,     \* the rows of the pages so far
  kept,      \* the rows that have stayed in their place since the first page
  added,     \* a row has entered the list since the first page
  withdrawn  \* a row has left the list since the first page

pagesVars == <<sort, newestRow, key, walk, offset, shown, kept, added, withdrawn>>

---------------------------------------------------------------------------
Listable == {r \in Rows : key[r] # Out}

Newer(r, s) == key[r] > key[s] \/ (key[r] = key[s] /\ r > s)

\* Mutant: the first page starts at one end and the others at the opposite.
BeforeFlipped(r, s) == IF (sort = "newest") = (offset = 0) THEN Newer(r, s) ELSE Newer(s, r)
Before(r, s) == IF sort = "newest" THEN Newer(r, s) ELSE Newer(s, r)

\* The rows of the list before r, and the list in its order.
Rank(r) == Cardinality({s \in Listable : Before(s, r)})
Order == [i \in 1 .. Cardinality(Listable) |-> CHOOSE r \in Listable : Rank(r) = i - 1]

Page == SubSeq(Order, offset + 1, IF offset + PageSize < Len(Order) THEN offset + PageSize ELSE Len(Order))

PagesTypeOK ==
  /\ sort \in {"newest", "oldest"} /\ newestRow \in 0 .. LastRow
  /\ key \in [Rows -> Keys \cup {Out}]
  /\ walk \in {"paging", "counting", "done"}
  /\ offset \in 0 .. LastRow + PageSize
  /\ shown \in Seq(Rows)
  /\ kept \subseteq Listable
  /\ added \in BOOLEAN /\ withdrawn \in BOOLEAN

PagesInit ==
  /\ sort \in {"newest", "oldest"} /\ newestRow \in 0 .. LastRow
  /\ key \in {f \in [Rows -> Keys \cup {Out}] : \A r \in Rows : f[r] # Out <=> r <= newestRow}
  /\ walk = "paging" /\ offset = 0 /\ shown = <<>>
  /\ kept = 1 .. newestRow /\ added = FALSE /\ withdrawn = FALSE

---------------------------------------------------------------------------
\* The client goes on until the offset reaches the total it was told.
GoOn(total) ==
  /\ offset' = offset + PageSize
  /\ walk' = IF offset + PageSize < total THEN "paging" ELSE "done"

FetchPage ==
  /\ walk = "paging"
  /\ IF Page = <<>>
       THEN walk' = "counting" /\ UNCHANGED <<offset, shown>>
       ELSE shown' = shown \o Page /\ GoOn(Len(Order))
  /\ UNCHANGED <<sort, newestRow, key, kept, added, withdrawn>>

CountRows ==
  /\ walk = "counting"
  /\ GoOn(Cardinality(Listable))
  /\ UNCHANGED <<sort, newestRow, key, shown, kept, added, withdrawn>>

\* A row is inserted, with any date.
Enter ==
  /\ newestRow < LastRow
  /\ newestRow' = newestRow + 1 /\ \E k \in Keys : key' = [key EXCEPT ![newestRow + 1] = k]
  /\ added' = TRUE
  /\ UNCHANGED <<sort, walk, offset, shown, kept, withdrawn>>

\* A row is deleted, or an edit takes it out of the filters.
Withdraw(r) ==
  /\ key[r] # Out
  /\ key' = [key EXCEPT ![r] = Out]
  /\ kept' = kept \ {r} /\ withdrawn' = TRUE
  /\ UNCHANGED <<sort, newestRow, walk, offset, shown, added>>

\* An edit moves a row: a new date, or whatever is written into a topic.
Reorder(r) ==
  /\ key[r] # Out
  /\ \E k \in Keys \ {key[r]} : key' = [key EXCEPT ![r] = k]
  /\ kept' = kept \ {r} /\ added' = TRUE /\ withdrawn' = TRUE
  /\ UNCHANGED <<sort, newestRow, walk, offset, shown>>

PagesNext == FetchPage \/ CountRows \/ Enter \/ (\E r \in Rows : Withdraw(r) \/ Reorder(r))

PagesSpec == PagesInit /\ [][PagesNext]_pagesVars

---------------------------------------------------------------------------
(* Pages 0, N, 2N, .. are a real partition (entries.py:210): when the list *)
(* stands still they show every row once, in order; while rows only enter  *)
(* it no row that stays is skipped, and while rows only leave it none is   *)
(* shown twice.                                                            *)
PagesPartition ==
  walk = "done" =>
    /\ ~added /\ ~withdrawn => shown = Order
    /\ ~withdrawn => \A r \in kept : \E i \in DOMAIN shown : shown[i] = r
    /\ ~added => \A i, j \in DOMAIN shown : shown[i] = shown[j] => i = j
=============================================================================
