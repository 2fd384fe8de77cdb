---------------------------- MODULE HybridSearch ----------------------------
(***************************************************************************)
(* One journal search (services/search.py, called by tools/search.py and   *)
(* api/v1/web/search.py) while entries are edited away under it: keyword   *)
(* hits, nearest vectors, merge, decryption, ranking.  Its statements run  *)
(* in one READ COMMITTED transaction (user_scoped_connection), so each     *)
(* sees what is committed by then, and an error aborts those after it.     *)
(***************************************************************************)
EXTENDS Naturals, FiniteSets

CONSTANTS SEntries, SConvs,  \* the rows there are
          Corruptions,       \* the sets of rows that may not decrypt
          TopRank,           \* bound: ranks are 1 .. TopRank, 0 is no match
          Limit              \* the caller's clamped limit

ASSUME SearchAssumption ==
  /\ TopRank \in Nat /\ Limit \in Nat \ {0} /\ SEntries \cap SConvs = {}
  /\ IsFiniteSet(SEntries) /\ IsFiniteSet(SConvs)
  /\ Corruptions \subseteq SUBSET (SEntries \cup SConvs)

VARIABLES
  keyword,  \* ts_rank of each row for the query
  near,     \* similarity of each entry's vector, 0 below the floor
  corrupt,  \* the rows whose ciphertext does not decrypt
  live,     \* the entries that are not deleted
  search    \* the call: pc, embedded, aborted, hits, unread

searchVars == <<keyword, near, corrupt, live, search>>

---------------------------------------------------------------------------
Docs == SEntries \cup SConvs
Visible == live \cup SConvs
DocsOf(S) == {h.doc : h \in S}

\* A backend's order: best rank first, ties in any order.
Placings(S, rank) ==
  {f \in [S -> 1 .. Cardinality(S)] :
     \A d, e \in S : (f[d] = f[e] => d = e) /\ (rank[d] > rank[e] => f[d] < f[e])}
\* Its first Limit hits, each with its place in the list they are added to.
HitsOf(f, rank, base) ==
  {[doc |-> d, rank |-> rank[d], place |-> base + f[d]] : d \in {e \in DOMAIN f : f[e] <= Limit}}

(* Types.                                                                  *)
SearchTypeOK ==
  /\ keyword \in [Docs -> 0 .. TopRank] /\ near \in [SEntries -> 0 .. TopRank]
  /\ corrupt \subseteq Docs /\ live \subseteq SEntries
  /\ search \in [pc : {"encode", "fts", "semantic", "entries", "convs", "rank", "done", "error"},
                  embedded : BOOLEAN, aborted : BOOLEAN,
                  hits : SUBSET [doc : Docs, rank : 1 .. TopRank, place : 1 .. 2 * Limit],
                  unread : SUBSET Docs]

SearchInit ==
  /\ keyword \in [Docs -> 0 .. TopRank] /\ near \in [SEntries -> 0 .. TopRank]
  /\ corrupt \in Corruptions
  /\ live = SEntries
  /\ search = [pc |-> "encode", embedded |-> FALSE, aborted |-> FALSE,
               hits |-> {}, unread |-> {}]

At(pc) == search.pc = pc
Frame == UNCHANGED <<keyword, near, corrupt, live>>

---------------------------------------------------------------------------
\* encode_query, before the connection; a failure leaves the keywords.
EncodeQuery ==
  /\ At("encode")
  /\ \E ok \in BOOLEAN : search' = [search EXCEPT !.pc = "fts", !.embedded = ok]
  /\ Frame

FtsSearch ==
  /\ At("fts")
  /\ \E f \in Placings({d \in Visible : keyword[d] > 0}, keyword) :
       search' = [search EXCEPT !.pc = IF search.embedded THEN "semantic" ELSE "entries",
                                !.hits = HitsOf(f, keyword, 0)]
  /\ Frame

\* Mutant: the second backend's hits are not compared with the first's.
MergedBlindly(first, second) == first \cup second
\* Keyword hits first, then the entries that only the vectors found.
Merged(first, second) == first \cup {h \in second : h.doc \notin DocsOf(first)}

SemanticSearch ==
  /\ At("semantic")
  /\ \E f \in Placings({e \in live : near[e] > 0}, near) :
       search' = [search EXCEPT !.pc = "entries", !.hits = Merged(search.hits, HitsOf(f, near, Limit))]
  /\ Frame

\* A PostgresError is logged and swallowed; the transaction stays aborted.
SemanticFails ==
  /\ At("semantic")
  /\ search' = [search EXCEPT !.pc = "entries", !.aborted = TRUE]
  /\ Frame

\* Anything else, and any error of the keyword search, ends the call.
SearchRaises ==
  /\ search.pc \in {"fts", "semantic"}
  /\ search' = [search EXCEPT !.pc = "error"]
  /\ Frame

\* The rows a batch can show: an entry deleted by now is missing from it.
Readable(S) == (S \cap Visible) \ corrupt

(* get_texts and get_titles_summaries: no ids, no statement; a failed one  *)
(* leaves its hits with the sentinel.                                      *)
Hydrate(pc, next, S) ==
  LET asked == DocsOf(search.hits) \cap S IN
  /\ At(pc)
  /\ \E fails \in BOOLEAN :
       /\ asked = {} => ~fails
       /\ search.aborted /\ asked # {} => fails
       /\ search' = [search EXCEPT !.pc = next,
                                   !.aborted = @ \/ fails,
                                   !.unread = @ \cup (IF fails THEN asked ELSE asked \ Readable(asked))]
  /\ Frame

HydrateEntries == Hydrate("entries", "convs", SEntries)
HydrateConversations == Hydrate("convs", "rank", SConvs)

\* Stable: hits of one rank keep the order of the merge.
Outranks(g, h) == g.rank > h.rank \/ (g.rank = h.rank /\ g.place < h.place)
Best(hits) == {h \in hits : Cardinality({g \in hits : Outranks(g, h)}) < Limit}

BuildPayload ==
  /\ At("rank")
  /\ search' = [search EXCEPT !.pc = "done", !.hits = Best(search.hits)]
  /\ Frame

\* Another call deletes an entry, with its vector, before the texts are read.
DeleteFound(e) ==
  /\ e \in live /\ search.pc \in {"fts", "semantic", "entries"}
  /\ live' = live \ {e}
  /\ UNCHANGED <<keyword, near, corrupt, search>>

SearchNext ==
  \/ EncodeQuery \/ FtsSearch \/ SemanticSearch \/ SemanticFails \/ SearchRaises
  \/ HydrateEntries \/ HydrateConversations \/ BuildPayload
  \/ \E e \in SEntries : DeleteFound(e)

SearchSpec == SearchInit /\ [][SearchNext]_searchVars

---------------------------------------------------------------------------
AnsweredSearch == At("done")
Scores(d) == ({keyword[d]} \cup IF d \in SEntries /\ search.embedded /\ ~search.aborted
                                THEN {near[d]} ELSE {}) \ {0}

(* An answer lists a row once, and hides the text of a row only when its   *)
(* ciphertext is corrupt, it was deleted between the two reads, or a       *)
(* statement of the transaction failed.                                    *)
\* _run_dual_search, _hydrate_results.
HitsReadable ==
  AnsweredSearch =>
    /\ \A g, h \in search.hits : g.doc = h.doc => g = h
    /\ search.aborted \/ \A d \in search.unread : d \in corrupt \/ d \notin Visible

(* An answer leaves out a matching row only if it is full, and then of     *)
(* rows that rank no lower than the weaker match of the one left out; or   *)
(* else of an entry that the keywords do not match, behind Limit entries   *)
(* at least as near, where some of these are listed by their keyword rank. *)
\* Each backend cuts its own hits before the merge (_run_dual_search, _build_payload).
BestHitsKept ==
  AnsweredSearch =>
    \A d \in Visible \ DocsOf(search.hits) :
      LET nearer == {e \in SEntries \ {d} : near[e] >= near[d]}
      IN Scores(d) # {} =>
           /\ Cardinality(search.hits) = Limit
           /\ \/ \A h \in search.hits : \E r \in Scores(d) : h.rank >= r
              \/ /\ d \in SEntries /\ keyword[d] = 0
                 /\ Cardinality(nearer) >= Limit /\ \E e \in nearer : keyword[e] > 0

(* What the answer of a search says, and what it leaves out, is explained  *)
(* by the rows as the searches and the hydration found them.               *)
HitsExplained == HitsReadable /\ BestHitsKept
=============================================================================
