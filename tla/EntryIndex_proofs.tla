------------------------- MODULE EntryIndex_proofs -------------------------
(***************************************************************************)
(* Theorems about entries, vectors and reindex passes, for any number of   *)
(* entries, texts, tool calls and passes and any batch size; also what a   *)
(* pass has left to do, which its steps lower.  And about a search of the  *)
(* journal: what its answer says and leaves out, for any finite sets of    *)
(* rows, any ranks and any limit.                                          *)
(***************************************************************************)
EXTENDS EntryIndex, HybridSearch, FiniteSetTheorems, WellFoundedInduction, TLAPS

(* In a finite set whose elements point to a set each, where a target's    *)
(* set is smaller than its source's, some element points to nothing.       *)
LEMMA SmallestShadow ==
  ASSUME NEW S, IsFiniteSet(S), S # {}, NEW f \in [S -> SUBSET S],
         \A x \in S : \A y \in f[x] : f[y] \subseteq f[x] /\ y \notin f[y]
  PROVE  \E x \in S : f[x] = {}
<1> DEFINE R == StrictSubsetOrdering(S)
           T == {f[x] : x \in S}
<1>1. IsWellFoundedOn(R, SUBSET S)
  BY FS_StrictSubsetOrderingWellFounded, FS_FiniteSubsetsOfFinite
<1>2. T \subseteq SUBSET S /\ T # {}
  OBVIOUS
<1>3. PICK A \in T : \A B \in T : <<B, A>> \notin R
  <2> HIDE DEF T, R
  <2> QED BY <1>1, <1>2, WFMin
<1>4. PICK x \in S : A = f[x]
  OBVIOUS
<1>5. ASSUME NEW y \in f[x] PROVE FALSE
  <2>1. y \in S /\ f[y] \in T /\ f[y] \in SUBSET S /\ f[x] \in SUBSET S
    OBVIOUS
  <2>2. f[y] \subseteq f[x] /\ f[y] # f[x]
    OBVIOUS
  <2>3. <<f[y], f[x]>> \in R
    BY <2>1, <2>2 DEF StrictSubsetOrdering
  <2> QED BY <1>3, <1>4, <2>1, <2>3
<1> QED BY <1>5

(* A non-empty set of entry ids has a least and a greatest element.        *)
LEMMA Extrema ==
  ASSUME NEW S \in SUBSET Entries, S # {}
  PROVE  Min(S) \in S /\ Max(S) \in S
<1>1. S \subseteq Int
  BY IndexAssumption
<1>2. IsFiniteSet(S)
  <2>1. IsFiniteSet(Entries)
    BY IndexAssumption
  <2> QED BY <2>1, FS_Subset
<1>3. \E x \in S : \A y \in S : x >= y
  <2> DEFINE above == [x \in S |-> {y \in S : y > x}]
  <2>1. \A x \in S : \A y \in above[x] : above[y] \subseteq above[x] /\ y \notin above[y]
    <3> SUFFICES ASSUME NEW x \in S, NEW y \in S, y > x
                 PROVE  above[y] \subseteq above[x] /\ y \notin above[y]
      OBVIOUS
    <3>1. \A z \in S : z > y => z > x
      BY <1>1
    <3>2. ~(y > y)
      BY <1>1
    <3> QED BY <3>1, <3>2
  <2>2. above \in [S -> SUBSET S]
    OBVIOUS
  <2>3. \E x \in S : above[x] = {}
    <3> HIDE DEF above
    <3> QED BY <1>2, <2>1, <2>2, SmallestShadow
  <2> QED BY <1>1, <2>3
<1>4. \E x \in S : \A y \in S : x =< y
  <2> DEFINE below == [x \in S |-> {y \in S : y < x}]
  <2>1. \A x \in S : \A y \in below[x] : below[y] \subseteq below[x] /\ y \notin below[y]
    <3> SUFFICES ASSUME NEW x \in S, NEW y \in S, y < x
                 PROVE  below[y] \subseteq below[x] /\ y \notin below[y]
      OBVIOUS
    <3>1. \A z \in S : z < y => z < x
      BY <1>1
    <3>2. ~(y < y)
      BY <1>1
    <3> QED BY <3>1, <3>2
  <2>2. below \in [S -> SUBSET S]
    OBVIOUS
  <2>3. \E x \in S : below[x] = {}
    <3> HIDE DEF below
    <3> QED BY <1>2, <2>1, <2>2, SmallestShadow
  <2> QED BY <1>1, <2>3
<1> QED BY <1>3, <1>4 DEF Min, Max

(* A pass stays one whichever of its fields a step sets.                   *)
LEMMA PassFields ==
  ASSUME NEW p \in Pass
  PROVE  /\ \A S \in SUBSET Entries :
              /\ [p EXCEPT !.owe = S] \in Pass /\ [p EXCEPT !.todo = S] \in Pass
              /\ [p EXCEPT !.done = S] \in Pass /\ [p EXCEPT !.failed = S] \in Pass
         /\ \A f \in [Entries -> TextOrNone] : [p EXCEPT !.text = f] \in Pass
         /\ \A n \in Entries \cup {0} : [p EXCEPT !.last = n] \in Pass
         /\ [p EXCEPT !.pc = "embed"] \in Pass
BY DEF Pass

LEMMA EndedPassType ==
  ASSUME NEW pc \in {"idle", "claim", "drained"}, NEW S \in SUBSET Entries
  PROVE  EndedPass(pc, S) \in Pass
BY DEF EndedPass, Pass, TextOrNone

LEMMA NextCursorType ==
  ASSUME NEW p \in Pass
  PROVE  NextCursor(p) \in Pass
<1>1. CASE p.done = {}
  BY <1>1, EndedPassType DEF NextCursor
<1>2. CASE p.done # {}
  <2>1. p.done \in SUBSET Entries /\ p.owe \in SUBSET Entries
    BY DEF Pass
  <2>2. EndedPass("claim", p.owe) \in Pass /\ Max(p.done) \in Entries
    BY <1>2, <2>1, Extrema, EndedPassType
  <2>3. [EndedPass("claim", p.owe) EXCEPT !.last = Max(p.done)] \in Pass
    BY <2>2, PassFields
  <2> QED BY <1>2, <2>3 DEF NextCursor
<1> QED BY <1>1, <1>2

----------------------------------------------------------------------------
(* The invariant by the part of the state each conjunct is about.          *)

RowsTyped == /\ entry \in [Entries -> EntryRow] /\ emb \in [Entries -> TextOrNone]
             /\ raced \in SUBSET Entries /\ lost \in SUBSET Entries
ToolsFine == tool \in [Tools -> ToolCall] /\ ToolsAtWork
PassesFine == pass \in [Workers -> Pass] /\ PassesAtWork /\ OwedAhead /\ PassDrains
VectorsFine == StampMeansCurrent /\ VectorsAccounted

LEMMA Parts ==
  /\ IInv <=> RowsTyped /\ ToolsFine /\ PassesFine /\ VectorsFine
  /\ IInv' <=> RowsTyped' /\ ToolsFine' /\ PassesFine' /\ VectorsFine'
BY DEF IInv, TypeOK, RowsTyped, ToolsFine, PassesFine, VectorsFine

LEMMA IndexInit == Init => IInv
<1> SUFFICES ASSUME Init PROVE RowsTyped /\ ToolsFine /\ PassesFine /\ VectorsFine
  BY Parts
<1>1. RowsTyped
  BY DEF Init, RowsTyped, TextOrNone
<1>2. ToolsFine
  BY DEF Init, ToolsFine, ToolsAtWork, AtTool, IdleTool, ToolCall, TextOrNone
<1>3. PassesFine
  <2>1. EndedPass("idle", {}) \in Pass
    BY EndedPassType
  <2> QED BY <2>1 DEF Init, PassesFine, PassesAtWork, OwedAhead, PassDrains, AtPass, EndedPass
<1>4. VectorsFine
  BY DEF Init, VectorsFine, StampMeansCurrent, VectorsAccounted
<1> QED BY <1>1, <1>2, <1>3, <1>4

(* What the writes do to the row they write, and to no other.              *)
LEMMA WriteEffect ==
  ASSUME RowsTyped, NEW e \in Entries, NEW text \in Texts, NEW i \in BOOLEAN, Write(e, text, i)
  PROVE  /\ entry' \in [Entries -> EntryRow]
         /\ \A f \in Entries \ {e} : entry'[f] = entry[f]
         /\ entry'[e].text = text /\ entry'[e].indexed = i
BY DEF RowsTyped, Write, EntryRow, TextOrNone

LEMMA MarkEffect ==
  ASSUME RowsTyped, NEW e \in Entries, MarkIndexed(e)
  PROVE  /\ entry' \in [Entries -> EntryRow]
         /\ \A f \in Entries \ {e} : entry'[f] = entry[f]
         /\ entry'[e].text = entry[e].text
BY DEF RowsTyped, MarkIndexed, EntryRow

LEMMA StoreEffect ==
  ASSUME RowsTyped, NEW e \in Entries, NEW text \in TextOrNone, StoreVector(e, text)
  PROVE  /\ emb' \in [Entries -> TextOrNone] /\ raced' \in SUBSET Entries
         /\ \A f \in Entries \ {e} : emb'[f] = emb[f] /\ (f \in raced' <=> f \in raced)
         /\ emb'[e] = entry[e].text \/ e \in raced'
BY DEF RowsTyped, StoreVector

(* A step that writes some rows keeps the vectors' invariant if it holds   *)
(* for those rows and no claim of another row is dropped.                  *)
LEMMA SomeRows ==
  ASSUME VectorsFine, NEW S \in SUBSET Entries,
         \A f \in Entries \ S : /\ entry'[f] = entry[f] /\ emb'[f] = emb[f]
                                /\ f \in raced' <=> f \in raced
                                /\ f \in lost' <=> f \in lost
                                /\ Claimed(f) => Claimed(f)',
         \A e \in S : /\ Alive(e)' /\ entry'[e].indexed /\ ~Claimed(e)' /\ e \notin raced' \cup lost'
                         => emb'[e] = entry'[e].text
                      /\ e \notin Linked => emb'[e] \in {None, entry'[e].text} \/ e \in raced'
  PROVE  VectorsFine'
<1>1. ASSUME NEW f \in Entries, Alive(f)', entry'[f].indexed, ~Claimed(f)',
             f \notin raced' \cup lost'
      PROVE  emb'[f] = entry'[f].text
  <2>1. CASE f \in S
    BY <1>1, <2>1
  <2>2. CASE f \notin S
    BY <1>1, <2>2 DEF VectorsFine, StampMeansCurrent, Alive, Present
  <2> QED BY <2>1, <2>2
<1>2. VectorsAccounted'
  BY DEF VectorsFine, VectorsAccounted
<1> QED BY <1>1, <1>2 DEF VectorsFine, StampMeansCurrent

LEMMA OneRow ==
  ASSUME VectorsFine, NEW e \in Entries,
         \A f \in Entries \ {e} : /\ entry'[f] = entry[f] /\ emb'[f] = emb[f]
                                  /\ f \in raced' <=> f \in raced
                                  /\ f \in lost' <=> f \in lost
                                  /\ Claimed(f) => Claimed(f)',
         Alive(e)' /\ entry'[e].indexed /\ ~Claimed(e)' /\ e \notin raced' \cup lost'
           => emb'[e] = entry'[e].text,
         e \notin Linked => emb'[e] \in {None, entry'[e].text} \/ e \in raced'
  PROVE  VectorsFine'
<1> DEFINE S == {e}
<1>1. S \in SUBSET Entries
  OBVIOUS
<1>2. \A f \in Entries \ S : /\ entry'[f] = entry[f] /\ emb'[f] = emb[f]
                             /\ f \in raced' <=> f \in raced
                             /\ f \in lost' <=> f \in lost
                             /\ Claimed(f) => Claimed(f)'
  OBVIOUS
<1>3. \A f \in S : /\ Alive(f)' /\ entry'[f].indexed /\ ~Claimed(f)' /\ f \notin raced' \cup lost'
                        => emb'[f] = entry'[f].text
                   /\ f \notin Linked => emb'[f] \in {None, entry'[f].text} \/ f \in raced'
  OBVIOUS
<1> HIDE DEF S
<1> QED BY <1>1, <1>2, <1>3, SomeRows

(* The invariant of a pass p when the rows of U wait to be embedded.       *)
PassOK(p, U) ==
  /\ p.pc # "embed" => p.todo = {} /\ p.done = {} /\ p.failed = {}
  /\ p.pc = "claim" => \A e \in p.owe : e \in U /\ e > p.last
  /\ p.pc = "embed" =>
       \A e \in p.owe \ p.todo : e \in U /\ \A f \in p.todo \cup p.done \cup p.failed : e > f
  /\ p.pc = "drained" => p.owe = {}

Waiting == {e \in Entries : Unindexed(e)}

LEMMA EachPass ==
  /\ PassesFine <=> pass \in [Workers -> Pass] /\ \A w \in Workers : PassOK(pass[w], Waiting)
  /\ PassesFine' <=> pass' \in [Workers -> Pass] /\ \A w \in Workers : PassOK(pass'[w], Waiting')
<1>1. PassesFine <=> pass \in [Workers -> Pass] /\ \A w \in Workers : PassOK(pass[w], Waiting)
  BY DEF PassesFine, PassesAtWork, OwedAhead, PassDrains, AtPass, PassOK, Waiting, Pass
<1>2. PassesFine' <=> pass' \in [Workers -> Pass] /\ \A w \in Workers : PassOK(pass'[w], Waiting')
  BY DEF PassesFine, PassesAtWork, OwedAhead, PassDrains, AtPass, PassOK, Waiting, Pass
<1> QED BY <1>1, <1>2

Owing(p, S) == [p EXCEPT !.owe = p.owe \ S]

(* A pass that owes less is fine when no other row stops waiting.          *)
LEMMA OweLess ==
  ASSUME NEW p \in Pass, NEW S, NEW U, NEW V, PassOK(p, U), U \ S \subseteq V
  PROVE  /\ Owing(p, S) \in Pass /\ PassOK(Owing(p, S), V)
         /\ Owing(p, S).todo = p.todo /\ Owing(p, S).failed = p.failed
BY DEF Pass, PassOK, Owing

(* The writers of rows strike them from what the passes owe.               *)
LEMMA TouchedPasses ==
  ASSUME PassesFine, NEW S \in SUBSET Entries, Touched(S),
         \A e \in Entries \ S : entry'[e] = entry[e]
  PROVE  PassesFine' /\ \A e \in Entries : Claimed(e)' <=> Claimed(e)
<1>1. Waiting \ S \subseteq Waiting'
  BY DEF Waiting, Unindexed, Alive, Present
<1>2. \A w \in Workers : pass[w] \in Pass /\ PassOK(pass[w], Waiting)
  BY EachPass
<1>3. \A w \in Workers : pass'[w] = Owing(pass[w], S)
  BY DEF Touched, Owing
<1>4. \A w \in Workers : /\ pass'[w] \in Pass /\ PassOK(pass'[w], Waiting')
                         /\ pass'[w].todo = pass[w].todo /\ pass'[w].failed = pass[w].failed
  <2> SUFFICES ASSUME NEW w \in Workers
               PROVE  /\ pass'[w] \in Pass /\ PassOK(pass'[w], Waiting')
                      /\ pass'[w].todo = pass[w].todo /\ pass'[w].failed = pass[w].failed
    OBVIOUS
  <2> QED BY <1>1, <1>2, <1>3, OweLess
<1>5. pass' \in [Workers -> Pass]
  BY <1>4 DEF Touched
<1> QED BY <1>4, <1>5, EachPass DEF Claimed

(* A step of one pass, which may take rows from the others.                *)
LEMMA OnePass ==
  ASSUME PassesFine, NEW w \in Workers, NEW q \in Pass, NEW S,
         pass' = [v \in Workers |-> pass'[v]], pass'[w] = q,
         \A v \in Workers \ {w} : \/ pass'[v] = Owing(pass[v], S)
                                  \/ pass'[v] = pass[v] /\ S = {},
         Waiting \ S \subseteq Waiting',
         PassOK(q, Waiting')
  PROVE  /\ PassesFine'
         /\ \A e \in Entries : Claimed(e) /\ e \notin pass[w].todo \cup pass[w].failed
                                 => Claimed(e)'
         /\ \A e \in q.todo \cup q.failed : Claimed(e)'
<1>1. \A v \in Workers : pass[v] \in Pass /\ PassOK(pass[v], Waiting)
  BY EachPass
<1>2. \A v \in Workers \ {w} : /\ pass'[v] \in Pass /\ PassOK(pass'[v], Waiting')
                               /\ pass'[v].todo = pass[v].todo
                               /\ pass'[v].failed = pass[v].failed
  <2> SUFFICES ASSUME NEW v \in Workers \ {w}
               PROVE  /\ pass'[v] \in Pass /\ PassOK(pass'[v], Waiting')
                      /\ pass'[v].todo = pass[v].todo
                      /\ pass'[v].failed = pass[v].failed
    OBVIOUS
  <2>1. CASE pass'[v] = Owing(pass[v], S)
    <3>1. pass[v] \in Pass /\ PassOK(pass[v], Waiting) /\ Waiting \ S \subseteq Waiting'
      BY <1>1
    <3>2. /\ Owing(pass[v], S) \in Pass /\ PassOK(Owing(pass[v], S), Waiting')
          /\ Owing(pass[v], S).todo = pass[v].todo
          /\ Owing(pass[v], S).failed = pass[v].failed
      BY <3>1, OweLess
    <3> QED BY <2>1, <3>2
  <2>2. CASE pass'[v] = pass[v] /\ S = {}
    BY <1>1, <2>2 DEF PassOK
  <2> QED BY <2>1, <2>2
<1>3. \A v \in Workers : pass'[v] \in Pass /\ PassOK(pass'[v], Waiting')
  BY <1>2
<1>4. pass' \in [Workers -> Pass]
  BY <1>3
<1> QED BY <1>2, <1>3, <1>4, EachPass DEF Claimed

(* The three ways a tool call moves on.                                    *)
LEMMA ToolMoves ==
  ASSUME ToolsFine, NEW t \in Tools
  PROVE  /\ \A pc \in {"embed", "read", "reembed", "linked"}, e \in Entries, text \in TextOrNone :
              Call(t, pc, e, text) /\ (pc = "embed" => e \notin Linked) => ToolsFine'
         /\ Return(t) => ToolsFine'
         /\ AtTool(t, "embed") /\ tool' = [tool EXCEPT ![t].pc = "mark"] => ToolsFine'
         /\ AtTool(t, "reembed") /\ tool' = [tool EXCEPT ![t].pc = "store"] => ToolsFine'
<1>1. ASSUME NEW pc \in {"embed", "read", "reembed", "linked"}, NEW e \in Entries,
             NEW text \in TextOrNone, Call(t, pc, e, text), pc = "embed" => e \notin Linked
      PROVE  ToolsFine'
  BY <1>1 DEF ToolsFine, ToolsAtWork, AtTool, Call, ToolCall
<1>2. ASSUME Return(t) PROVE ToolsFine'
  BY <1>2 DEF ToolsFine, ToolsAtWork, AtTool, Return, IdleTool, ToolCall, TextOrNone
<1>3. ASSUME AtTool(t, "embed"), tool' = [tool EXCEPT ![t].pc = "mark"] PROVE ToolsFine'
  BY <1>3 DEF ToolsFine, ToolsAtWork, AtTool, ToolCall
<1>4. ASSUME AtTool(t, "reembed"), tool' = [tool EXCEPT ![t].pc = "store"] PROVE ToolsFine'
  BY <1>4 DEF ToolsFine, ToolsAtWork, AtTool, ToolCall
<1> QED BY <1>1, <1>2, <1>3, <1>4

----------------------------------------------------------------------------
(* Tools and web handlers.                                                 *)

LEMMA ToolKeeps ==
  ASSUME IInv, NEW t \in Tools, ToolStep(t)
  PROVE  IInv'
<1>0. RowsTyped /\ ToolsFine /\ PassesFine /\ VectorsFine
  BY Parts
<1>i. ~AtTool(t, "idle") => tool[t].id \in Entries
  BY <1>0 DEF ToolsFine, ToolsAtWork
<1>x. tool[t].text \in TextOrNone
  BY <1>0 DEF ToolsFine, ToolCall
<1> SUFFICES RowsTyped' /\ ToolsFine' /\ PassesFine' /\ VectorsFine'
  BY Parts
<1>s. ASSUME UNCHANGED <<entry, emb, pass, raced, lost>>, ToolsFine'
      PROVE  RowsTyped' /\ ToolsFine' /\ PassesFine' /\ VectorsFine'
  <2>1. PassesFine'
    BY <1>0, <1>s DEF PassesFine, PassesAtWork, PassDrains, OwedAhead, AtPass,
                      Unindexed, Alive, Present
  <2>2. VectorsFine'
    BY <1>0, <1>s DEF VectorsFine, StampMeansCurrent, VectorsAccounted, Alive, Present, Claimed
  <2> QED BY <1>0, <1>s, <2>1, <2>2 DEF RowsTyped
<1>1. ASSUME NEW e \in Entries, Append(t, e)
      PROVE  RowsTyped' /\ ToolsFine' /\ PassesFine' /\ VectorsFine'
  <2>1. PICK text \in Texts : Write(e, text, FALSE) /\ Call(t, "embed", e, text)
    BY <1>1 DEF Append
  <2>2. e \notin Linked /\ ~Present(e) /\ UNCHANGED <<emb, raced, lost>> /\ Touched({e})
    BY <1>1 DEF Append
  <2>3. /\ entry' \in [Entries -> EntryRow]
        /\ \A f \in Entries \ {e} : entry'[f] = entry[f]
        /\ entry'[e].indexed = FALSE
    BY <1>0, <2>1, WriteEffect
  <2>4. ToolsFine'
    BY <1>0, <2>1, <2>2, ToolMoves DEF TextOrNone
  <2>5. PassesFine' /\ \A f \in Entries : Claimed(f)' <=> Claimed(f)
    BY <1>0, <2>2, <2>3, TouchedPasses
  <2>6. emb[e] = None \/ e \in raced
    BY <1>0, <2>2 DEF VectorsFine, VectorsAccounted, Present
  <2>7. VectorsFine'
    BY <1>0, <2>2, <2>3, <2>5, <2>6, OneRow
  <2> QED BY <1>0, <2>2, <2>3, <2>4, <2>5, <2>7 DEF RowsTyped
<1>2. ASSUME NEW e \in Entries, Update(t, e)
      PROVE  RowsTyped' /\ ToolsFine' /\ PassesFine' /\ VectorsFine'
  <2>1. PICK text \in Texts : /\ Write(e, text, FALSE)
                              /\ Call(t, "reembed", e, text) \/ Call(t, "read", e, None)
    BY <1>2 DEF Update
  <2>2. /\ emb' = [emb EXCEPT ![e] = None]
        /\ raced' = raced \ {e} /\ lost' = lost \ {e} /\ Touched({e})
    BY <1>2 DEF Update
  <2>3. /\ entry' \in [Entries -> EntryRow]
        /\ \A f \in Entries \ {e} : entry'[f] = entry[f]
        /\ entry'[e].indexed = FALSE
    BY <1>0, <2>1, WriteEffect
  <2>4. ToolsFine'
    BY <1>0, <2>1, ToolMoves DEF TextOrNone
  <2>5. PassesFine' /\ \A f \in Entries : Claimed(f)' <=> Claimed(f)
    BY <1>0, <2>2, <2>3, TouchedPasses
  <2>6. RowsTyped'
    BY <1>0, <2>2, <2>3 DEF RowsTyped, TextOrNone
  <2>7. emb'[e] = None /\ \A f \in Entries \ {e} : emb'[f] = emb[f]
    BY <1>0, <2>2 DEF RowsTyped
  <2>8. VectorsFine'
    BY <1>0, <2>2, <2>3, <2>5, <2>7, OneRow
  <2> QED BY <2>4, <2>5, <2>6, <2>8
<1>3. ASSUME NEW e \in Entries, SaveLinked(t, e)
      PROVE  RowsTyped' /\ ToolsFine' /\ PassesFine' /\ VectorsFine'
  <2>1. PICK text \in Texts : Write(e, text, FALSE) /\ Call(t, "linked", e, text)
    BY <1>3 DEF SaveLinked
  <2>2. /\ e \in Linked /\ UNCHANGED emb
        /\ raced' = raced \ {e} /\ lost' = lost \ {e} /\ Touched({e})
    BY <1>3 DEF SaveLinked
  <2>3. /\ entry' \in [Entries -> EntryRow]
        /\ \A f \in Entries \ {e} : entry'[f] = entry[f]
        /\ entry'[e].indexed = FALSE
    BY <1>0, <2>1, WriteEffect
  <2>4. ToolsFine'
    BY <1>0, <2>1, ToolMoves DEF TextOrNone
  <2>5. PassesFine' /\ \A f \in Entries : Claimed(f)' <=> Claimed(f)
    BY <1>0, <2>2, <2>3, TouchedPasses
  <2>6. RowsTyped'
    BY <1>0, <2>2, <2>3 DEF RowsTyped
  <2>7. VectorsFine'
    BY <1>0, <2>2, <2>3, <2>5, OneRow
  <2> QED BY <2>4, <2>5, <2>6, <2>7
<1>4. CASE EmbedEntry(t)
  <2> DEFINE e == tool[t].id
  <2>1. e \in Entries
    BY <1>4, <1>i DEF EmbedEntry, AtTool
  <2>2. /\ StoreVector(e, tool[t].text) /\ lost' = lost \ {e}
        /\ UNCHANGED entry /\ Touched({e})
    BY <1>4 DEF EmbedEntry
  <2>3. /\ emb' \in [Entries -> TextOrNone] /\ raced' \in SUBSET Entries
        /\ \A f \in Entries \ {e} : emb'[f] = emb[f] /\ (f \in raced' <=> f \in raced)
        /\ emb'[e] = entry[e].text \/ e \in raced'
    BY <1>0, <1>x, <2>1, <2>2, StoreEffect
  <2>4. ToolsFine'
    BY <1>0, <1>4, ToolMoves DEF EmbedEntry
  <2> HIDE DEF e
  <2>5. PassesFine' /\ \A f \in Entries : Claimed(f)' <=> Claimed(f)
    BY <1>0, <2>1, <2>2, TouchedPasses
  <2>6. RowsTyped'
    BY <1>0, <2>2, <2>3 DEF RowsTyped
  <2>7. VectorsFine'
    BY <1>0, <2>1, <2>2, <2>3, <2>5, OneRow
  <2> QED BY <2>4, <2>5, <2>6, <2>7
<1>5. CASE MarkAppended(t)
  <2> DEFINE e == tool[t].id
  <2>1. e \in Entries /\ e \notin Linked
    BY <1>0, <1>5, <1>i DEF MarkAppended, AtTool, ToolsFine, ToolsAtWork
  <2>2. /\ MarkIndexed(e) /\ Touched({e}) /\ UNCHANGED <<emb, raced>> /\ Return(t)
        /\ lost' = IF emb[e] = None THEN lost \cup {e} ELSE lost
    BY <1>5 DEF MarkAppended
  <2> HIDE DEF e
  <2>3. /\ entry' \in [Entries -> EntryRow]
        /\ \A f \in Entries \ {e} : entry'[f] = entry[f]
        /\ entry'[e].text = entry[e].text
    BY <1>0, <2>1, <2>2, MarkEffect
  <2>4. ToolsFine'
    BY <1>0, <2>2, ToolMoves
  <2>5. PassesFine' /\ \A f \in Entries : Claimed(f)' <=> Claimed(f)
    BY <1>0, <2>1, <2>2, <2>3, TouchedPasses
  <2>6. RowsTyped'
    BY <1>0, <2>1, <2>2, <2>3 DEF RowsTyped
  <2>7. emb[e] \in {None, entry[e].text} \/ e \in raced
    BY <1>0, <2>1 DEF VectorsFine, VectorsAccounted
  <2>8. VectorsFine'
    BY <1>0, <2>1, <2>2, <2>3, <2>5, <2>7, OneRow
  <2> QED BY <2>4, <2>5, <2>6, <2>8
<1>6. CASE ReadText(t)
  <2> DEFINE e == tool[t].id
  <2>1. e \in Entries /\ entry[e].text \in TextOrNone
    BY <1>0, <1>6, <1>i DEF ReadText, AtTool, RowsTyped, EntryRow
  <2>2. Call(t, "reembed", e, entry[e].text) \/ Return(t)
    BY <1>6 DEF ReadText
  <2> HIDE DEF e
  <2>3. ToolsFine'
    BY <1>0, <2>1, <2>2, ToolMoves
  <2> QED BY <1>6, <1>s, <2>3 DEF ReadText
<1>7. CASE CompareText(t)
  <2>1. ToolsFine'
    BY <1>0, <1>7, ToolMoves DEF CompareText
  <2> QED BY <1>7, <1>s, <2>1 DEF CompareText
<1>8. CASE StoreUpdated(t) \/ StoreLinked(t)
  <2> DEFINE e == tool[t].id
  <2>1. e \in Entries
    BY <1>8, <1>i DEF StoreUpdated, StoreLinked, AtTool
  <2>2. /\ StoreVector(e, tool[t].text) /\ MarkIndexed(e) /\ lost' = lost \ {e}
        /\ Return(t) /\ Touched({e})
    BY <1>8 DEF StoreUpdated, StoreLinked
  <2> HIDE DEF e
  <2>3. /\ emb' \in [Entries -> TextOrNone] /\ raced' \in SUBSET Entries
        /\ \A f \in Entries \ {e} : emb'[f] = emb[f] /\ (f \in raced' <=> f \in raced)
        /\ emb'[e] = entry[e].text \/ e \in raced'
    BY <1>0, <1>x, <2>1, <2>2, StoreEffect
  <2>4. /\ entry' \in [Entries -> EntryRow]
        /\ \A f \in Entries \ {e} : entry'[f] = entry[f]
        /\ entry'[e].text = entry[e].text
    BY <1>0, <2>1, <2>2, MarkEffect
  <2>5. ToolsFine'
    BY <1>0, <2>2, ToolMoves
  <2>6. PassesFine' /\ \A f \in Entries : Claimed(f)' <=> Claimed(f)
    BY <1>0, <2>1, <2>2, <2>4, TouchedPasses
  <2>7. RowsTyped'
    BY <1>0, <2>2, <2>3, <2>4 DEF RowsTyped
  <2>8. VectorsFine'
    BY <1>0, <2>1, <2>2, <2>3, <2>4, <2>6, OneRow
  <2> QED BY <2>5, <2>6, <2>7, <2>8
<1>9. CASE GiveUpEmbedding(t)
  <2>1. ToolsFine'
    BY <1>0, <1>9, ToolMoves DEF GiveUpEmbedding
  <2> QED BY <1>9, <1>s, <2>1 DEF GiveUpEmbedding
<1> QED BY <1>1, <1>2, <1>3, <1>4, <1>5, <1>6, <1>7, <1>8, <1>9 DEF ToolStep

----------------------------------------------------------------------------
(* Reindex passes.                                                         *)

LEMMA OthersAsOwing ==
  ASSUME NEW w \in Workers, NEW S, NEW q, pass' = [Others(w, S) EXCEPT ![w] = q]
  PROVE  /\ pass' = [v \in Workers |-> pass'[v]] /\ pass'[w] = q
         /\ \A v \in Workers \ {w} : pass'[v] = Owing(pass[v], S)
BY DEF Others, Owing

LEMMA StartKeeps ==
  ASSUME IInv, NEW w \in Workers, StartPass(w)
  PROVE  IInv'
<1>0. RowsTyped /\ ToolsFine /\ PassesFine /\ VectorsFine
  BY Parts
<1> DEFINE q == [EndedPass("claim", {}) EXCEPT !.owe = Waiting]
<1>1. UNCHANGED <<entry, emb, tool, raced, lost>> /\ pass' = [pass EXCEPT ![w] = q]
  BY DEF StartPass, Waiting
<1>2. Waiting' = Waiting
  BY <1>1 DEF Waiting, Unindexed, Alive, Present
<1>3. q \in Pass
  BY EndedPassType, PassFields DEF Waiting
<1>4. PassOK(q, Waiting')
  BY <1>2, IndexAssumption DEF EndedPass, PassOK, Waiting
<1>5. /\ pass' = [v \in Workers |-> pass'[v]] /\ pass'[w] = q
      /\ \A v \in Workers \ {w} : pass'[v] = pass[v]
  BY <1>0, <1>1 DEF PassesFine
<1>6. pass[w].todo = {} /\ pass[w].failed = {}
  BY <1>0 DEF StartPass, PassesFine, PassesAtWork, AtPass
<1> HIDE DEF q
<1>7. PassesFine' /\ \A e \in Entries : Claimed(e) => Claimed(e)'
  BY <1>0, <1>2, <1>3, <1>4, <1>5, <1>6, OnePass
<1>8. VectorsFine'
  BY <1>0, <1>1, <1>7 DEF VectorsFine, StampMeansCurrent, VectorsAccounted, Alive, Present
<1> QED BY <1>0, <1>1, <1>7, <1>8, Parts DEF RowsTyped, ToolsFine, ToolsAtWork, AtTool

LEMMA AbortKeeps ==
  ASSUME IInv, NEW w \in Workers, AbortPass(w)
  PROVE  IInv'
<1>0. RowsTyped /\ ToolsFine /\ PassesFine /\ VectorsFine
  BY Parts
<1> DEFINE q == EndedPass("idle", {})
           S == pass[w].todo \cup pass[w].failed
<1>1. /\ UNCHANGED <<entry, emb, tool, raced>> /\ pass' = [pass EXCEPT ![w] = q]
      /\ lost' = lost \cup {e \in S : entry[e].indexed}
  BY DEF AbortPass
<1>2. Waiting' = Waiting
  BY <1>1 DEF Waiting, Unindexed, Alive, Present
<1>3. q \in Pass /\ PassOK(q, Waiting')
  BY EndedPassType DEF EndedPass, PassOK
<1>4. /\ pass' = [v \in Workers |-> pass'[v]] /\ pass'[w] = q
      /\ \A v \in Workers \ {w} : pass'[v] = pass[v]
  BY <1>0, <1>1 DEF PassesFine
<1>5. S \in SUBSET Entries
  BY <1>0 DEF PassesFine, Pass
<1> HIDE DEF q
<1>6. PassesFine' /\ \A e \in Entries : Claimed(e) /\ e \notin S => Claimed(e)'
  BY <1>0, <1>2, <1>3, <1>4, OnePass
<1> HIDE DEF S
<1>7. \A f \in Entries \ S : f \in lost' <=> f \in lost
  BY <1>1
<1>8. \A e \in S : entry'[e].indexed => e \in lost'
  BY <1>1
<1>9. \A e \in S : e \notin Linked => emb'[e] \in {None, entry'[e].text} \/ e \in raced'
  BY <1>0, <1>1, <1>5 DEF VectorsFine, VectorsAccounted
<1>10. VectorsFine'
  BY <1>0, <1>1, <1>5, <1>6, <1>7, <1>8, <1>9, SomeRows
<1> QED BY <1>0, <1>1, <1>5, <1>6, <1>10, Parts DEF RowsTyped, ToolsFine, ToolsAtWork, AtTool

LEMMA ClaimKeeps ==
  ASSUME IInv, NEW w \in Workers, Claim(w)
  PROVE  IInv'
<1>0. RowsTyped /\ ToolsFine /\ PassesFine /\ VectorsFine
  BY Parts
<1> DEFINE ahead == {e \in Entries : Unindexed(e) /\ e > pass[w].last}
<1>1. AtPass(w, "claim") /\ UNCHANGED <<emb, tool, raced, lost>>
  BY DEF Claim
<1>2. PICK locked \in SUBSET ahead :
        LET free == ahead \ locked
            kept == pass[w].owe \ locked
        IN IF free = {}
           THEN /\ pass' = [pass EXCEPT ![w] = EndedPass("drained", kept)]
                /\ UNCHANGED entry
           ELSE \E batch \in Batch(free) :
                  /\ entry' = [e \in Entries |->
                       IF e \in batch THEN [entry[e] EXCEPT !.indexed = TRUE] ELSE entry[e]]
                  /\ pass' = [Others(w, batch) EXCEPT ![w] = Claiming(@, batch, kept)]
  BY DEF Claim
<1> DEFINE free == ahead \ locked
           kept == pass[w].owe \ locked
<1>3. /\ pass[w] \in Pass /\ pass[w].owe \subseteq ahead
      /\ pass[w].todo = {} /\ pass[w].done = {} /\ pass[w].failed = {}
  BY <1>0, <1>1 DEF PassesFine, PassesAtWork, OwedAhead, AtPass, Pass
<1>4. kept \subseteq free /\ free \subseteq Waiting /\ Waiting \subseteq Entries
  BY <1>3 DEF Waiting
<1>t. ToolsFine'
  BY <1>0, <1>1 DEF ToolsFine, ToolsAtWork, AtTool
<1>5. CASE free = {}
  <2> DEFINE q == EndedPass("drained", kept)
  <2>1. UNCHANGED entry /\ pass' = [pass EXCEPT ![w] = q]
    BY <1>2, <1>5
  <2>2. kept = {}
    BY <1>4, <1>5
  <2>3. Waiting' = Waiting
    BY <2>1 DEF Waiting, Unindexed, Alive, Present
  <2>4. q \in Pass /\ PassOK(q, Waiting')
    BY <2>2, EndedPassType DEF EndedPass, PassOK
  <2>5. /\ pass' = [v \in Workers |-> pass'[v]] /\ pass'[w] = q
        /\ \A v \in Workers \ {w} : pass'[v] = pass[v]
    BY <1>0, <2>1 DEF PassesFine
  <2> HIDE DEF q
  <2>6. PassesFine' /\ \A e \in Entries : Claimed(e) => Claimed(e)'
    BY <1>0, <1>3, <2>3, <2>4, <2>5, OnePass
  <2>7. VectorsFine'
    BY <1>0, <1>1, <2>1, <2>6
    DEF VectorsFine, StampMeansCurrent, VectorsAccounted, Alive, Present
  <2> QED BY <1>0, <1>1, <1>t, <2>1, <2>6, <2>7, Parts DEF RowsTyped
<1>6. CASE free # {}
  <2>1. PICK batch \in Batch(free) :
          /\ entry' = [e \in Entries |->
               IF e \in batch THEN [entry[e] EXCEPT !.indexed = TRUE] ELSE entry[e]]
          /\ pass' = [Others(w, batch) EXCEPT ![w] = Claiming(@, batch, kept)]
    BY <1>2, <1>6
  <2> DEFINE q == Claiming(pass[w], batch, kept)
  <2>2. pass' = [Others(w, batch) EXCEPT ![w] = q]
    <3>1. Others(w, batch)[w] = pass[w]
      BY <1>3 DEF Others, Pass
    <3> QED BY <2>1, <3>1
  <2>3. batch \subseteq free /\ \A e \in batch, f \in free \ batch : e < f
    BY DEF Batch
  <2>4. entry' \in [Entries -> EntryRow] /\ \A e \in Entries : entry'[e].text = entry[e].text
    BY <1>0, <2>1 DEF RowsTyped, EntryRow
  <2>5. \A e \in Entries \ batch : entry'[e] = entry[e]
    BY <2>1
  <2>6. Waiting \ batch \subseteq Waiting'
    BY <2>5 DEF Waiting, Unindexed, Alive, Present
  <2>7. [e \in Entries |-> IF e \in batch THEN entry[e].text ELSE None] \in [Entries -> TextOrNone]
    BY <1>0 DEF RowsTyped, EntryRow, TextOrNone
  <2>8. q \in Pass
    BY <1>3, <1>4, <2>3, <2>7 DEF Claiming, Pass
  <2>9. /\ q.pc = "embed" /\ q.todo = batch /\ q.owe = kept
        /\ q.done = {} /\ q.failed = {}
    BY <1>3 DEF Claiming, Pass
  <2> HIDE DEF q
  <2>10. PassOK(q, Waiting')
    <3> SUFFICES ASSUME NEW e \in kept \ batch
                 PROVE  e \in Waiting' /\ \A f \in batch : e > f
      BY <2>9 DEF PassOK
    <3>1. e \in Waiting'
      BY <1>4, <2>6
    <3>2. \A f \in batch : f < e
      BY <1>4, <2>3
    <3>3. e \in Int /\ batch \subseteq Int
      <4>1. e \in Entries /\ batch \subseteq Entries
        BY <1>4, <2>3
      <4>2. Entries \subseteq Int
        BY IndexAssumption
      <4> QED BY <4>1, <4>2
    <3> QED BY <3>1, <3>2, <3>3
  <2>11. /\ pass' = [v \in Workers |-> pass'[v]] /\ pass'[w] = q
         /\ \A v \in Workers \ {w} : pass'[v] = Owing(pass[v], batch)
    BY <2>2, OthersAsOwing
  <2>12. /\ PassesFine' /\ \A e \in Entries : Claimed(e) => Claimed(e)'
         /\ \A e \in batch : Claimed(e)'
    BY <1>0, <1>3, <2>6, <2>8, <2>9, <2>10, <2>11, OnePass
  <2>13. batch \in SUBSET Entries
    BY <1>4, <2>3
  <2>14. \A e \in batch : e \notin Linked => emb'[e] \in {None, entry'[e].text} \/ e \in raced'
    BY <1>0, <1>1, <2>4, <2>13 DEF VectorsFine, VectorsAccounted
  <2>15. VectorsFine'
    BY <1>0, <1>1, <2>5, <2>12, <2>13, <2>14, SomeRows
  <2> QED BY <1>0, <1>1, <1>t, <2>4, <2>12, <2>15, Parts DEF RowsTyped
<1> QED BY <1>5, <1>6

LEMMA EmbedRowKeeps ==
  ASSUME IInv, NEW w \in Workers, EmbedRow(w)
  PROVE  IInv'
<1>0. RowsTyped /\ ToolsFine /\ PassesFine /\ VectorsFine
  BY Parts
<1> DEFINE e == Min(pass[w].todo)
           p == pass[w]
<1>1. AtPass(w, "embed") /\ UNCHANGED <<entry, tool>>
  BY DEF EmbedRow
<1>2. p \in Pass /\ p.todo \in SUBSET Entries /\ p.text \in [Entries -> TextOrNone]
  BY <1>0 DEF PassesFine, Pass
<1>3. e \in p.todo /\ e \in Entries
  BY <1>2, Extrema DEF EmbedRow
<1>4. PassOK(p, Waiting) /\ p.pc = "embed"
  BY <1>0, <1>1, EachPass DEF AtPass
<1>5. \/ /\ StoreVector(e, p.text[e]) /\ lost' = lost \ {e}
         /\ pass' = [pass EXCEPT ![w] = Embedded(@, e)]
      \/ pass' = [pass EXCEPT ![w] = NotEmbedded(@, e)] /\ UNCHANGED <<emb, raced, lost>>
  BY DEF EmbedRow
<1>6. Waiting' = Waiting
  BY <1>1 DEF Waiting, Unindexed, Alive, Present
<1>t. ToolsFine'
  BY <1>0, <1>1 DEF ToolsFine, ToolsAtWork, AtTool
<1> HIDE DEF e
<1>7. CASE /\ StoreVector(e, p.text[e]) /\ lost' = lost \ {e}
           /\ pass' = [pass EXCEPT ![w] = Embedded(@, e)]
  <2> DEFINE q == Embedded(p, e)
  <2>1. q \in Pass /\ PassOK(q, Waiting')
    <3>1. q \in Pass
      BY <1>2, <1>3 DEF Embedded, Pass
    <3>2. /\ q.pc = "embed" /\ q.todo = p.todo \ {e} /\ q.owe = p.owe \ {e}
          /\ q.done = p.done \cup {e} /\ q.failed = p.failed
      BY <1>2, <1>4 DEF Embedded, Pass
    <3>3. /\ q.owe \ q.todo \subseteq p.owe \ p.todo
          /\ q.todo \cup q.done \cup q.failed = p.todo \cup p.done \cup p.failed
      BY <1>3, <3>2
    <3>4. PassOK(q, Waiting)
      <4> HIDE DEF q
      <4> QED BY <1>4, <3>2, <3>3 DEF PassOK
    <3> QED BY <1>6, <3>1, <3>4
  <2>2. /\ pass' = [v \in Workers |-> pass'[v]] /\ pass'[w] = q
        /\ \A v \in Workers \ {w} : pass'[v] = pass[v]
    BY <1>0, <1>7 DEF PassesFine
  <2>3. q.todo = p.todo \ {e} /\ q.failed = p.failed
    BY <1>2 DEF Embedded, Pass
  <2> HIDE DEF q
  <2>4. /\ PassesFine' /\ \A f \in q.todo \cup q.failed : Claimed(f)'
        /\ \A f \in Entries : Claimed(f) /\ f \notin p.todo \cup p.failed => Claimed(f)'
    BY <1>0, <1>6, <2>1, <2>2, OnePass
  <2>5. \A f \in Entries \ {e} : Claimed(f) => Claimed(f)'
    BY <2>3, <2>4
  <2>6. /\ emb' \in [Entries -> TextOrNone] /\ raced' \in SUBSET Entries
        /\ \A f \in Entries \ {e} : emb'[f] = emb[f] /\ (f \in raced' <=> f \in raced)
        /\ emb'[e] = entry[e].text \/ e \in raced'
    <3>1. p.text[e] \in TextOrNone
      BY <1>2, <1>3
    <3> QED BY <1>0, <1>3, <1>7, <3>1, StoreEffect
  <2>7. VectorsFine'
    BY <1>0, <1>1, <1>3, <1>7, <2>5, <2>6, OneRow
  <2> QED BY <1>0, <1>1, <1>7, <1>t, <2>4, <2>6, <2>7, Parts DEF RowsTyped
<1>8. CASE pass' = [pass EXCEPT ![w] = NotEmbedded(@, e)] /\ UNCHANGED <<emb, raced, lost>>
  <2> DEFINE q == NotEmbedded(p, e)
  <2>1. q \in Pass /\ PassOK(q, Waiting')
    <3>1. q \in Pass
      BY <1>2, <1>3 DEF NotEmbedded, Pass
    <3>2. /\ q.pc = "embed" /\ q.todo = p.todo \ {e} /\ q.owe = p.owe \ {e}
          /\ q.failed = p.failed \cup {e} /\ q.done = p.done
      BY <1>2, <1>4 DEF NotEmbedded, Pass
    <3>3. /\ q.owe \ q.todo \subseteq p.owe \ p.todo
          /\ q.todo \cup q.done \cup q.failed = p.todo \cup p.done \cup p.failed
      BY <1>3, <3>2
    <3>4. PassOK(q, Waiting)
      <4> HIDE DEF q
      <4> QED BY <1>4, <3>2, <3>3 DEF PassOK
    <3> QED BY <1>6, <3>1, <3>4
  <2>2. /\ pass' = [v \in Workers |-> pass'[v]] /\ pass'[w] = q
        /\ \A v \in Workers \ {w} : pass'[v] = pass[v]
    BY <1>0, <1>8 DEF PassesFine
  <2>3. q.todo \cup q.failed = p.todo \cup p.failed
    BY <1>2, <1>3 DEF NotEmbedded, Pass
  <2> HIDE DEF q
  <2>4. /\ PassesFine' /\ \A f \in q.todo \cup q.failed : Claimed(f)'
        /\ \A f \in Entries : Claimed(f) /\ f \notin p.todo \cup p.failed => Claimed(f)'
    BY <1>0, <1>6, <2>1, <2>2, OnePass
  <2>5. \A f \in Entries : Claimed(f) => Claimed(f)'
    BY <2>3, <2>4
  <2>6. VectorsFine'
    BY <1>0, <1>1, <1>8, <2>5
    DEF VectorsFine, StampMeansCurrent, VectorsAccounted, Alive, Present
  <2> QED BY <1>0, <1>1, <1>8, <1>t, <2>4, <2>6, Parts DEF RowsTyped
<1> QED BY <1>5, <1>7, <1>8

(* The compensating reset un-stamps rows and makes none stop waiting.      *)
LEMMA ResetEffect ==
  ASSUME RowsTyped, NEW S \in SUBSET Entries, entry' = Reset(S)
  PROVE  /\ entry' \in [Entries -> EntryRow]
         /\ \A e \in Entries : entry'[e].text = entry[e].text
         /\ \A e \in S : Alive(e)' => ~entry'[e].indexed
         /\ \A e \in Entries \ S : entry'[e] = entry[e]
         /\ Waiting \subseteq Waiting'
<1>1. \A e \in Entries : entry[e] \in EntryRow
  BY DEF RowsTyped
<1>2. \A e \in Entries : /\ entry'[e] \in EntryRow /\ entry'[e].text = entry[e].text
                         /\ entry'[e].deleted = entry[e].deleted
                         /\ ~entry[e].indexed => ~entry'[e].indexed
  BY <1>1 DEF Reset, EntryRow
<1>3. entry' \in [Entries -> EntryRow]
  BY <1>2 DEF Reset
<1>4. \A e \in S : ~entry'[e].deleted => ~entry'[e].indexed
  BY <1>1, <1>2 DEF Reset, EntryRow
<1>5. \A e \in Entries \ S : entry'[e] = entry[e]
  BY DEF Reset
<1> QED BY <1>2, <1>3, <1>4, <1>5 DEF Waiting, Unindexed, Alive, Present

LEMMA FinishKeeps ==
  ASSUME IInv, NEW w \in Workers, FinishBatch(w)
  PROVE  IInv'
<1>0. RowsTyped /\ ToolsFine /\ PassesFine /\ VectorsFine
  BY Parts
<1> DEFINE p == pass[w]
           q == NextCursor(p)
           S == p.failed
<1>1. /\ p.pc = "embed" /\ p.todo = {} /\ UNCHANGED <<emb, tool, raced>>
      /\ entry' = Reset(S) /\ lost' = lost \ S
  BY DEF FinishBatch, AtPass
<1>2. p \in Pass /\ PassOK(p, Waiting)
  BY <1>0, EachPass
<1>3. pass' = [Others(w, S) EXCEPT ![w] = q]
  <2>1. Others(w, S)[w] = p
    BY <1>2 DEF Others, Pass
  <2> QED BY <2>1 DEF FinishBatch
<1>4. S \in SUBSET Entries /\ p.done \in SUBSET Entries /\ p.owe \in SUBSET Entries
  BY <1>2 DEF Pass
<1>5. /\ entry' \in [Entries -> EntryRow]
      /\ \A e \in Entries : entry'[e].text = entry[e].text
      /\ \A e \in S : Alive(e)' => ~entry'[e].indexed
      /\ \A e \in Entries \ S : entry'[e] = entry[e]
      /\ Waiting \subseteq Waiting'
  BY <1>0, <1>1, <1>4, ResetEffect
<1>6. q \in Pass
  BY <1>2, NextCursorType
<1>7. PassOK(q, Waiting')
  <2>1. CASE p.done = {}
    BY <2>1 DEF NextCursor, EndedPass, PassOK
  <2>2. CASE p.done # {}
    <3>1. Max(p.done) \in p.done
      BY <1>4, <2>2, Extrema
    <3>2. \A e \in p.owe : e \in Waiting' /\ e > Max(p.done)
      BY <1>1, <1>2, <1>5, <3>1 DEF PassOK
    <3>3. q = [EndedPass("claim", p.owe) EXCEPT !.last = Max(p.done)]
      BY <2>2 DEF NextCursor
    <3> QED BY <3>2, <3>3 DEF EndedPass, PassOK
  <2> QED BY <2>1, <2>2
<1> HIDE DEF q
<1>8. /\ pass' = [v \in Workers |-> pass'[v]] /\ pass'[w] = q
      /\ \A v \in Workers \ {w} : pass'[v] = Owing(pass[v], S)
  BY <1>3, OthersAsOwing
<1>9. PassesFine' /\ \A e \in Entries \ S : Claimed(e) => Claimed(e)'
  <2>1. Waiting \ S \subseteq Waiting'
    BY <1>5
  <2>2. p.todo = {} /\ p.failed = S
    BY <1>1
  <2> HIDE DEF p, S
  <2>3. /\ PassesFine'
        /\ \A e \in Entries : Claimed(e) /\ e \notin pass[w].todo \cup pass[w].failed
                               => Claimed(e)'
    BY <1>0, <1>6, <1>7, <1>8, <2>1, OnePass
  <2>4. \A e \in Entries \ S : e \notin pass[w].todo \cup pass[w].failed
    BY <2>2 DEF p
  <2> QED BY <2>3, <2>4
<1>10. \A e \in S : e \notin Linked => emb'[e] \in {None, entry'[e].text} \/ e \in raced'
  BY <1>0, <1>1, <1>4, <1>5 DEF VectorsFine, VectorsAccounted
<1> HIDE DEF S
<1>11. VectorsFine'
  BY <1>0, <1>1, <1>4, <1>5, <1>9, <1>10, SomeRows
<1>12. ToolsFine'
  BY <1>0, <1>1 DEF ToolsFine, ToolsAtWork, AtTool
<1> QED BY <1>0, <1>1, <1>5, <1>9, <1>11, <1>12, Parts DEF RowsTyped

----------------------------------------------------------------------------
(* Soft delete and the reset of all stamps.                                *)

LEMMA DeleteKeeps ==
  ASSUME IInv, NEW e \in Entries, Delete(e)
  PROVE  IInv'
<1>0. RowsTyped /\ ToolsFine /\ PassesFine /\ VectorsFine
  BY Parts
<1>1. /\ entry' = [entry EXCEPT ![e].deleted = TRUE] /\ emb' = [emb EXCEPT ![e] = None]
      /\ raced' = raced \ {e} /\ lost' = lost \ {e} /\ UNCHANGED tool /\ Touched({e})
  BY DEF Delete
<1>2. RowsTyped'
  BY <1>0, <1>1 DEF RowsTyped, EntryRow, TextOrNone
<1>3. /\ \A f \in Entries \ {e} : entry'[f] = entry[f] /\ emb'[f] = emb[f]
      /\ emb'[e] = None /\ ~Alive(e)'
  BY <1>0, <1>1 DEF RowsTyped, EntryRow, Alive
<1>4. PassesFine' /\ \A f \in Entries : Claimed(f)' <=> Claimed(f)
  BY <1>0, <1>1, <1>3, TouchedPasses
<1>5. VectorsFine'
  BY <1>0, <1>1, <1>3, <1>4, OneRow
<1>6. ToolsFine'
  BY <1>0, <1>1 DEF ToolsFine, ToolsAtWork, AtTool
<1> QED BY <1>2, <1>4, <1>5, <1>6, Parts

LEMMA ResetAllKeeps ==
  ASSUME IInv, ResetAll
  PROVE  IInv'
<1>0. RowsTyped /\ ToolsFine /\ PassesFine /\ VectorsFine
  BY Parts
<1> DEFINE S == {e \in Entries : Present(e)}
<1>1. UNCHANGED <<emb, tool, pass, raced>> /\ lost' = {} /\ entry' = Reset(S)
  BY DEF ResetAll
<1>2. /\ entry' \in [Entries -> EntryRow]
      /\ \A e \in Entries : entry'[e].text = entry[e].text
      /\ \A e \in S : Alive(e)' => ~entry'[e].indexed
      /\ Waiting \subseteq Waiting'
  BY <1>0, <1>1, ResetEffect
<1>3. PassesFine'
  BY <1>0, <1>1, <1>2, EachPass DEF PassOK
<1>4. \A e \in Entries : ~(Alive(e)' /\ entry'[e].indexed)
  BY <1>2 DEF Alive, Present
<1>5. VectorsFine'
  BY <1>0, <1>1, <1>2, <1>4 DEF VectorsFine, StampMeansCurrent, VectorsAccounted
<1>6. ToolsFine'
  BY <1>0, <1>1 DEF ToolsFine, ToolsAtWork, AtTool
<1> QED BY <1>0, <1>1, <1>2, <1>3, <1>5, <1>6, Parts DEF RowsTyped

LEMMA IndexStutter ==
  ASSUME IInv, UNCHANGED vars
  PROVE  IInv'
BY DEF IInv, vars, TypeOK, ToolsAtWork, PassesAtWork, VectorsAccounted, OwedAhead,
       StampMeansCurrent, PassDrains, AtTool, AtPass, Unindexed, Alive, Present, Claimed

----------------------------------------------------------------------------
(* The theorems.                                                           *)

(* The strengthening is inductive: every tool, web and reindex step keeps  *)
(* it.                                                                     *)
THEOREM IndexInvariant == Spec => []IInv
<1>1. IInv /\ [Next]_vars => IInv'
  <2> SUFFICES ASSUME IInv, [Next]_vars PROVE IInv'
    OBVIOUS
  <2>1. CASE \E t \in Tools : ToolStep(t)
    BY <2>1, ToolKeeps
  <2>2. CASE \E w \in Workers : StartPass(w) \/ PassStep(w) \/ AbortPass(w)
    BY <2>2, StartKeeps, ClaimKeeps, EmbedRowKeeps, FinishKeeps, AbortKeeps DEF PassStep
  <2>3. CASE \E e \in Entries : Delete(e)
    BY <2>3, DeleteKeeps
  <2>4. CASE ResetAll
    BY <2>4, ResetAllKeeps
  <2>5. CASE UNCHANGED vars
    BY <2>5, IndexStutter
  <2> QED BY <2>1, <2>2, <2>3, <2>4, <2>5 DEF Next
<1> QED BY <1>1, IndexInit, PTL DEF Spec

(* Entries, vectors, calls and passes keep their types.                    *)
THEOREM IndexTypeCorrect == Spec => []TypeOK
<1>1. IInv => TypeOK
  BY DEF IInv
<1> QED BY <1>1, IndexInvariant, PTL

(* indexed_at is never set on a row whose vector is of another text, but   *)
(* for the known races and lost claims (mark_indexed, get_unindexed).      *)
THEOREM StampsTruthful == Spec => []StampMeansCurrent
<1>1. IInv => StampMeansCurrent
  BY DEF IInv
<1> QED BY <1>1, IndexInvariant, PTL

(* A reindex pass that finds no more rows owes none (_run_reindex).        *)
THEOREM PassesDrain == Spec => []PassDrains
<1>1. IInv => PassDrains
  BY DEF IInv
<1> QED BY <1>1, IndexInvariant, PTL

----------------------------------------------------------------------------
(* Why a pass ends: what is left of it is a number that each of its steps  *)
(* lowers and that nobody else's step changes.                             *)

EntryCount == Cardinality(Entries)
AheadOf(n) == {e \in Entries : e > n}
InPass(p) == p.pc \in {"claim", "embed"}
StepsLeft(p) == (EntryCount + 2) * Cardinality(AheadOf(p.last))
                  + IF p.pc = "claim" THEN EntryCount + 1 ELSE Cardinality(p.todo)

\* A batch lies ahead of the cursor it was selected with.
BatchAhead(p) == p.pc = "embed" => \A e \in p.todo \cup p.done \cup p.failed : e > p.last
BatchesInv == \A w \in Workers : BatchAhead(pass[w])

PassesAdvance ==
  [][\A w \in Workers : InPass(pass[w]) /\ InPass(pass'[w]) =>
       /\ StepsLeft(pass[w]) \in Nat /\ StepsLeft(pass'[w]) \in Nat
       /\ StepsLeft(pass'[w]) <= StepsLeft(pass[w])
       /\ PassStep(w) => StepsLeft(pass'[w]) < StepsLeft(pass[w])]_vars

LEMMA Counts ==
  /\ EntryCount \in Nat
  /\ \A S \in SUBSET Entries : /\ IsFiniteSet(S) /\ Cardinality(S) \in Nat
                               /\ Cardinality(S) <= EntryCount
  /\ \A S, T \in SUBSET Entries : S \subseteq T /\ S # T => Cardinality(S) < Cardinality(T)
<1>1. IsFiniteSet(Entries) /\ EntryCount \in Nat
  BY IndexAssumption, FS_CardinalityType DEF EntryCount
<1>2. \A S \in SUBSET Entries : /\ IsFiniteSet(S) /\ Cardinality(S) \in Nat
                                /\ Cardinality(S) <= EntryCount
  BY <1>1, FS_Subset, FS_CardinalityType DEF EntryCount
<1>3. ASSUME NEW S \in SUBSET Entries, NEW T \in SUBSET Entries, S \subseteq T, S # T
      PROVE  Cardinality(S) < Cardinality(T)
  <2>1. Cardinality(S) <= Cardinality(T) /\ Cardinality(S) # Cardinality(T)
    BY <1>2, <1>3, FS_Subset
  <2> QED BY <1>2, <2>1
<1> QED BY <1>1, <1>2, <1>3

LEMMA StepsLeftTyped ==
  ASSUME NEW p \in Pass
  PROVE  StepsLeft(p) \in Nat /\ Cardinality(AheadOf(p.last)) \in Nat
<1>1. AheadOf(p.last) \in SUBSET Entries /\ p.todo \in SUBSET Entries
  BY DEF AheadOf, Pass
<1>2. /\ Cardinality(AheadOf(p.last)) \in Nat /\ Cardinality(p.todo) \in Nat
      /\ EntryCount \in Nat
  BY <1>1, Counts
<1>3. (EntryCount + 2) * Cardinality(AheadOf(p.last)) \in Nat
  BY <1>2
<1> QED BY <1>2, <1>3 DEF StepsLeft

(* A whole factor less outweighs what a claim puts on top.                 *)
LEMMA LessProduct ==
  ASSUME NEW k \in Nat, NEW a \in Nat, NEW b \in Nat, a < b
  PROVE  k * a + k <= k * b
<1>1. PICK d \in Nat : b = a + 1 + d
  <2>1. b - a - 1 \in Nat /\ b = a + 1 + (b - a - 1)
    OBVIOUS
  <2> QED BY <2>1
<1>2. k * b = k * a + k + k * d
  BY <1>1
<1>3. k * d \in Nat /\ k * a \in Nat
  OBVIOUS
<1> QED BY <1>2, <1>3

LEMMA OwingLeft ==
  ASSUME NEW p \in Pass, NEW S
  PROVE  /\ StepsLeft(Owing(p, S)) = StepsLeft(p) /\ Owing(p, S).pc = p.pc
         /\ BatchAhead(p) => BatchAhead(Owing(p, S))
BY DEF Owing, StepsLeft, BatchAhead, Pass

(* What a pass looks like after the steps of others.                       *)
LEMMA NotItsStep ==
  ASSUME IInv, [Next]_vars, NEW w \in Workers, ~PassStep(w)
  PROVE  \/ pass'[w] = pass[w] \/ \E S : pass'[w] = Owing(pass[w], S)
         \/ pass[w].pc \in {"idle", "drained"} /\ pass'[w].pc = "claim"
         \/ pass'[w].pc = "idle"
<1>0. pass \in [Workers -> Pass] /\ pass[w] \in Pass
  BY DEF IInv, TypeOK
<1>1. ASSUME NEW S, Touched(S) PROVE \E T : pass'[w] = Owing(pass[w], T)
  BY <1>1 DEF Touched, Owing
<1>2. ASSUME NEW t \in Tools, ToolStep(t)
      PROVE  pass'[w] = pass[w] \/ \E T : pass'[w] = Owing(pass[w], T)
  BY <1>1, <1>2 DEF ToolStep, Append, EmbedEntry, MarkAppended, Update, ReadText, CompareText,
                    StoreUpdated, SaveLinked, StoreLinked, GiveUpEmbedding
<1>3. ASSUME NEW v \in Workers, StartPass(v)
      PROVE  \/ pass'[w] = pass[w]
             \/ pass[w].pc \in {"idle", "drained"} /\ pass'[w].pc = "claim"
  BY <1>0, <1>3 DEF StartPass, EndedPass
<1>4. ASSUME NEW v \in Workers, AbortPass(v)
      PROVE  pass'[w] = pass[w] \/ pass'[w].pc = "idle"
  BY <1>0, <1>4 DEF AbortPass, EndedPass
<1>5. ASSUME NEW v \in Workers, v # w, NEW S, NEW q, pass' = [Others(v, S) EXCEPT ![v] = q]
      PROVE  \E T : pass'[w] = Owing(pass[w], T)
  <2>1. pass'[w] = Owing(pass[w], S)
    BY <1>5, OthersAsOwing
  <2> QED BY <2>1
<1>6. ASSUME NEW v \in Workers, v # w, NEW q, pass' = [pass EXCEPT ![v] = q]
      PROVE  pass'[w] = pass[w]
  BY <1>0, <1>6
<1>7. ASSUME NEW v \in Workers, PassStep(v)
      PROVE  pass'[w] = pass[w] \/ \E T : pass'[w] = Owing(pass[w], T)
  <2>1. v # w
    BY <1>7
  <2>2. CASE Claim(v)
    <3>1. \/ \E q : pass' = [pass EXCEPT ![v] = q]
          \/ \E S, q : pass' = [Others(v, S) EXCEPT ![v] = q]
      BY <2>2 DEF Claim
    <3> QED BY <1>5, <1>6, <2>1, <3>1
  <2>3. CASE EmbedRow(v)
    <3>1. \E q : pass' = [pass EXCEPT ![v] = q]
      BY <2>3 DEF EmbedRow
    <3> QED BY <1>6, <2>1, <3>1
  <2>4. CASE FinishBatch(v)
    <3>1. \E S, q : pass' = [Others(v, S) EXCEPT ![v] = q]
      BY <2>4 DEF FinishBatch
    <3> QED BY <1>5, <2>1, <3>1
  <2> QED BY <1>7, <2>2, <2>3, <2>4 DEF PassStep
<1>8. ASSUME NEW e \in Entries, Delete(e) PROVE \E T : pass'[w] = Owing(pass[w], T)
  BY <1>1, <1>8 DEF Delete
<1>9. ASSUME ResetAll \/ UNCHANGED vars PROVE pass'[w] = pass[w]
  BY <1>9 DEF ResetAll, vars
<1> QED BY <1>2, <1>3, <1>4, <1>7, <1>8, <1>9 DEF Next

LEMMA ClaimAdvances ==
  ASSUME IInv, NEW w \in Workers, Claim(w)
  PROVE  /\ BatchAhead(pass'[w])
         /\ InPass(pass'[w]) => StepsLeft(pass'[w]) < StepsLeft(pass[w])
<1>0. pass \in [Workers -> Pass] /\ pass[w] \in Pass /\ pass[w].pc = "claim"
      /\ pass[w].todo = {} /\ pass[w].done = {} /\ pass[w].failed = {}
  BY DEF IInv, TypeOK, Claim, AtPass, PassesAtWork
<1> DEFINE ahead == {e \in Entries : Unindexed(e) /\ e > pass[w].last}
<1>1. PICK locked \in SUBSET ahead :
        \/ pass' = [pass EXCEPT ![w] = EndedPass("drained", pass[w].owe \ locked)]
        \/ \E batch \in Batch(ahead \ locked) :
             pass' = [Others(w, batch) EXCEPT ![w] = Claiming(@, batch, pass[w].owe \ locked)]
  BY DEF Claim
<1>2. CASE pass' = [pass EXCEPT ![w] = EndedPass("drained", pass[w].owe \ locked)]
  BY <1>0, <1>2 DEF EndedPass, InPass, BatchAhead
<1>3. CASE \E batch \in Batch(ahead \ locked) :
             pass' = [Others(w, batch) EXCEPT ![w] = Claiming(@, batch, pass[w].owe \ locked)]
  <2>1. PICK batch \in Batch(ahead \ locked) :
             pass' = [Others(w, batch) EXCEPT ![w] = Claiming(@, batch, pass[w].owe \ locked)]
    BY <1>3
  <2> DEFINE q == Claiming(pass[w], batch, pass[w].owe \ locked)
  <2>2. pass'[w] = q
    <3>1. Others(w, batch)[w] = pass[w]
      BY <1>0 DEF Others, Pass
    <3>2. pass' = [Others(w, batch) EXCEPT ![w] = q]
      BY <2>1, <3>1
    <3> QED BY <3>2, OthersAsOwing
  <2>3. batch \subseteq ahead
    BY DEF Batch
  <2>4. /\ q.pc = "embed" /\ q.todo = batch /\ q.last = pass[w].last
        /\ q.done = {} /\ q.failed = {}
    BY <1>0 DEF Claiming, Pass
  <2> HIDE DEF q
  <2>5. BatchAhead(q)
    BY <2>3, <2>4 DEF BatchAhead
  <2>6. batch \in SUBSET Entries
    BY <2>3
  <2>7. Cardinality(batch) \in Nat /\ Cardinality(batch) <= EntryCount /\ EntryCount \in Nat
    BY <2>6, Counts
  <2>8. /\ StepsLeft(q) = (EntryCount + 2) * Cardinality(AheadOf(pass[w].last)) + Cardinality(batch)
        /\ StepsLeft(pass[w]) = (EntryCount + 2) * Cardinality(AheadOf(pass[w].last)) + (EntryCount + 1)
    BY <1>0, <2>4 DEF StepsLeft
  <2>9. (EntryCount + 2) * Cardinality(AheadOf(pass[w].last)) \in Nat
    BY <1>0, <2>7, StepsLeftTyped
  <2>10. StepsLeft(q) < StepsLeft(pass[w])
    <3> DEFINE k == (EntryCount + 2) * Cardinality(AheadOf(pass[w].last))
    <3>1. k \in Nat /\ StepsLeft(q) = k + Cardinality(batch) /\ StepsLeft(pass[w]) = k + (EntryCount + 1)
      BY <2>8, <2>9
    <3> HIDE DEF k
    <3> QED BY <2>7, <3>1
  <2> QED BY <2>2, <2>5, <2>10
<1> QED BY <1>1, <1>2, <1>3

LEMMA EmbedAdvances ==
  ASSUME IInv, NEW w \in Workers, BatchAhead(pass[w]), EmbedRow(w)
  PROVE  /\ BatchAhead(pass'[w])
         /\ InPass(pass'[w]) => StepsLeft(pass'[w]) < StepsLeft(pass[w])
<1> DEFINE p == pass[w]
           e == Min(p.todo)
<1>0. pass \in [Workers -> Pass] /\ p \in Pass /\ p.pc = "embed" /\ p.todo # {}
  BY DEF IInv, TypeOK, EmbedRow, AtPass
<1>1. p.todo \in SUBSET Entries /\ p.last \in Entries \cup {0}
  BY <1>0 DEF Pass
<1>2. e \in p.todo
  BY <1>0, <1>1, Extrema
<1>3. pass'[w] = Embedded(p, e) \/ pass'[w] = NotEmbedded(p, e)
  BY <1>0 DEF EmbedRow
<1> HIDE DEF e
<1> DEFINE q == pass'[w]
<1>4. /\ q.pc = "embed" /\ q.last = p.last /\ q.todo = p.todo \ {e}
      /\ q.done \cup q.failed = p.done \cup p.failed \cup {e}
  <2>1. CASE q = Embedded(p, e)
    BY <1>0, <2>1 DEF Embedded, Pass
  <2>2. CASE q = NotEmbedded(p, e)
    BY <1>0, <2>2 DEF NotEmbedded, Pass
  <2> QED BY <1>3, <2>1, <2>2
<1> HIDE DEF q
<1>5. BatchAhead(q)
  BY <1>0, <1>2, <1>4 DEF BatchAhead
<1>6. Cardinality(q.todo) < Cardinality(p.todo)
  <2>1. q.todo \in SUBSET Entries /\ q.todo \subseteq p.todo /\ q.todo # p.todo
    BY <1>1, <1>2, <1>4
  <2> QED BY <1>1, <2>1, Counts
<1>7. Cardinality(q.todo) \in Nat /\ Cardinality(p.todo) \in Nat /\ EntryCount \in Nat
  BY <1>1, <1>4, Counts
<1>8. StepsLeft(q) < StepsLeft(p)
  <2> DEFINE k == (EntryCount + 2) * Cardinality(AheadOf(p.last))
  <2>1. k \in Nat
    BY <1>0, <1>7, StepsLeftTyped
  <2>2. StepsLeft(q) = k + Cardinality(q.todo) /\ StepsLeft(p) = k + Cardinality(p.todo)
    BY <1>0, <1>4 DEF StepsLeft
  <2> HIDE DEF k
  <2> QED BY <1>6, <1>7, <2>1, <2>2
<1> QED BY <1>5, <1>8 DEF q

(* The cursor moves to a row of the batch, ahead of where it was.          *)
LEMMA FinishAdvances ==
  ASSUME IInv, NEW w \in Workers, BatchAhead(pass[w]), FinishBatch(w)
  PROVE  /\ BatchAhead(pass'[w])
         /\ InPass(pass'[w]) => StepsLeft(pass'[w]) < StepsLeft(pass[w])
<1> DEFINE p == pass[w]
           q == NextCursor(p)
<1>0. pass \in [Workers -> Pass] /\ p \in Pass /\ p.pc = "embed" /\ p.todo = {}
  BY DEF IInv, TypeOK, FinishBatch, AtPass
<1>1. p.done \in SUBSET Entries /\ p.last \in Nat /\ Entries \subseteq Nat
  <2>1. p.done \in SUBSET Entries /\ p.last \in Entries \cup {0}
    BY <1>0 DEF Pass
  <2>2. Entries \subseteq Nat
    BY IndexAssumption
  <2>3. \A n \in Entries \cup {0} : n \in Nat
    BY <2>2
  <2> QED BY <2>1, <2>2, <2>3
<1>2. pass'[w] = q
  <2>1. Others(w, p.failed)[w] = p
    BY <1>0 DEF Others, Pass
  <2>2. pass' = [Others(w, p.failed) EXCEPT ![w] = q]
    BY <2>1 DEF FinishBatch
  <2> QED BY <2>2, OthersAsOwing
<1>3. CASE p.done = {}
  BY <1>2, <1>3 DEF NextCursor, EndedPass, InPass, BatchAhead
<1>4. CASE p.done # {}
  <2> DEFINE m == Max(p.done)
  <2>1. m \in p.done
    BY <1>1, <1>4, Extrema
  <2>2. q.pc = "claim" /\ q.last = m
    BY <1>4 DEF NextCursor, EndedPass
  <2> HIDE DEF q, m
  <2>3. m > p.last /\ m \in Entries /\ m \in Nat
    BY <1>0, <1>1, <2>1, IndexAssumption DEF BatchAhead
  <2>4. Cardinality(AheadOf(m)) < Cardinality(AheadOf(p.last))
    <3>1. ASSUME NEW n \in AheadOf(m) PROVE n \in AheadOf(p.last)
      <4>1. n \in Entries /\ n > m /\ n \in Nat
        BY <1>1 DEF AheadOf
      <4>2. n > p.last
        BY <1>1, <2>3, <4>1
      <4> QED BY <4>1, <4>2 DEF AheadOf
    <3>2. m \in AheadOf(p.last) /\ m \notin AheadOf(m)
      BY <2>3 DEF AheadOf
    <3>3. AheadOf(m) \in SUBSET Entries /\ AheadOf(p.last) \in SUBSET Entries
      BY DEF AheadOf
    <3> QED BY <3>1, <3>2, <3>3, Counts
  <2>5. /\ Cardinality(AheadOf(m)) \in Nat /\ Cardinality(AheadOf(p.last)) \in Nat
        /\ EntryCount \in Nat /\ Cardinality(p.todo) \in Nat
    BY <1>0, Counts DEF AheadOf, Pass
  <2> DEFINE a == (EntryCount + 2) * Cardinality(AheadOf(m))
             b == (EntryCount + 2) * Cardinality(AheadOf(p.last))
  <2>6. a + (EntryCount + 2) <= b
    BY <2>4, <2>5, LessProduct
  <2>7. StepsLeft(q) = a + (EntryCount + 1) /\ StepsLeft(p) = b + Cardinality(p.todo)
    BY <1>0, <2>2 DEF StepsLeft
  <2>8. a \in Nat /\ b \in Nat
    BY <2>5
  <2> HIDE DEF a, b
  <2>9. StepsLeft(q) < StepsLeft(p)
    BY <2>5, <2>6, <2>7, <2>8
  <2>10. BatchAhead(q)
    BY <2>2 DEF BatchAhead
  <2> QED BY <1>2, <2>9, <2>10
<1> QED BY <1>3, <1>4

LEMMA PassMoves ==
  ASSUME IInv, BatchesInv, [Next]_vars, NEW w \in Workers
  PROVE  /\ BatchAhead(pass'[w])
         /\ InPass(pass[w]) /\ InPass(pass'[w]) =>
              \/ StepsLeft(pass'[w]) = StepsLeft(pass[w]) /\ ~PassStep(w)
              \/ StepsLeft(pass'[w]) < StepsLeft(pass[w])
<1>0. pass[w] \in Pass /\ BatchAhead(pass[w])
  BY DEF IInv, TypeOK, BatchesInv
<1>1. CASE PassStep(w)
  BY <1>0, <1>1, ClaimAdvances, EmbedAdvances, FinishAdvances DEF PassStep
<1>2. CASE ~PassStep(w)
  <2>1. CASE pass'[w] = pass[w]
    BY <1>0, <1>2, <2>1
  <2>2. CASE \E S : pass'[w] = Owing(pass[w], S)
    BY <1>0, <1>2, <2>2, OwingLeft
  <2>3. CASE \/ pass[w].pc \in {"idle", "drained"} /\ pass'[w].pc = "claim"
             \/ pass'[w].pc = "idle"
    BY <2>3 DEF BatchAhead, InPass
  <2> QED BY <1>2, <2>1, <2>2, <2>3, NotItsStep
<1> QED BY <1>1, <1>2

(* Each step of a pass leaves fewer steps to come, and no other step gives *)
(* it more to do: the cursor never turns back (_run_reindex).  So a pass   *)
(* whose steps are taken ends, which is PassEnds.                          *)
THEOREM PassesShrink == Spec => PassesAdvance
<1>1. Init => BatchesInv
  BY DEF Init, BatchesInv, BatchAhead, EndedPass
<1>2. IInv /\ BatchesInv /\ [Next]_vars => BatchesInv'
  BY PassMoves DEF BatchesInv
<1>3. Spec => []BatchesInv
  BY <1>1, <1>2, IndexInvariant, PTL DEF Spec
<1>4. ASSUME IInv, IInv', BatchesInv, [Next]_vars, NEW w \in Workers,
             InPass(pass[w]), InPass(pass'[w])
      PROVE  /\ StepsLeft(pass[w]) \in Nat /\ StepsLeft(pass'[w]) \in Nat
             /\ StepsLeft(pass'[w]) <= StepsLeft(pass[w])
             /\ PassStep(w) => StepsLeft(pass'[w]) < StepsLeft(pass[w])
  <2>1. pass[w] \in Pass /\ pass'[w] \in Pass
    BY <1>4 DEF IInv, TypeOK
  <2>2. StepsLeft(pass[w]) \in Nat /\ StepsLeft(pass'[w]) \in Nat
    BY <2>1, StepsLeftTyped
  <2> QED BY <1>4, <2>2, PassMoves
<1>5. IInv /\ IInv' /\ BatchesInv /\ [Next]_vars =>
        \A w \in Workers : InPass(pass[w]) /\ InPass(pass'[w]) =>
          /\ StepsLeft(pass[w]) \in Nat /\ StepsLeft(pass'[w]) \in Nat
          /\ StepsLeft(pass'[w]) <= StepsLeft(pass[w])
          /\ PassStep(w) => StepsLeft(pass'[w]) < StepsLeft(pass[w])
  BY <1>4
<1> QED BY <1>3, <1>5, IndexInvariant, PTL DEF Spec, PassesAdvance

---------------------------------------------------------------------------
(* Search, for any finite sets of entries and conversations and any limit. *)

(* At least as many hits as the limit rank no lower than v.                *)
Enough(v) == \E T \in SUBSET search.hits : Cardinality(T) >= Limit /\ \A h \in T : h.rank >= v
(* d is cut by the vector search, behind entries that the keywords found.  *)
Behind(d) ==
  LET nearer == {e \in SEntries \ {d} : near[e] >= near[d]}
  IN /\ Cardinality(nearer) >= Limit /\ (\E e \in nearer : keyword[e] > 0)
     /\ Cardinality(search.hits) >= Limit

(* A row is one hit, with the rank of the search that its place stands for. *)
HitsOk ==
  /\ IsFiniteSet(search.hits)
  /\ \A g, h \in search.hits : (g.doc = h.doc => g = h) /\ (g.place = h.place => g = h)
  /\ \A h \in search.hits :
       IF h.place <= Limit THEN h.rank = keyword[h.doc]
                           ELSE h.doc \in SEntries /\ h.rank = near[h.doc] /\ search.embedded
  /\ search.pc \in {"encode", "fts"} => search.hits = {}
  /\ search.pc = "semantic" => search.embedded /\ \A h \in search.hits : h.place <= Limit

(* What either search has left out, and why.                               *)
KeywordsOk ==
  search.pc \in {"semantic", "entries", "convs", "rank"} =>
    \A d \in Visible :
      keyword[d] > 0 => (\E h \in search.hits : h.doc = d /\ h.place <= Limit) \/ Enough(keyword[d])
VectorsOk ==
  search.pc \in {"entries", "convs", "rank"} /\ search.embedded /\ ~search.aborted =>
    \A d \in live : near[d] > 0 => d \in DocsOf(search.hits) \/ Enough(near[d]) \/ Behind(d)

UnreadOk == search.aborted \/ \A d \in search.unread : d \in corrupt \/ d \notin Visible

SearchInv ==
  /\ SearchTypeOK
  /\ HitsOk
  /\ KeywordsOk
  /\ VectorsOk
  /\ UnreadOk
  /\ BestHitsKept

---------------------------------------------------------------------------
(* Counting.                                                               *)
LEMMA DocsFinite ==
  /\ IsFiniteSet(Docs) /\ Limit \in Nat \ {0} /\ TopRank \in Nat
  /\ \A S \in SUBSET Docs : IsFiniteSet(S) /\ Cardinality(S) \in Nat
<1>1. IsFiniteSet(Docs)
  BY SearchAssumption, FS_Union DEF Docs
<1> QED BY <1>1, SearchAssumption, FS_Subset, FS_CardinalityType

LEMMA FirstPlaces ==
  ASSUME NEW S, IsFiniteSet(S), NEW f \in [S -> 1 .. Cardinality(S)],
         \A d, e \in S : f[d] = f[e] => d = e,
         NEW n \in Nat, n <= Cardinality(S)
  PROVE  /\ IsFiniteSet({e \in S : f[e] <= n})
         /\ Cardinality({e \in S : f[e] <= n}) = n
<1> DEFINE N == Cardinality(S)
           A == {e \in S : f[e] <= n}
           g == [e \in A |-> f[e]]
<1>1. N \in Nat
  BY FS_CardinalityType
<1>2. IsFiniteSet(1 .. N) /\ Cardinality(1 .. N) = N /\ IsFiniteSet(1 .. n) /\ Cardinality(1 .. n) = n
  <2>1. \A m \in Nat : IsFiniteSet(1 .. m) /\ Cardinality(1 .. m) = m
    <3> SUFFICES ASSUME NEW m \in Nat PROVE IsFiniteSet(1 .. m) /\ Cardinality(1 .. m) = m
      OBVIOUS
    <3>1. IsFiniteSet(1 .. m) /\ Cardinality(1 .. m) = IF 1 > m THEN 0 ELSE m - 1 + 1
      BY FS_Interval
    <3> QED BY <3>1
  <2> QED BY <1>1, <2>1
<1>3. f \in Injection(S, 1 .. N)
  BY DEF Injection, IsInjective
<1>4. f \in Surjection(S, 1 .. N)
  BY <1>2, <1>3, FS_Injection
<1>5. \A m \in 1 .. n : \E e \in A : f[e] = m
  <2> SUFFICES ASSUME NEW m \in 1 .. n PROVE \E e \in A : f[e] = m
    OBVIOUS
  <2>1. m \in 1 .. N
    BY <1>1
  <2>2. PICK e \in S : f[e] = m
    BY <1>4, <2>1 DEF Surjection
  <2> QED BY <2>2
<1>6. g \in [A -> 1 .. n]
  BY <1>1
<1>7. \A d, e \in A : g[d] = g[e] => d = e
  OBVIOUS
<1>8. \A m \in 1 .. n : \E e \in A : g[e] = m
  BY <1>5
<1> HIDE DEF A, g
<1>9. g \in Injection(A, 1 .. n)
  BY <1>6, <1>7 DEF Injection, IsInjective
<1>10. g \in Surjection(A, 1 .. n)
  BY <1>6, <1>8 DEF Surjection
<1>11. IsFiniteSet(A) /\ Cardinality(A) = n
  BY <1>2, <1>9, <1>10, FS_Injection
<1> QED BY <1>11 DEF A

(* What a backend returns.                                                 *)
LEMMA HitsOfPlacing ==
  ASSUME NEW S \in SUBSET Docs, NEW rank, NEW f \in Placings(S, rank), NEW base \in Nat,
         \A d \in S : rank[d] \in Nat
  PROVE  /\ IsFiniteSet(HitsOf(f, rank, base))
         /\ \A h \in HitsOf(f, rank, base) :
              /\ h = [doc |-> h.doc, rank |-> rank[h.doc], place |-> base + f[h.doc]]
              /\ h.doc \in S /\ f[h.doc] \in 1 .. Limit
         /\ \A d \in S : f[d] <= Limit => \E h \in HitsOf(f, rank, base) : h.doc = d
         /\ \A d, e \in S : f[d] = f[e] => d = e
         /\ \A d \in S : f[d] > Limit =>
              /\ Cardinality(HitsOf(f, rank, base)) = Limit
              /\ Cardinality({e \in S : f[e] <= Limit}) = Limit
              /\ \A e \in S : f[e] <= Limit => rank[e] >= rank[d]
<1> DEFINE A == {e \in S : f[e] <= Limit}
           T == HitsOf(f, rank, base)
           g == [e \in A |-> [doc |-> e, rank |-> rank[e], place |-> base + f[e]]]
<1>1. /\ f \in [S -> 1 .. Cardinality(S)] /\ \A d, e \in S : f[d] = f[e] => d = e
      /\ \A d, e \in S : rank[d] > rank[e] => f[d] < f[e]
  BY DEF Placings
<1>2. IsFiniteSet(S) /\ Cardinality(S) \in Nat /\ Limit \in Nat \ {0} /\ \A d \in S : f[d] \in Nat \ {0}
  <2>1. IsFiniteSet(S) /\ Cardinality(S) \in Nat /\ Limit \in Nat \ {0}
    BY DocsFinite
  <2> QED BY <1>1, <2>1
<1>3. T = {[doc |-> e, rank |-> rank[e], place |-> base + f[e]] : e \in A}
  BY <1>1 DEF HitsOf
<1>4. g \in [A -> T] /\ (\A t \in T : \E e \in A : g[e] = t) /\ \A d, e \in A : g[d] = g[e] => d = e
  <2>1. g \in [A -> T] /\ \A t \in T : \E e \in A : g[e] = t
    BY <1>3
  <2>2. \A e \in A : g[e].doc = e
    OBVIOUS
  <2> QED BY <2>1, <2>2
<1>5. IsFiniteSet(A) /\ A \subseteq S
  BY <1>2, FS_Subset
<1>6. IsFiniteSet(T) /\ Cardinality(T) = Cardinality(A)
  <2>1. g \in Surjection(A, T) /\ g \in Injection(A, T)
    BY <1>4 DEF Surjection, Injection, IsInjective
  <2> QED BY <1>5, <2>1, FS_Surjection
<1>7. ASSUME NEW h \in T
      PROVE  /\ h = [doc |-> h.doc, rank |-> rank[h.doc], place |-> base + f[h.doc]]
             /\ h.doc \in S /\ f[h.doc] \in 1 .. Limit
  <2>1. PICK e \in A : h = [doc |-> e, rank |-> rank[e], place |-> base + f[e]]
    BY <1>3
  <2>2. h.doc = e
    BY <2>1
  <2> QED BY <1>2, <2>1, <2>2
<1>8. ASSUME NEW d \in S, f[d] <= Limit PROVE \E h \in T : h.doc = d
  <2>1. [doc |-> d, rank |-> rank[d], place |-> base + f[d]] \in T
    BY <1>3, <1>8
  <2> QED BY <2>1
<1>9. ASSUME NEW d \in S, f[d] > Limit
      PROVE  Cardinality(A) = Limit /\ \A e \in S : f[e] <= Limit => rank[e] >= rank[d]
  <2>1. Limit <= Cardinality(S)
    BY <1>1, <1>2, <1>9
  <2>2. Cardinality(A) = Limit
    BY <1>1, <1>2, <2>1, FirstPlaces
  <2> QED BY <1>1, <1>2, <1>9, <2>2
<1> HIDE DEF A, T, g
<1>10. \A d \in S : f[d] > Limit =>
         /\ Cardinality(T) = Limit /\ Cardinality(A) = Limit
         /\ \A e \in S : f[e] <= Limit => rank[e] >= rank[d]
  BY <1>6, <1>9
<1> QED BY <1>1, <1>6, <1>7, <1>8, <1>10 DEF T, A

(* The final cut, of any list of hits.                                     *)
Listed(H) ==
  /\ IsFiniteSet(H) /\ \A h \in H : h.rank \in Nat /\ h.place \in Nat
  /\ \A g, h \in H : g.place = h.place => g = h
Ahead(H, h) == {g \in H : Outranks(g, h)}

LEMMA AheadFinite ==
  ASSUME NEW H, Listed(H), NEW h
  PROVE  /\ IsFiniteSet(Ahead(H, h)) /\ Cardinality(Ahead(H, h)) \in Nat
         /\ \A T \in SUBSET Ahead(H, h) : Cardinality(T) <= Cardinality(Ahead(H, h))
         /\ Cardinality(Ahead(H, h)) <= Cardinality(H) /\ Cardinality(H) \in Nat
<1>1. Ahead(H, h) \subseteq H /\ IsFiniteSet(H)
  BY DEF Ahead, Listed
<1>2. IsFiniteSet(Ahead(H, h))
  BY <1>1, FS_Subset
<1> QED BY <1>1, <1>2, FS_Subset, FS_CardinalityType

LEMMA BestRanks ==
  ASSUME NEW H, Listed(H), NEW v \in Nat, NEW T \in SUBSET H, Cardinality(T) >= Limit,
         \A g \in T : g.rank >= v, NEW h \in Best(H)
  PROVE  h.rank >= v
<1> SUFFICES ASSUME h.rank < v PROVE FALSE
  BY DEF Best, Listed
<1>1. h \in H /\ Cardinality(Ahead(H, h)) < Limit
  BY DEF Best, Ahead
<1>2. T \subseteq Ahead(H, h)
  BY <1>1 DEF Listed, Ahead, Outranks
<1>3. Cardinality(T) <= Cardinality(Ahead(H, h)) /\ Cardinality(Ahead(H, h)) \in Nat
  BY <1>2, AheadFinite
<1>4. Cardinality(T) \in Nat
  BY <1>2, AheadFinite, FS_Subset, FS_CardinalityType
<1> QED BY <1>1, <1>3, <1>4, DocsFinite

LEMMA LeftOut ==
  ASSUME NEW H, Listed(H), NEW g \in H, g \notin Best(H)
  PROVE  Cardinality(H) >= Limit /\ \A h \in Best(H) : h.rank >= g.rank
<1> DEFINE T == Ahead(H, g)
<1>1. ~ (Cardinality(T) < Limit) /\ Cardinality(T) \in Nat /\ Cardinality(T) <= Cardinality(H)
      /\ Cardinality(H) \in Nat
  BY AheadFinite DEF Best, Ahead
<1>2. T \in SUBSET H /\ g.rank \in Nat /\ \A h \in T : h.rank >= g.rank
  BY DEF Ahead, Outranks, Listed
<1> HIDE DEF T
<1>3. Cardinality(T) >= Limit /\ Cardinality(H) >= Limit
  BY <1>1, DocsFinite
<1>4. ASSUME NEW h \in Best(H) PROVE h.rank >= g.rank
  BY <1>2, <1>3, BestRanks
<1> QED BY <1>3, <1>4

LEMMA BestFull ==
  ASSUME NEW H, Listed(H), Cardinality(H) >= Limit
  PROVE  Cardinality(Best(H)) = Limit
<1> DEFINE N == Cardinality(H)
           f == [h \in H |-> Cardinality(Ahead(H, h)) + 1]
<1>1. N \in Nat /\ IsFiniteSet(H) /\ Limit \in Nat \ {0}
  BY FS_CardinalityType, DocsFinite DEF Listed
<1>2. ASSUME NEW h \in H PROVE f[h] \in 1 .. N
  <2>1. Ahead(H, h) # H /\ Ahead(H, h) \subseteq H
    BY DEF Ahead, Outranks, Listed
  <2>2. Cardinality(Ahead(H, h)) # N
    BY <1>1, <2>1, FS_Subset
  <2> QED BY <1>1, <2>2, AheadFinite
<1>3. ASSUME NEW g \in H, NEW h \in H, Outranks(g, h)
      PROVE  Cardinality(Ahead(H, g)) # Cardinality(Ahead(H, h))
  <2>1. Ahead(H, g) \subseteq Ahead(H, h) /\ g \in Ahead(H, h) /\ g \notin Ahead(H, g)
    BY <1>3 DEF Ahead, Outranks, Listed
  <2>2. IsFiniteSet(Ahead(H, h))
    BY AheadFinite
  <2> QED BY <2>1, <2>2, FS_Subset
<1>4. ASSUME NEW g \in H, NEW h \in H, f[g] = f[h] PROVE g = h
  <2>1. Cardinality(Ahead(H, g)) = Cardinality(Ahead(H, h))
    BY <1>4, AheadFinite
  <2>2. ~ Outranks(g, h) /\ ~ Outranks(h, g)
    BY <1>3, <2>1
  <2> QED BY <2>2 DEF Outranks, Listed
<1>5. f \in [H -> 1 .. N]
  BY <1>2
<1>6. Best(H) = {h \in H : f[h] <= Limit}
  <2>1. \A h \in H : Cardinality(Ahead(H, h)) < Limit <=> f[h] <= Limit
    BY <1>1, AheadFinite
  <2>2. Best(H) = {h \in H : Cardinality(Ahead(H, h)) < Limit}
    BY DEF Best, Ahead
  <2> QED BY <2>1, <2>2
<1> HIDE DEF f
<1>7. Cardinality({h \in H : f[h] <= Limit}) = Limit
  BY <1>1, <1>4, <1>5, FirstPlaces
<1> QED BY <1>6, <1>7

---------------------------------------------------------------------------
(* The steps.                                                              *)
LEMMA SearchTyped ==
  ASSUME SearchTypeOK
  PROVE  /\ \A d \in Docs : keyword[d] \in Nat
         /\ \A e \in SEntries : near[e] \in Nat /\ e \in Docs
         /\ live \subseteq SEntries /\ Visible \subseteq Docs /\ live \subseteq Visible
         /\ \A h \in search.hits :
              /\ h.doc \in Docs /\ h.rank \in 1 .. TopRank /\ h.place \in 1 .. 2 * Limit
              /\ h.rank \in Nat /\ h.place \in Nat
BY DocsFinite DEF SearchTypeOK, Docs, Visible

LEMMA ListedHits ==
  ASSUME SearchTypeOK, HitsOk
  PROVE  Listed(search.hits)
BY SearchTyped DEF HitsOk, Listed

(* A step that leaves the hits as they are.                                *)
LEMMA SameHits ==
  ASSUME SearchInv, search'.hits = search.hits, search'.embedded = search.embedded,
         keyword' = keyword, near' = near, live' \subseteq live,
         search.pc \in {"semantic", "entries", "convs", "rank"} \/ search'.pc = "error",
         search'.pc \in {"semantic", "entries", "convs", "rank", "error"},
         search'.pc = "semantic" => search.pc = "semantic",
         search.pc = "semantic" /\ search'.pc \in {"entries", "convs", "rank"} => search'.aborted,
         search.aborted => search'.aborted
  PROVE  HitsOk' /\ KeywordsOk' /\ VectorsOk' /\ BestHitsKept'
<1>1. \A v : Enough(v) => Enough(v)'
  BY DEF Enough
<1>2. \A d : Behind(d) => Behind(d)'
  BY DEF Behind
<1>3. Visible' \subseteq Visible /\ Visible' = live' \cup SConvs /\ DocsOf(search'.hits) = DocsOf(search.hits)
  BY DEF Visible, DocsOf
<1>4. HitsOk'
  BY DEF SearchInv, HitsOk
<1>5. KeywordsOk'
  <2> SUFFICES ASSUME search'.pc \in {"semantic", "entries", "convs", "rank"},
                      NEW d \in Visible', keyword[d] > 0
               PROVE  (\E h \in search.hits : h.doc = d /\ h.place <= Limit) \/ Enough(keyword[d])'
    BY DEF KeywordsOk
  <2>1. d \in Visible /\ search.pc \in {"semantic", "entries", "convs", "rank"}
    BY <1>3
  <2>2. (\E h \in search.hits : h.doc = d /\ h.place <= Limit) \/ Enough(keyword[d])
    BY <2>1 DEF SearchInv, KeywordsOk
  <2>3. Enough(keyword[d]) => Enough(keyword[d])'
    BY DEF Enough
  <2> QED BY <2>2, <2>3
<1>6. VectorsOk'
  <2> SUFFICES ASSUME search'.pc \in {"entries", "convs", "rank"}, search.embedded, ~ search'.aborted,
                      NEW d \in live', near[d] > 0
               PROVE  d \in DocsOf(search.hits) \/ Enough(near[d])' \/ Behind(d)'
    BY <1>3 DEF VectorsOk
  <2>1. d \in live /\ search.pc \in {"entries", "convs", "rank"} /\ ~ search.aborted
    OBVIOUS
  <2>2. d \in DocsOf(search.hits) \/ Enough(near[d]) \/ Behind(d)
    BY <2>1 DEF SearchInv, VectorsOk
  <2>3. Enough(near[d]) => Enough(near[d])'
    BY DEF Enough
  <2> QED BY <1>2, <2>2, <2>3
<1>7. BestHitsKept'
  BY DEF BestHitsKept, AnsweredSearch, At
<1> QED BY <1>4, <1>5, <1>6, <1>7

LEMMA SearchBase == SearchInit => SearchInv
<1> SUFFICES ASSUME SearchInit PROVE SearchInv
  OBVIOUS
<1>1. SearchTypeOK
  BY SearchAssumption DEF SearchInit, SearchTypeOK, Docs
<1>2. search.hits = {} /\ search.pc = "encode" /\ search.unread = {}
  BY DEF SearchInit
<1>3. HitsOk
  BY <1>2, FS_EmptySet DEF HitsOk
<1>4. KeywordsOk /\ VectorsOk /\ UnreadOk /\ BestHitsKept
  BY <1>2 DEF KeywordsOk, VectorsOk, UnreadOk, BestHitsKept, AnsweredSearch, At
<1> QED BY <1>1, <1>3, <1>4 DEF SearchInv

LEMMA EncodeStep ==
  ASSUME SearchInv, EncodeQuery
  PROVE  SearchInv'
<1>1. PICK ok \in BOOLEAN : search' = [search EXCEPT !.pc = "fts", !.embedded = ok]
  BY DEF EncodeQuery
<1>2. /\ search'.pc = "fts" /\ search.pc = "encode" /\ search'.hits = search.hits
      /\ search'.unread = search.unread /\ search'.aborted = search.aborted
      /\ UNCHANGED <<keyword, near, corrupt, live>>
  BY <1>1 DEF EncodeQuery, SearchInv, SearchTypeOK, At, Frame
<1>3. SearchTypeOK'
  BY <1>1, <1>2 DEF SearchInv, SearchTypeOK
<1>4. HitsOk'
  BY <1>2, FS_EmptySet DEF SearchInv, HitsOk
<1>5. KeywordsOk' /\ VectorsOk' /\ BestHitsKept'
  BY <1>2 DEF KeywordsOk, VectorsOk, BestHitsKept, AnsweredSearch, At
<1>6. UnreadOk'
  BY <1>2 DEF SearchInv, UnreadOk, Visible
<1> QED BY <1>3, <1>4, <1>5, <1>6 DEF SearchInv

LEMMA FailsStep ==
  ASSUME SearchInv, SemanticFails \/ SearchRaises
  PROVE  SearchInv'
<1>1. \/ search.pc = "semantic" /\ search' = [search EXCEPT !.pc = "entries", !.aborted = TRUE]
      \/ search.pc \in {"fts", "semantic"} /\ search' = [search EXCEPT !.pc = "error"]
  BY DEF SemanticFails, SearchRaises, At
<1>2. UNCHANGED <<keyword, near, corrupt, live>>
  BY DEF SemanticFails, SearchRaises, Frame
<1>3. /\ search'.hits = search.hits /\ search'.embedded = search.embedded
      /\ search'.unread = search.unread
      /\ \/ search.pc = "semantic" /\ search'.pc = "entries" /\ search'.aborted
         \/ search'.pc = "error" /\ search'.aborted = search.aborted
  BY <1>1 DEF SearchInv, SearchTypeOK
<1>4. SearchTypeOK'
  BY <1>1, <1>2 DEF SearchInv, SearchTypeOK
<1>5. HitsOk' /\ KeywordsOk' /\ VectorsOk' /\ BestHitsKept'
  <2>1. search.aborted => search'.aborted
    BY <1>3
  <2> QED BY <1>2, <1>3, <2>1, SameHits
<1>6. UnreadOk'
  BY <1>2, <1>3 DEF SearchInv, UnreadOk, Visible
<1> QED BY <1>4, <1>5, <1>6 DEF SearchInv

LEMMA HydrateStep ==
  ASSUME SearchInv, NEW S \in {SEntries, SConvs}, NEW pc, NEW next,
         <<pc, next>> \in {<<"entries", "convs">>, <<"convs", "rank">>}, Hydrate(pc, next, S)
  PROVE  SearchInv'
<1> DEFINE asked == DocsOf(search.hits) \cap S
<1>1. PICK fails \in BOOLEAN :
        search' = [search EXCEPT !.pc = next, !.aborted = search.aborted \/ fails,
                     !.unread = search.unread \cup (IF fails THEN asked ELSE asked \ Readable(asked))]
  BY DEF Hydrate
<1>2. search.pc = pc /\ UNCHANGED <<keyword, near, corrupt, live>>
  BY DEF Hydrate, At, Frame
<1>3. /\ pc \in {"entries", "convs"} /\ next \in {"convs", "rank"}
  OBVIOUS
<1>4. asked \subseteq Docs
  BY DEF Docs
<1> HIDE DEF asked
<1>5. /\ search'.hits = search.hits /\ search'.embedded = search.embedded /\ search'.pc = next
      /\ search'.aborted = (search.aborted \/ fails)
      /\ search'.unread = search.unread \cup (IF fails THEN asked ELSE asked \ Readable(asked))
  BY <1>1 DEF SearchInv, SearchTypeOK
<1>6. SearchTypeOK'
  <2>1. search'.unread \in SUBSET Docs
    BY <1>4, <1>5 DEF SearchInv, SearchTypeOK
  <2>2. search'.aborted \in BOOLEAN /\ search'.pc \in {"convs", "rank"}
    BY <1>3, <1>5 DEF SearchInv, SearchTypeOK
  <2> QED BY <1>1, <1>2, <1>5, <2>1, <2>2 DEF SearchInv, SearchTypeOK
<1>7. HitsOk' /\ KeywordsOk' /\ VectorsOk' /\ BestHitsKept'
  BY <1>2, <1>3, <1>5, SameHits
<1>8. UnreadOk'
  <2> SUFFICES ASSUME ~ search'.aborted, NEW d \in search'.unread PROVE d \in corrupt \/ d \notin Visible
    BY <1>2 DEF UnreadOk, Visible
  <2>1. ~ search.aborted /\ ~ fails
    BY <1>5
  <2>2. d \in search.unread \/ d \in asked \ Readable(asked)
    BY <1>5, <2>1
  <2> QED BY <2>1, <2>2 DEF SearchInv, UnreadOk, Readable
<1> QED BY <1>6, <1>7, <1>8 DEF SearchInv

LEMMA DeleteStep ==
  ASSUME SearchInv, NEW e \in SEntries, DeleteFound(e)
  PROVE  SearchInv'
<1>1. /\ UNCHANGED <<keyword, near, corrupt, search>> /\ live' = live \ {e}
      /\ search.pc \in {"fts", "semantic", "entries"}
  BY DEF DeleteFound
<1>2. SearchTypeOK'
  BY <1>1 DEF SearchInv, SearchTypeOK
<1>3. UnreadOk'
  BY <1>1 DEF SearchInv, UnreadOk, Visible
<1>4. CASE search.pc = "fts"
  <2>1. HitsOk'
    BY <1>1 DEF SearchInv, HitsOk
  <2>2. KeywordsOk' /\ VectorsOk' /\ BestHitsKept'
    BY <1>1, <1>4 DEF KeywordsOk, VectorsOk, BestHitsKept, AnsweredSearch, At
  <2> QED BY <1>2, <1>3, <2>1, <2>2 DEF SearchInv
<1>5. CASE search.pc \in {"semantic", "entries"}
  <2>1. live' \subseteq live
    BY <1>1
  <2>2. HitsOk' /\ BestHitsKept'
    BY <1>1, <1>5 DEF SearchInv, HitsOk, BestHitsKept, AnsweredSearch, At
  <2>3. (\A v : Enough(v)' = Enough(v)) /\ (\A d : Behind(d)' = Behind(d))
    BY <1>1 DEF Enough, Behind
  <2>4. KeywordsOk'
    BY <1>1, <2>1 DEF SearchInv, KeywordsOk, Enough, Visible
  <2>5. VectorsOk'
    BY <1>1, <2>1 DEF SearchInv, VectorsOk, Enough, Behind, DocsOf
  <2> QED BY <1>2, <1>3, <2>2, <2>4, <2>5 DEF SearchInv
<1> QED BY <1>1, <1>4, <1>5

LEMMA FtsStep ==
  ASSUME SearchInv, FtsSearch
  PROVE  SearchInv'
<1> DEFINE S == {d \in Visible : keyword[d] > 0}
<1>1. PICK f \in Placings(S, keyword) :
        search' = [search EXCEPT !.pc = IF search.embedded THEN "semantic" ELSE "entries",
                                 !.hits = HitsOf(f, keyword, 0)]
  BY DEF FtsSearch
<1>2. /\ search.pc = "fts" /\ UNCHANGED <<keyword, near, corrupt, live>>
      /\ SearchTypeOK
  BY DEF FtsSearch, At, Frame, SearchInv
<1> DEFINE T == HitsOf(f, keyword, 0)
<1>3. S \in SUBSET Docs /\ \A d \in S : keyword[d] \in Nat
  BY <1>2, SearchTyped
<1>4. /\ IsFiniteSet(T)
      /\ \A h \in T :
           /\ h = [doc |-> h.doc, rank |-> keyword[h.doc], place |-> 0 + f[h.doc]]
           /\ h.doc \in S /\ f[h.doc] \in 1 .. Limit
      /\ \A d \in S : f[d] <= Limit => \E h \in T : h.doc = d
      /\ \A d, e \in S : f[d] = f[e] => d = e
      /\ \A d \in S : f[d] > Limit =>
           /\ Cardinality(T) = Limit
           /\ Cardinality({e \in S : f[e] <= Limit}) = Limit
           /\ \A e \in S : f[e] <= Limit => keyword[e] >= keyword[d]
  <2>1. 0 \in Nat
    OBVIOUS
  <2> QED BY <1>3, <2>1, HitsOfPlacing
<1>5. \A d \in S : d \in Visible /\ keyword[d] > 0
  OBVIOUS
<1>6. /\ search'.hits = T /\ search'.embedded = search.embedded /\ search'.aborted = search.aborted
      /\ search'.unread = search.unread
      /\ search'.pc = IF search.embedded THEN "semantic" ELSE "entries"
  BY <1>1, <1>2 DEF SearchTypeOK
<1>7. \A d \in S : f[d] \in Nat
  BY DEF Placings
<1> HIDE DEF S, T
<1>8. \A h \in T : h.rank = keyword[h.doc] /\ h.place = f[h.doc] /\ h.place \in 1 .. Limit /\ h.doc \in S
  BY <1>4
<1>9. T \subseteq [doc : Docs, rank : 1 .. TopRank, place : 1 .. 2 * Limit]
  <2> SUFFICES ASSUME NEW h \in T PROVE h \in [doc : Docs, rank : 1 .. TopRank, place : 1 .. 2 * Limit]
    OBVIOUS
  <2>1. h.doc \in Docs /\ keyword[h.doc] > 0 /\ keyword[h.doc] \in 0 .. TopRank
    BY <1>2, <1>3, <1>5, <1>8 DEF SearchTypeOK
  <2>2. h.rank \in 1 .. TopRank /\ h.place \in 1 .. 2 * Limit
    BY <1>8, <2>1, DocsFinite
  <2>3. h = [doc |-> h.doc, rank |-> h.rank, place |-> h.place]
    BY <1>4
  <2> QED BY <2>1, <2>2, <2>3
<1>10. SearchTypeOK'
  BY <1>1, <1>2, <1>6, <1>9 DEF SearchTypeOK
<1>11. HitsOk'
  <2>1. \A g, h \in T : (g.doc = h.doc => g = h) /\ (g.place = h.place => g = h)
    <3> SUFFICES ASSUME NEW g \in T, NEW h \in T, g.doc = h.doc \/ g.place = h.place PROVE g = h
      OBVIOUS
    <3>1. g.doc = h.doc
      BY <1>4, <1>8
    <3> QED BY <1>4, <3>1
  <2>2. \A h \in T : h.place <= Limit
    BY <1>8, DocsFinite
  <2>3. search'.pc \in {"semantic", "entries"} /\ (search'.pc = "semantic" => search'.embedded)
    BY <1>6
  <2> QED BY <1>2, <1>4, <1>6, <1>8, <2>1, <2>2, <2>3 DEF HitsOk
<1>12. KeywordsOk'
  <2> SUFFICES ASSUME NEW d \in Visible, keyword[d] > 0
               PROVE  \/ \E h \in T : h.doc = d /\ h.place <= Limit
                      \/ \E U \in SUBSET T : Cardinality(U) >= Limit /\ \A h \in U : h.rank >= keyword[d]
    BY <1>2, <1>6 DEF KeywordsOk, Enough, Visible
  <2>1. d \in S
    BY DEF S
  <2>2. CASE f[d] <= Limit
    BY <1>4, <1>8, <2>1, <2>2, DocsFinite
  <2>3. CASE f[d] > Limit
    <3>1. Cardinality(T) >= Limit
      <4>1. Cardinality(T) = Limit
        BY <1>4, <2>1, <2>3
      <4> QED BY <4>1, DocsFinite
    <3>2. \A h \in T : h.rank >= keyword[d]
      <4> SUFFICES ASSUME NEW h \in T PROVE h.rank >= keyword[d]
        OBVIOUS
      <4>1. h.doc \in S /\ f[h.doc] <= Limit /\ h.rank = keyword[h.doc]
        BY <1>8, DocsFinite
      <4> QED BY <1>4, <2>1, <2>3, <4>1
    <3> QED BY <3>1, <3>2
  <2>4. f[d] <= Limit \/ f[d] > Limit
    BY <1>7, <2>1, DocsFinite
  <2> QED BY <2>2, <2>3, <2>4
<1>13. VectorsOk' /\ BestHitsKept'
  BY <1>6 DEF VectorsOk, BestHitsKept, AnsweredSearch, At
<1>14. UnreadOk'
  BY <1>2, <1>6 DEF SearchInv, UnreadOk, Visible
<1> QED BY <1>10, <1>11, <1>12, <1>13, <1>14 DEF SearchInv

LEMMA SemanticStep ==
  ASSUME SearchInv, SemanticSearch
  PROVE  SearchInv'
<1> DEFINE S == {e \in live : near[e] > 0}
<1>1. PICK f \in Placings(S, near) :
        search' = [search EXCEPT !.pc = "entries",
                                 !.hits = Merged(search.hits, HitsOf(f, near, Limit))]
  BY DEF SemanticSearch
<1>2. /\ search.pc = "semantic" /\ UNCHANGED <<keyword, near, corrupt, live>>
      /\ SearchTypeOK /\ HitsOk /\ KeywordsOk
  BY DEF SemanticSearch, At, Frame, SearchInv
<1> DEFINE T == HitsOf(f, near, Limit)
           first == search.hits
           second == {h \in T : h.doc \notin DocsOf(first)}
           all == first \cup second
<1>3. S \in SUBSET Docs /\ (\A d \in S : near[d] \in Nat) /\ Limit \in Nat \ {0} /\ TopRank \in Nat
  BY <1>2, SearchTyped, DocsFinite
<1>4. /\ IsFiniteSet(T)
      /\ \A h \in T :
           /\ h = [doc |-> h.doc, rank |-> near[h.doc], place |-> Limit + f[h.doc]]
           /\ h.doc \in S /\ f[h.doc] \in 1 .. Limit
      /\ \A d \in S : f[d] <= Limit => \E h \in T : h.doc = d
      /\ \A d, e \in S : f[d] = f[e] => d = e
      /\ \A d \in S : f[d] > Limit =>
           /\ Cardinality(T) = Limit
           /\ Cardinality({e \in S : f[e] <= Limit}) = Limit
           /\ \A e \in S : f[e] <= Limit => near[e] >= near[d]
  BY <1>3, HitsOfPlacing
<1>5. \A d \in S : d \in live /\ near[d] > 0 /\ d \in SEntries
  BY <1>2, SearchTyped
<1>6. /\ search'.hits = all /\ search'.embedded = search.embedded /\ search'.aborted = search.aborted
      /\ search'.unread = search.unread /\ search'.pc = "entries" /\ search.embedded
  BY <1>1, <1>2 DEF SearchTypeOK, HitsOk, Merged
<1>7. \A d \in S : f[d] \in Nat
  BY DEF Placings
<1>8. \A d \in live : near[d] > 0 => d \in S
  OBVIOUS
<1> HIDE DEF S, T
<1>9. \A h \in T : /\ h.rank = near[h.doc] /\ h.place = Limit + f[h.doc] /\ h.doc \in S
                   /\ h.place \in (Limit + 1) .. (2 * Limit)
  <2> SUFFICES ASSUME NEW h \in T
               PROVE  /\ h.rank = near[h.doc] /\ h.place = Limit + f[h.doc] /\ h.doc \in S
                      /\ h.place \in (Limit + 1) .. (2 * Limit)
    OBVIOUS
  <2>1. h.rank = near[h.doc] /\ h.place = Limit + f[h.doc] /\ h.doc \in S /\ f[h.doc] \in 1 .. Limit
    BY <1>4
  <2> QED BY <1>3, <2>1
<1>10. T \subseteq [doc : Docs, rank : 1 .. TopRank, place : 1 .. 2 * Limit]
  <2> SUFFICES ASSUME NEW h \in T PROVE h \in [doc : Docs, rank : 1 .. TopRank, place : 1 .. 2 * Limit]
    OBVIOUS
  <2>1. h.doc \in Docs /\ near[h.doc] > 0 /\ near[h.doc] \in 0 .. TopRank
    BY <1>2, <1>3, <1>5, <1>9 DEF SearchTypeOK
  <2>2. h.rank \in 1 .. TopRank /\ h.place \in 1 .. 2 * Limit
    BY <1>3, <1>9, <2>1
  <2>3. h = [doc |-> h.doc, rank |-> h.rank, place |-> h.place]
    BY <1>4
  <2> QED BY <2>1, <2>2, <2>3
<1>11. all \subseteq [doc : Docs, rank : 1 .. TopRank, place : 1 .. 2 * Limit]
  BY <1>2, <1>10 DEF SearchTypeOK
<1>12. SearchTypeOK'
  BY <1>1, <1>2, <1>6, <1>11 DEF SearchTypeOK
<1>13. HitsOk'
  <2>1. IsFiniteSet(all)
    <3>1. IsFiniteSet(second) /\ IsFiniteSet(first)
      BY <1>2, <1>4, FS_Subset DEF HitsOk
    <3> QED BY <3>1, FS_Union
  <2>2. \A g, h \in T : (g.doc = h.doc => g = h) /\ (g.place = h.place => g = h)
    <3> SUFFICES ASSUME NEW g \in T, NEW h \in T, g.doc = h.doc \/ g.place = h.place PROVE g = h
      OBVIOUS
    <3>1. g.doc = h.doc
      <4>1. g.doc \in S /\ h.doc \in S /\ (g.place = h.place => f[g.doc] = f[h.doc])
        BY <1>3, <1>7, <1>9
      <4> QED BY <1>4, <4>1
    <3> QED BY <1>4, <3>1
  <2>3. \A h \in first : h.place <= Limit /\ h.place \in Nat /\ h.doc \in DocsOf(first)
    BY <1>2, SearchTyped DEF HitsOk, DocsOf
  <2>4. \A h \in second : ~ (h.place <= Limit) /\ h.doc \notin DocsOf(first) /\ h \in T
    BY <1>3, <1>9
  <2>5. \A g, h \in all : (g.doc = h.doc => g = h) /\ (g.place = h.place => g = h)
    <3> SUFFICES ASSUME NEW g \in all, NEW h \in all, g.doc = h.doc \/ g.place = h.place PROVE g = h
      OBVIOUS
    <3>1. CASE g \in first /\ h \in first
      BY <1>2, <3>1 DEF HitsOk
    <3>2. CASE g \in second /\ h \in second
      BY <2>2, <2>4, <3>2
    <3>3. CASE (g \in first /\ h \in second) \/ (g \in second /\ h \in first)
      BY <2>3, <2>4, <3>3
    <3>4. (g \in first \/ g \in second) /\ (h \in first \/ h \in second)
      OBVIOUS
    <3> QED BY <3>1, <3>2, <3>3, <3>4
  <2>6. \A h \in all : IF h.place <= Limit THEN h.rank = keyword[h.doc]
                       ELSE h.doc \in SEntries /\ h.rank = near[h.doc] /\ search.embedded
    <3> SUFFICES ASSUME NEW h \in all
                 PROVE  IF h.place <= Limit THEN h.rank = keyword[h.doc]
                        ELSE h.doc \in SEntries /\ h.rank = near[h.doc] /\ search.embedded
      OBVIOUS
    <3>1. CASE h \in first
      BY <1>2, <2>3, <3>1 DEF HitsOk
    <3>2. CASE h \in second
      BY <1>5, <1>6, <1>9, <2>4, <3>2
    <3> QED BY <3>1, <3>2
  <2> HIDE DEF all
  <2> QED BY <1>2, <1>6, <2>1, <2>5, <2>6 DEF HitsOk
<1>14. KeywordsOk'
  <2> SUFFICES ASSUME NEW d \in Visible, keyword[d] > 0
               PROVE  \/ \E h \in all : h.doc = d /\ h.place <= Limit
                      \/ \E U \in SUBSET all : Cardinality(U) >= Limit /\ \A h \in U : h.rank >= keyword[d]
    <3> HIDE DEF all
    <3> QED BY <1>2, <1>6 DEF KeywordsOk, Enough, Visible
  <2> QED BY <1>2 DEF KeywordsOk, Enough
<1>15. VectorsOk'
  <2> SUFFICES ASSUME NEW d \in live, near[d] > 0, d \notin DocsOf(all)
               PROVE  \/ \E U \in SUBSET all : Cardinality(U) >= Limit /\ \A h \in U : h.rank >= near[d]
                      \/ /\ Cardinality({e \in SEntries \ {d} : near[e] >= near[d]}) >= Limit
                         /\ \E e \in {e \in SEntries \ {d} : near[e] >= near[d]} : keyword[e] > 0
                         /\ Cardinality(all) >= Limit
    <3> HIDE DEF all
    <3> QED BY <1>2, <1>6 DEF VectorsOk, Enough, Behind
  <2> DEFINE A == {e \in S : f[e] <= Limit}
             nearer == {e \in SEntries \ {d} : near[e] >= near[d]}
  <2>1. d \in S
    BY <1>8
  <2>2. f[d] > Limit
    <3> SUFFICES ASSUME ~ (f[d] > Limit) PROVE FALSE
      OBVIOUS
    <3>1. f[d] <= Limit
      BY <1>3, <1>7, <2>1
    <3>2. PICK h \in T : h.doc = d
      BY <1>4, <2>1, <3>1
    <3>3. d \in DocsOf(all)
      BY <3>2 DEF DocsOf
    <3> QED BY <3>3
  <2>3. /\ Cardinality(T) = Limit /\ Cardinality(A) = Limit /\ d \notin A
        /\ \A e \in A : e \in S /\ near[e] >= near[d]
    BY <1>3, <1>4, <1>7, <2>1, <2>2
  <2>4. A \subseteq nearer
    BY <1>5, <2>3
  <2>5. IsFiniteSet(nearer) /\ Cardinality(nearer) \in Nat /\ Cardinality(nearer) >= Limit
    <3>1. nearer \in SUBSET Docs
      BY DEF Docs
    <3>2. IsFiniteSet(nearer) /\ Cardinality(nearer) \in Nat
      BY <3>1, DocsFinite
    <3> HIDE DEF nearer, A
    <3>3. Cardinality(A) <= Cardinality(nearer)
      BY <2>4, <3>2, FS_Subset
    <3> QED BY <1>3, <2>3, <3>2, <3>3
  <2>6. \A h \in T : h.doc \in A /\ h.rank = near[h.doc]
    BY <1>4, <1>9
  <2>7. \A e \in A : \E h \in all : h.doc = e
    <3> SUFFICES ASSUME NEW e \in A PROVE \E h \in all : h.doc = e
      OBVIOUS
    <3>1. PICK h \in T : h.doc = e
      BY <1>4
    <3> QED BY <3>1 DEF DocsOf
  <2> HIDE DEF A, nearer
  <2>8. CASE \E e \in nearer : keyword[e] > 0
    <3>1. IsFiniteSet(all) /\ Cardinality(all) \in Nat
      BY <1>6, <1>13, FS_CardinalityType DEF HitsOk
    <3> DEFINE g == [e \in A |-> CHOOSE h \in all : h.doc = e]
    <3>2. g \in [A -> all] /\ \A e \in A : g[e].doc = e
      BY <2>7
    <3> HIDE DEF g, all
    <3>3. g \in Injection(A, all)
      BY <3>2 DEF Injection, IsInjective
    <3>4. Cardinality(A) <= Cardinality(all)
      BY <3>1, <3>3, FS_Injection
    <3>5. Cardinality(all) >= Limit
      BY <1>3, <2>3, <3>1, <3>4
    <3> QED BY <2>5, <2>8, <3>5 DEF nearer
  <2>9. CASE \A e \in nearer : ~ (keyword[e] > 0)
    <3>1. \A h \in first : keyword[h.doc] > 0
      <4> SUFFICES ASSUME NEW h \in first PROVE keyword[h.doc] > 0
        OBVIOUS
      <4>1. h.rank = keyword[h.doc] /\ h.rank \in 1 .. TopRank
        BY <1>2, SearchTyped DEF HitsOk
      <4> QED BY <1>3, <4>1
    <3>2. \A h \in T : h.doc \notin DocsOf(first)
      BY <2>4, <2>6, <2>9, <3>1 DEF DocsOf
    <3>3. T \in SUBSET all
      BY <3>2
    <3>4. \A h \in T : h.rank >= near[d]
      BY <2>3, <2>6
    <3>5. Cardinality(T) >= Limit
      BY <1>3, <2>3
    <3> QED BY <3>3, <3>4, <3>5
  <2> QED BY <2>8, <2>9
<1>16. BestHitsKept'
  BY <1>6 DEF BestHitsKept, AnsweredSearch, At
<1>17. UnreadOk'
  BY <1>2, <1>6 DEF SearchInv, UnreadOk, Visible
<1> QED BY <1>12, <1>13, <1>14, <1>15, <1>16, <1>17 DEF SearchInv

(* Best keeps the limit, and nothing below a rank that enough hits reach.  *)
LEMMA EnoughKept ==
  ASSUME SearchTypeOK, HitsOk, NEW v \in Nat, Enough(v)
  PROVE  Cardinality(search.hits) >= Limit /\ \A h \in Best(search.hits) : h.rank >= v
<1>1. PICK T \in SUBSET search.hits : Cardinality(T) >= Limit /\ \A h \in T : h.rank >= v
  BY DEF Enough
<1>2. Listed(search.hits)
  BY ListedHits
<1>3. \A h \in Best(search.hits) : h.rank >= v
  BY <1>1, <1>2, BestRanks
<1>4. /\ Cardinality(T) <= Cardinality(search.hits)
      /\ Cardinality(T) \in Nat /\ Cardinality(search.hits) \in Nat
  BY <1>1, FS_Subset, FS_CardinalityType DEF HitsOk
<1>5. Cardinality(search.hits) >= Limit
  BY <1>1, <1>4, DocsFinite
<1> QED BY <1>3, <1>5

LEMMA AnswerKept ==
  ASSUME SearchInv, search.pc = "rank", NEW d \in Visible, d \notin DocsOf(Best(search.hits)),
         Scores(d) # {}
  PROVE  LET nearer == {e \in SEntries \ {d} : near[e] >= near[d]}
         IN /\ Cardinality(search.hits) >= Limit
            /\ \/ \E r \in Scores(d) : \A h \in Best(search.hits) : h.rank >= r
               \/ /\ d \in SEntries /\ keyword[d] = 0
                  /\ Cardinality(nearer) >= Limit /\ \E e \in nearer : keyword[e] > 0
<1> DEFINE H == search.hits
           full(v) == Cardinality(H) >= Limit /\ \A h \in Best(H) : h.rank >= v
<1>1. Listed(H) /\ SearchTypeOK /\ HitsOk
  BY ListedHits DEF SearchInv
<1>2. d \in Docs /\ keyword[d] \in Nat /\ (d \in SEntries => near[d] \in Nat /\ d \in live)
  BY <1>1, SearchTyped, SearchAssumption DEF Visible
<1>3. keyword[d] > 0 => (\E h \in H : h.doc = d /\ h.place <= Limit) \/ full(keyword[d])
  <2>1. keyword[d] > 0 => (\E h \in H : h.doc = d /\ h.place <= Limit) \/ Enough(keyword[d])
    BY DEF SearchInv, KeywordsOk
  <2>2. Enough(keyword[d]) => full(keyword[d])
    BY <1>1, <1>2, EnoughKept
  <2> QED BY <2>1, <2>2
<1>4. \A h \in H : h.doc = d => full(h.rank)
  <2> SUFFICES ASSUME NEW h \in H, h.doc = d PROVE full(h.rank)
    OBVIOUS
  <2>1. h \notin Best(H)
    BY DEF DocsOf
  <2> QED BY <1>1, <2>1, LeftOut
<1>5. keyword[d] > 0 => full(keyword[d])
  BY <1>1, <1>3, <1>4 DEF HitsOk
<1> HIDE DEF full
<1>6. CASE keyword[d] > 0
  <2>1. keyword[d] \in Scores(d)
    BY <1>2, <1>6 DEF Scores
  <2> QED BY <1>5, <1>6, <2>1 DEF full
<1>7. CASE keyword[d] = 0
  <2>1. near[d] \in Scores(d) /\ d \in SEntries /\ search.embedded /\ ~ search.aborted /\ near[d] > 0
    BY <1>2, <1>7 DEF Scores
  <2>2. d \in DocsOf(H) \/ Enough(near[d]) \/ Behind(d)
    BY <1>2, <2>1 DEF SearchInv, VectorsOk
  <2>3. CASE d \in DocsOf(H)
    <3>1. PICK h \in H : h.doc = d
      BY <2>3 DEF DocsOf
    <3>2. h.rank \in 1 .. TopRank /\ h.rank # 0
      BY <1>1, SearchTyped, DocsFinite
    <3>3. h.rank = near[d]
      BY <1>1, <1>7, <3>1, <3>2 DEF HitsOk
    <3>4. full(near[d])
      BY <1>4, <3>1, <3>3
    <3> QED BY <2>1, <3>4 DEF full
  <2>4. CASE Enough(near[d])
    BY <1>1, <1>2, <2>1, <2>4, EnoughKept
  <2>5. CASE Behind(d)
    BY <1>7, <2>1, <2>5 DEF Behind
  <2> QED BY <2>2, <2>3, <2>4, <2>5
<1> QED BY <1>2, <1>6, <1>7

LEMMA RankStep ==
  ASSUME SearchInv, BuildPayload
  PROVE  SearchInv'
<1>1. /\ search.pc = "rank" /\ search' = [search EXCEPT !.pc = "done", !.hits = Best(search.hits)]
      /\ UNCHANGED <<keyword, near, corrupt, live>> /\ SearchTypeOK /\ HitsOk
  BY DEF BuildPayload, At, Frame, SearchInv
<1>2. /\ search'.pc = "done" /\ search'.hits = Best(search.hits) /\ search'.embedded = search.embedded
      /\ search'.aborted = search.aborted /\ search'.unread = search.unread
  BY <1>1 DEF SearchTypeOK
<1>3. Best(search.hits) \subseteq search.hits
  BY DEF Best
<1>4. SearchTypeOK'
  BY <1>1, <1>2, <1>3 DEF SearchTypeOK
<1>5. HitsOk'
  <2>1. IsFiniteSet(Best(search.hits))
    BY <1>1, <1>3, FS_Subset DEF HitsOk
  <2> QED BY <1>1, <1>2, <1>3, <2>1 DEF HitsOk
<1>6. KeywordsOk' /\ VectorsOk'
  BY <1>2 DEF KeywordsOk, VectorsOk
<1>7. UnreadOk'
  BY <1>1, <1>2 DEF SearchInv, UnreadOk, Visible
<1>8. BestHitsKept'
  <2> SUFFICES ASSUME NEW d \in Visible, d \notin DocsOf(Best(search.hits)), Scores(d) # {}
               PROVE  LET nearer == {e \in SEntries \ {d} : near[e] >= near[d]}
                      IN /\ Cardinality(Best(search.hits)) = Limit
                         /\ \/ \A h \in Best(search.hits) : \E r \in Scores(d) : h.rank >= r
                            \/ /\ d \in SEntries /\ keyword[d] = 0
                               /\ Cardinality(nearer) >= Limit /\ \E e \in nearer : keyword[e] > 0
    <3>1. Visible' = Visible /\ DocsOf(search.hits)' = DocsOf(Best(search.hits))
      BY <1>1, <1>2 DEF Visible, DocsOf
    <3>2. \A d : Scores(d)' = Scores(d)
      BY <1>1, <1>2 DEF Scores
    <3> QED BY <1>1, <1>2, <3>1, <3>2 DEF BestHitsKept
  <2>1. Cardinality(search.hits) >= Limit /\ Listed(search.hits)
    BY <1>1, AnswerKept, ListedHits
  <2>2. Cardinality(Best(search.hits)) = Limit
    BY <2>1, BestFull
  <2> QED BY <1>1, <2>2, AnswerKept
<1> QED BY <1>4, <1>5, <1>6, <1>7, <1>8 DEF SearchInv

LEMMA SearchStep ==
  ASSUME SearchInv, [SearchNext]_searchVars
  PROVE  SearchInv'
<1>1. CASE EncodeQuery
  BY <1>1, EncodeStep
<1>2. CASE FtsSearch
  BY <1>2, FtsStep
<1>3. CASE SemanticSearch
  BY <1>3, SemanticStep
<1>4. CASE SemanticFails \/ SearchRaises
  BY <1>4, FailsStep
<1>5. CASE HydrateEntries
  BY <1>5, HydrateStep DEF HydrateEntries
<1>6. CASE HydrateConversations
  BY <1>6, HydrateStep DEF HydrateConversations
<1>7. CASE BuildPayload
  BY <1>7, RankStep
<1>8. ASSUME NEW e \in SEntries, DeleteFound(e) PROVE SearchInv'
  BY <1>8, DeleteStep
<1>9. CASE UNCHANGED searchVars
  <2>1. UNCHANGED <<keyword, near, corrupt, live, search>>
    BY <1>9 DEF searchVars
  <2>2. Visible' = Visible /\ Docs' = Docs
    BY <2>1 DEF Visible, Docs
  <2>3. SearchTypeOK' /\ HitsOk'
    BY <2>1, <2>2 DEF SearchInv, SearchTypeOK, HitsOk
  <2>4. KeywordsOk'
    BY <2>1, <2>2 DEF SearchInv, KeywordsOk, Enough
  <2>5. VectorsOk'
    BY <2>1, <2>2 DEF SearchInv, VectorsOk, Enough, Behind, DocsOf
  <2>6. UnreadOk'
    BY <2>1, <2>2 DEF SearchInv, UnreadOk
  <2>7. BestHitsKept'
    <3>1. (\A d : Scores(d)' = Scores(d)) /\ DocsOf(search.hits)' = DocsOf(search.hits)
      BY <2>1 DEF Scores, DocsOf
    <3> QED BY <2>1, <2>2, <3>1 DEF SearchInv, BestHitsKept, AnsweredSearch, At
  <2> QED BY <2>3, <2>4, <2>5, <2>6, <2>7 DEF SearchInv
<1> QED BY <1>1, <1>2, <1>3, <1>4, <1>5, <1>6, <1>7, <1>8, <1>9 DEF SearchNext

(* A search keeps what each backend left out, and why, until it ranks:     *)
(* SearchService's _run_dual_search, _hydrate_results and _build_payload,  *)
(* with any rows, any ranks and entries deleted in between.                *)
THEOREM SearchInvariant == SearchSpec => []SearchInv
<1> USE SearchBase, SearchStep
<1> QED BY PTL DEF SearchSpec

(* Every answer lists a row once, hides a text only for a reason, and      *)
(* leaves out only what is ranked lower or was cut by the vector search    *)
(* (_build_payload's cut after _run_dual_search's two).                    *)
THEOREM SearchExplained == SearchSpec => []HitsExplained
<1>1. SearchInv => HitsExplained
  BY DEF SearchInv, HitsOk, UnreadOk, HitsExplained, HitsReadable
<1> QED BY <1>1, SearchInvariant, PTL
=============================================================================
