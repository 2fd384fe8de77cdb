--------------------------- MODULE Topics_proofs ---------------------------
(***************************************************************************)
(* Theorems about the writes to topics and the rows under them, for any    *)
(* number of topics, rows and requests: a topic goes away only with its    *)
(* rows carried over, and the foreign key stops a deletion only when rows  *)
(* arrived behind its back.  And about the row locks of the listed write   *)
(* transactions: which pairs may deadlock, and that the others cannot.     *)
(***************************************************************************)
EXTENDS Topics, RowLocks, SequenceTheorems, TLAPS

(* Where a reassignment moves rows it has a destination, another topic.    *)
MovesOk(w) ==
  LET x == call[w] IN
  x.pc \in Reassigning =>
    /\ x.src # Nil /\ x.src # x.dst
    /\ x.pc = "counted" => x.dst # Nil
    /\ x.pc \in {"entries", "drop", "commit"} /\ x.convs # {} => x.dst # Nil
    /\ x.pc \in {"drop", "commit"} /\ x.ents # {} => x.dst # Nil

(* What it has not moved, of the kinds it is done with, came late.         *)
LateOk(w) ==
  LET x == call[w] IN
  /\ x.pc \in {"entries", "drop"} => ConvsIn(x.src) \ x.convs \subseteq x.late
  /\ x.pc = "drop" => EntriesIn(x.src) \ x.ents \subseteq x.late
  /\ x.pc = "blocked" => x.late # {}

(* Once it has dropped its topic, it has all of the topic's rows, and no   *)
(* other reassignment is about to bring one.                               *)
BringsNothing(v, t) ==
  call[v].dst = t =>
    /\ call[v].pc \in {"entries", "drop", "commit"} => call[v].convs = {}
    /\ call[v].pc \in {"drop", "commit"} => call[v].ents = {}
DroppedOk(w) ==
  LET x == call[w] IN
  x.pc = "commit" =>
    /\ EntriesIn(x.src) \subseteq x.ents /\ ConvsIn(x.src) \subseteq x.convs
    /\ \A v \in Calls : v # w => BringsNothing(v, x.src)

CallsInv == \A w \in Calls : MovesOk(w) /\ LateOk(w) /\ DroppedOk(w)
TopicsInv == TopicsTypeOK /\ CallsInv

LEMMA TopicsInitInv == TopicsInit => TopicsInv
BY DEF TopicsInit, TopicsInv, TopicsTypeOK, CallsInv, MovesOk, LateOk, DroppedOk, idleCall, Call,
       Reassigning

---------------------------------------------------------------------------
(* How the steps change the requests.                                      *)

LEMMA CallTyped ==
  ASSUME TopicsTypeOK, NEW w \in Calls
  PROVE  /\ call[w] \in Call /\ call \in [Calls -> Call] /\ idleCall \in Call
         /\ call[w].src \in Topics \cup {Nil} /\ call[w].dst \in Topics \cup {Nil}
         /\ call[w].ents \in SUBSET Entries /\ call[w].convs \in SUBSET Shelved
BY DEF TopicsTypeOK, Call, idleCall

(* The request w is what it was, but for rows of es and cs that came into  *)
(* topic t while it was at work there.                                     *)
Noted(x, t, es, cs) ==
  /\ call'[x].pc = call[x].pc /\ call'[x].src = call[x].src /\ call'[x].dst = call[x].dst
  /\ call'[x].ents = call[x].ents /\ call'[x].convs = call[x].convs
  /\ call[x].late \subseteq call'[x].late
  /\ call[x].src = t /\ call[x].pc = "drop" => es \subseteq call'[x].late
  /\ call[x].src = t /\ call[x].pc \in {"entries", "drop"} => cs \subseteq call'[x].late

LEMMA ArrivingEffect ==
  ASSUME TopicsTypeOK, NEW w \in Calls, NEW t \in Topics \cup {Nil}, NEW es \in SUBSET Entries,
         NEW cs \in SUBSET Shelved, EndArriving(w, t, es, cs)
  PROVE  /\ call' \in [Calls -> Call] /\ call'[w] = idleCall
         /\ \A x \in Calls : x # w => Noted(x, t, es, cs)
<1>1. \A x \in Calls : Unseen(x, t, es, cs) \subseteq Entries \cup Shelved
  BY DEF Unseen
<1> DEFINE late(x) == call[x].late \cup Unseen(x, t, es, cs)
<1>2. call' = [x \in Calls |-> IF x = w THEN idleCall ELSE [call[x] EXCEPT !.late = late(x)]]
  BY DEF EndArriving
<1>3. \A x \in Calls : late(x) \in SUBSET (Entries \cup Shelved)
  BY <1>1 DEF TopicsTypeOK, Call
<1> HIDE DEF late
<1>4. \A x \in Calls : [call[x] EXCEPT !.late = late(x)] \in Call
  BY <1>3 DEF TopicsTypeOK, Call
<1>5. call' \in [Calls -> Call] /\ call'[w] = idleCall
  BY <1>2, <1>4, CallTyped
<1>6. ASSUME NEW x \in Calls, x # w PROVE Noted(x, t, es, cs)
  <2>1. call'[x] = [call[x] EXCEPT !.late = late(x)]
    BY <1>2, <1>6
  <2>2. /\ call'[x].pc = call[x].pc /\ call'[x].src = call[x].src /\ call'[x].dst = call[x].dst
        /\ call'[x].ents = call[x].ents /\ call'[x].convs = call[x].convs
        /\ call'[x].late = late(x)
    BY <2>1, CallTyped DEF Call
  <2> QED BY <2>2 DEF Noted, late, Unseen, CallAt
<1> QED BY <1>5, <1>6

(* Nothing moves; only request w does.                                     *)
Alone(w) ==
  /\ UNCHANGED topicTables
  /\ call' \in [Calls -> Call] /\ \A x \in Calls : x # w => call'[x] = call[x]

LEMMA AloneStep ==
  ASSUME TopicsInv, NEW w \in Calls, Alone(w), MovesOk(w)', LateOk(w)', DroppedOk(w)',
         \A v \in Calls : v # w /\ call[v].pc = "commit" => BringsNothing(w, call[v].src)'
  PROVE  TopicsInv'
<1>1. TopicsTypeOK'
  BY DEF TopicsInv, TopicsTypeOK, Alone, topicTables
<1>2. ASSUME NEW x \in Calls, x # w PROVE (MovesOk(x) /\ LateOk(x) /\ DroppedOk(x))'
  <2>1. MovesOk(x) /\ LateOk(x) /\ DroppedOk(x) BY DEF TopicsInv, CallsInv
  <2>2. call'[x] = call[x] /\ home' = home /\ shelf' = shelf
    BY <1>2 DEF Alone, topicTables
  <2>3. MovesOk(x)' BY <2>1, <2>2 DEF MovesOk
  <2>4. LateOk(x)' BY <2>1, <2>2 DEF LateOk, EntriesIn, ConvsIn
  <2>5. call[x].pc = "commit" => \A v \in Calls : v # x => BringsNothing(v, call[x].src)'
    <3> SUFFICES ASSUME call[x].pc = "commit", NEW v \in Calls, v # x
                 PROVE BringsNothing(v, call[x].src)'
      OBVIOUS
    <3>1. CASE v = w BY <1>2, <3>1, <2>2
    <3>2. CASE v # w
      <4>1. call'[v] = call[v] BY <3>2 DEF Alone
      <4>2. BringsNothing(v, call[x].src) BY <2>1 DEF DroppedOk
      <4> QED BY <2>2, <4>1, <4>2 DEF BringsNothing
    <3> QED BY <3>1, <3>2
  <2>6. DroppedOk(x)' BY <2>1, <2>2, <2>5 DEF DroppedOk, EntriesIn, ConvsIn
  <2> QED BY <2>3, <2>4, <2>6
<1> QED BY <1>1, <1>2 DEF TopicsInv, CallsInv

(* A request that is at no reassignment has nothing to answer for.         *)
LEMMA OutsideReassigning ==
  ASSUME NEW w, call'[w].pc \in {"idle", "append", "save", "move"}
  PROVE  /\ MovesOk(w)' /\ LateOk(w)' /\ DroppedOk(w)'
         /\ \A v \in Calls : BringsNothing(w, call[v].src)'
BY DEF MovesOk, LateOk, DroppedOk, BringsNothing, Reassigning

LEMMA OutsideStep ==
  ASSUME TopicsInv, NEW w \in Calls,
         \/ \E t \in Topics, pc \in {"append", "save"} : ResolveTopic(w, t, pc)
         \/ \E es \in SUBSET Entries, t \in Topics : BeginMove(w, es, t)
         \/ Refuse(w)
  PROVE  TopicsInv'
<1>1. PICK new \in Call : /\ new.pc \in {"idle", "append", "save", "move"}
                          /\ call' = [call EXCEPT ![w] = new] /\ UNCHANGED topicTables
  <2>1. CASE \E t \in Topics, pc \in {"append", "save"} : ResolveTopic(w, t, pc)
    <3>1. PICK t \in Topics, pc \in {"append", "save"} : ResolveTopic(w, t, pc) BY <2>1
    <3> DEFINE new == [idleCall EXCEPT !.pc = pc, !.dst = t]
    <3>2. new \in Call /\ new.pc = pc BY DEF Call, idleCall
    <3>3. call' = [call EXCEPT ![w] = new] /\ UNCHANGED topicTables BY <3>1 DEF ResolveTopic
    <3> HIDE DEF new
    <3> QED BY <3>1, <3>2, <3>3
  <2>2. CASE \E es \in SUBSET Entries, t \in Topics : BeginMove(w, es, t)
    <3>1. PICK es \in SUBSET Entries, t \in Topics : BeginMove(w, es, t) BY <2>2
    <3> DEFINE new == [idleCall EXCEPT !.pc = "move", !.dst = t, !.ents = es]
    <3>2. new \in Call /\ new.pc = "move" BY DEF Call, idleCall
    <3>3. call' = [call EXCEPT ![w] = new] /\ UNCHANGED topicTables BY <3>1 DEF BeginMove
    <3> HIDE DEF new
    <3> QED BY <3>2, <3>3
  <2>3. CASE Refuse(w)
    <3>1. idleCall \in Call /\ idleCall.pc = "idle" BY DEF Call, idleCall
    <3>2. call' = [call EXCEPT ![w] = idleCall] /\ UNCHANGED topicTables BY <2>3 DEF Refuse
    <3> QED BY <3>1, <3>2
  <2> QED BY <2>1, <2>2, <2>3
<1>2. Alone(w) /\ call'[w] = new
  BY <1>1, CallTyped DEF TopicsInv, Alone
<1> QED BY <1>1, <1>2, OutsideReassigning, AloneStep

(* BeginDelete of an empty topic goes straight to the DELETE: then there   *)
(* is nothing to move and no destination.                                  *)
LEMMA BeginReassignStep ==
  ASSUME TopicsInv, NEW w \in Calls, NEW t \in Topics, NEW d \in Topics \cup {Nil},
         BeginDelete(w, t, d) \/ BeginMerge(w, t, d)
  PROVE  TopicsInv'
<1>1. PICK pc \in {"counted", "drop"}, dst \in Topics \cup {Nil} :
        /\ call' = [call EXCEPT ![w] = [idleCall EXCEPT !.pc = pc, !.src = t, !.dst = dst]]
        /\ UNCHANGED topicTables
        /\ pc = "counted" => dst # Nil /\ dst # t
        /\ pc = "drop" => dst = Nil /\ EntriesIn(t) = {} /\ ConvsIn(t) = {}
  <2>1. CASE BeginMerge(w, t, d)
    BY <2>1, TopicsAssumption DEF BeginMerge, Exists
  <2>2. CASE BeginDelete(w, t, d) /\ EntriesIn(t) \cup ConvsIn(t) = {}
    <3>1. /\ call' = [call EXCEPT ![w] = [idleCall EXCEPT !.pc = "drop", !.src = t, !.dst = Nil]]
          /\ UNCHANGED topicTables
      BY <2>2 DEF BeginDelete
    <3> QED BY <2>2, <3>1
  <2>3. CASE BeginDelete(w, t, d) /\ EntriesIn(t) \cup ConvsIn(t) # {}
    <3>1. /\ call' = [call EXCEPT ![w] = [idleCall EXCEPT !.pc = "counted", !.src = t, !.dst = d]]
          /\ UNCHANGED topicTables /\ d # Nil /\ d # t
      BY <2>3 DEF BeginDelete, Exists
    <3> QED BY <3>1
  <2> QED BY <2>1, <2>2, <2>3
<1> DEFINE new == [idleCall EXCEPT !.pc = pc, !.src = t, !.dst = dst]
<1>2. /\ new \in Call /\ new.pc = pc /\ new.src = t /\ new.dst = dst
      /\ new.ents = {} /\ new.convs = {} /\ t # Nil
  BY TopicsAssumption DEF Call, idleCall, Reassigning
<1>3. call' = [call EXCEPT ![w] = new]
  BY <1>1
<1> HIDE DEF new
<1>4. Alone(w) /\ call'[w] = new /\ home' = home /\ shelf' = shelf
  BY <1>1, <1>2, <1>3, CallTyped DEF TopicsInv, Alone, topicTables
<1>5. MovesOk(w)'
  BY <1>1, <1>2, <1>4 DEF MovesOk
<1>6. LateOk(w)'
  BY <1>1, <1>2, <1>4 DEF LateOk, EntriesIn, ConvsIn
<1>7. DroppedOk(w)'
  BY <1>1, <1>2, <1>4 DEF DroppedOk
<1>8. \A v \in Calls : BringsNothing(w, call[v].src)'
  BY <1>2, <1>4 DEF BringsNothing
<1> QED BY <1>4, <1>5, <1>6, <1>7, <1>8, AloneStep

(* The UPDATEs: every row of the kind is moved, and if there is any, no    *)
(* other reassignment has dropped the destination.                         *)
LEMMA MoveConvsStep ==
  ASSUME TopicsInv, NEW w \in Calls, MoveConvs(w)
  PROVE  TopicsInv'
<1>1. PICK cs \in SUBSET Shelved : cs = ConvsIn(call[w].src)
  BY DEF ConvsIn
<1>2. /\ call[w].pc = "counted" /\ UNCHANGED topicTables /\ home' = home /\ shelf' = shelf
      /\ cs # {} => TopicFree(call[w].dst)
      /\ call' = [call EXCEPT ![w].pc = "entries", ![w].convs = cs]
  BY <1>1 DEF MoveConvs, CallAt, topicTables
<1>3. MovesOk(w) BY DEF TopicsInv, CallsInv
<1>4. /\ call'[w].pc = "entries" /\ call'[w].src = call[w].src /\ call'[w].dst = call[w].dst
      /\ call'[w].convs = cs /\ Alone(w)
  <2>1. call[w] \in Call /\ call \in [Calls -> Call] BY CallTyped DEF TopicsInv
  <2> DEFINE new == [call[w] EXCEPT !.pc = "entries", !.convs = cs]
  <2>2. new \in Call /\ new.pc = "entries" /\ new.src = call[w].src /\ new.dst = call[w].dst
        /\ new.convs = cs
    BY <2>1 DEF Call, Reassigning
  <2>3. call' = [call EXCEPT ![w] = new] BY <1>2, <2>1
  <2> HIDE DEF new
  <2> QED BY <1>2, <2>1, <2>2, <2>3 DEF Alone
<1>5. MovesOk(w)' BY <1>2, <1>3, <1>4 DEF MovesOk, Reassigning
<1>6. LateOk(w)' BY <1>1, <1>2, <1>4 DEF LateOk, ConvsIn
<1>7. DroppedOk(w)' BY <1>4 DEF DroppedOk
<1>8. ASSUME NEW v \in Calls, v # w, call[v].pc = "commit" PROVE BringsNothing(w, call[v].src)'
  <2>1. call'[v] = call[v] BY <1>4, <1>8 DEF Alone
  <2>2. call[v].src = call[w].dst => cs = {} BY <1>2, <1>8 DEF TopicFree, CallAt
  <2> QED BY <1>4, <2>1, <2>2 DEF BringsNothing
<1> QED BY <1>4, <1>5, <1>6, <1>7, <1>8, AloneStep

LEMMA MoveEntriesStep ==
  ASSUME TopicsInv, NEW w \in Calls, MoveEntries(w)
  PROVE  TopicsInv'
<1>1. PICK es \in SUBSET Entries : es = EntriesIn(call[w].src)
  BY DEF EntriesIn
<1>2. /\ call[w].pc = "entries" /\ UNCHANGED topicTables /\ home' = home /\ shelf' = shelf
      /\ es # {} => TopicFree(call[w].dst) /\ call[w].dst # Nil
      /\ call' = [call EXCEPT ![w].pc = "drop", ![w].ents = es]
  BY <1>1 DEF MoveEntries, CallAt, topicTables, Exists
<1>3. MovesOk(w) /\ LateOk(w) BY DEF TopicsInv, CallsInv
<1>4. /\ call'[w].pc = "drop" /\ call'[w].src = call[w].src /\ call'[w].dst = call[w].dst
      /\ call'[w].ents = es /\ call'[w].convs = call[w].convs /\ call'[w].late = call[w].late
      /\ Alone(w)
  <2>1. call[w] \in Call /\ call \in [Calls -> Call] BY CallTyped DEF TopicsInv
  <2> DEFINE new == [call[w] EXCEPT !.pc = "drop", !.ents = es]
  <2>2. new \in Call /\ new.pc = "drop" /\ new.src = call[w].src /\ new.dst = call[w].dst
        /\ new.ents = es /\ new.convs = call[w].convs /\ new.late = call[w].late
    BY <2>1 DEF Call, Reassigning
  <2>3. call' = [call EXCEPT ![w] = new] BY <1>2, <2>1
  <2> HIDE DEF new
  <2> QED BY <1>2, <2>1, <2>2, <2>3 DEF Alone
<1>5. MovesOk(w)' BY <1>2, <1>3, <1>4 DEF MovesOk, Reassigning
<1>6. LateOk(w)' BY <1>1, <1>2, <1>3, <1>4 DEF LateOk, ConvsIn, EntriesIn
<1>7. DroppedOk(w)' BY <1>4 DEF DroppedOk
<1>8. ASSUME NEW v \in Calls, v # w, call[v].pc = "commit" PROVE BringsNothing(w, call[v].src)'
  <2>1. call'[v] = call[v] BY <1>4, <1>8 DEF Alone
  <2>2. call[v].src = call[w].dst => es = {} BY <1>2, <1>8 DEF TopicFree, CallAt
  <2>3. BringsNothing(w, call[v].src) BY <1>8 DEF TopicsInv, CallsInv, DroppedOk
  <2> QED BY <1>2, <1>4, <2>1, <2>2, <2>3 DEF BringsNothing
<1> QED BY <1>4, <1>5, <1>6, <1>7, <1>8, AloneStep

(* The DELETE waits for the transactions that hold the topic's row.        *)
LEMMA DropTopicStep ==
  ASSUME TopicsInv, NEW w \in Calls, DropTopic(w)
  PROVE  TopicsInv'
<1>1. PICK pc \in {"commit", "blocked"} :
        /\ call' = [call EXCEPT ![w].pc = pc]
        /\ pc = "commit" => LeftBehind(w) = {}
        /\ pc = "blocked" => LeftBehind(w) # {}
  BY DEF DropTopic
<1>2. /\ call[w].pc = "drop" /\ UNCHANGED topicTables /\ home' = home /\ shelf' = shelf
      /\ \A x \in Calls \ {w} : ~HeldAsDst(x, call[w].src)
  BY DEF DropTopic, CallAt, topicTables
<1>3. MovesOk(w) /\ LateOk(w) BY DEF TopicsInv, CallsInv
<1>4. /\ call'[w].pc = pc /\ call'[w].src = call[w].src /\ call'[w].dst = call[w].dst
      /\ call'[w].ents = call[w].ents /\ call'[w].convs = call[w].convs
      /\ call'[w].late = call[w].late /\ Alone(w)
  <2>1. call[w] \in Call /\ call \in [Calls -> Call] BY CallTyped DEF TopicsInv
  <2> DEFINE new == [call[w] EXCEPT !.pc = pc]
  <2>2. new \in Call /\ new.pc = pc /\ new.src = call[w].src /\ new.dst = call[w].dst
        /\ new.ents = call[w].ents /\ new.convs = call[w].convs /\ new.late = call[w].late
    BY <2>1 DEF Call, Reassigning
  <2>3. call' = [call EXCEPT ![w] = new] BY <1>1, <2>1
  <2> HIDE DEF new
  <2> QED BY <1>2, <2>1, <2>2, <2>3 DEF Alone
<1>5. MovesOk(w)' BY <1>2, <1>3, <1>4 DEF MovesOk, Reassigning
<1>6. LateOk(w)' BY <1>1, <1>2, <1>3, <1>4 DEF LateOk, LeftBehind
<1>7. DroppedOk(w)'
  <2> SUFFICES ASSUME pc = "commit" PROVE DroppedOk(w)'
    BY <1>4 DEF DroppedOk
  <2>1. EntriesIn(call[w].src) \subseteq call[w].ents /\ ConvsIn(call[w].src) \subseteq call[w].convs
    BY <1>1 DEF LeftBehind
  <2>2. ASSUME NEW v \in Calls, v # w PROVE BringsNothing(v, call[w].src)'
    <3>1. call'[v] = call[v] BY <1>4, <2>2 DEF Alone
    <3>2. ~HeldAsDst(v, call[w].src) BY <1>2, <2>2
    <3> QED BY <1>4, <3>1, <3>2 DEF BringsNothing, HeldAsDst, CallAt
  <2> QED BY <1>2, <1>4, <2>1, <2>2 DEF DroppedOk, EntriesIn, ConvsIn
<1>8. ASSUME NEW v \in Calls, v # w, call[v].pc = "commit" PROVE BringsNothing(w, call[v].src)'
  <2>1. call'[v] = call[v] BY <1>4, <1>8 DEF Alone
  <2>2. BringsNothing(w, call[v].src) BY <1>8 DEF TopicsInv, CallsInv, DroppedOk
  <2> QED BY <1>2, <1>4, <2>1, <2>2 DEF BringsNothing
<1> QED BY <1>4, <1>5, <1>6, <1>7, <1>8, AloneStep

---------------------------------------------------------------------------
(* Rows come into a topic                                                  *)

(* At the end of request w the rows es and cs are in topic t; none of them *)
(* arrives in a topic that has been dropped.                               *)
Arrival(w, t, es, cs) ==
  /\ TopicsTypeOK'
  /\ EndArriving(w, t, es, cs)
  /\ \A e \in Entries : home'[e] # home[e] => home'[e] = t /\ e \in es
  /\ \A c \in Shelved : shelf'[c] # shelf[c] => shelf'[c] = t /\ c \in cs
  /\ \A v \in Calls : v # w /\ call[v].pc = "commit" /\ call[v].src = t =>
       home' = home /\ shelf' = shelf

LEMMA ArrivalStep ==
  ASSUME TopicsInv, NEW w \in Calls, NEW t \in Topics \cup {Nil}, NEW es \in SUBSET Entries,
         NEW cs \in SUBSET Shelved, Arrival(w, t, es, cs)
  PROVE  TopicsInv'
<1>1. /\ call' \in [Calls -> Call] /\ call'[w] = idleCall
      /\ \A x \in Calls : x # w => Noted(x, t, es, cs)
  BY ArrivingEffect DEF TopicsInv, Arrival
<1>2. call'[w].pc = "idle"
  BY <1>1 DEF idleCall
<1>3. MovesOk(w)' /\ LateOk(w)' /\ DroppedOk(w)'
  BY <1>2, OutsideReassigning
<1>4. ASSUME NEW x \in Calls, x # w PROVE (MovesOk(x) /\ LateOk(x) /\ DroppedOk(x))'
  <2>1. MovesOk(x) /\ LateOk(x) /\ DroppedOk(x) BY DEF TopicsInv, CallsInv
  <2>2. Noted(x, t, es, cs) BY <1>1, <1>4
  <2>3. MovesOk(x)' BY <2>1, <2>2 DEF MovesOk, Noted
  <2>4. LateOk(x)'
    <3>1. call[x].pc \in {"entries", "drop"} => (ConvsIn(call[x].src) \ call[x].convs)' \subseteq call'[x].late
      BY <2>1, <2>2 DEF LateOk, ConvsIn, Noted, Arrival
    <3>2. call[x].pc = "drop" => (EntriesIn(call[x].src) \ call[x].ents)' \subseteq call'[x].late
      BY <2>1, <2>2 DEF LateOk, EntriesIn, Noted, Arrival
    <3>3. call[x].pc = "blocked" => call'[x].late # {}
      BY <2>1, <2>2 DEF LateOk, Noted
    <3> QED BY <2>2, <3>1, <3>2, <3>3 DEF LateOk, Noted, ConvsIn, EntriesIn
  <2>5. DroppedOk(x)'
    <3> SUFFICES ASSUME call[x].pc = "commit" PROVE DroppedOk(x)'
      BY <2>2 DEF DroppedOk, Noted
    <3>1. /\ \A e \in Entries : home'[e] = call[x].src => home[e] = call[x].src
          /\ \A c \in Shelved : shelf'[c] = call[x].src => shelf[c] = call[x].src
      BY <1>4 DEF Arrival
    <3>2. \A v \in Calls : v # x => BringsNothing(v, call[x].src)'
      <4> SUFFICES ASSUME NEW v \in Calls, v # x PROVE BringsNothing(v, call[x].src)'
        OBVIOUS
      <4>1. BringsNothing(v, call[x].src) BY <2>1 DEF DroppedOk
      <4>2. CASE v = w BY <1>2, <4>2 DEF BringsNothing
      <4>3. CASE v # w
        <5>1. Noted(v, t, es, cs) BY <1>1, <4>3
        <5> QED BY <2>2, <4>1, <5>1 DEF BringsNothing, Noted
      <4> QED BY <4>2, <4>3
    <3>3. EntriesIn(call[x].src) \subseteq call[x].ents /\ ConvsIn(call[x].src) \subseteq call[x].convs
      BY <2>1 DEF DroppedOk
    <3> QED BY <2>2, <3>1, <3>2, <3>3 DEF DroppedOk, Noted, EntriesIn, ConvsIn
  <2> QED BY <2>3, <2>4, <2>5
<1> QED BY <1>3, <1>4 DEF TopicsInv, CallsInv, Arrival

LEMMA ArrivingTyped ==
  ASSUME TopicsInv, NEW w \in Calls, NEW t \in Topics, NEW es \in SUBSET Entries,
         NEW cs \in SUBSET Shelved, EndArriving(w, t, es, cs)
  PROVE  call' \in [Calls -> Call]
BY ArrivingEffect DEF TopicsInv

(* A free topic is not one that a reassignment has dropped.                *)
LEMMA FreeTopic ==
  ASSUME NEW t, TopicFree(t)
  PROVE  \A v \in Calls : ~(call[v].pc = "commit" /\ call[v].src = t)
BY DEF TopicFree, CallAt

LEMMA InsertEntryStep ==
  ASSUME TopicsInv, NEW w \in Calls, NEW e \in Entries, InsertEntry(w, e)
  PROVE  TopicsInv'
<1>1. PICK t \in Topics : t = call[w].dst
  BY CallTyped DEF InsertEntry, Exists, TopicsInv
<1>2. /\ TopicFree(t) /\ home' = [home EXCEPT ![e] = t] /\ EndArriving(w, t, {e}, {})
      /\ path' = path /\ minted' = minted /\ hidden' = hidden /\ shelf' = shelf
  BY <1>1 DEF InsertEntry
<1>3. TopicsTypeOK'
  <2>1. call' \in [Calls -> Call] BY <1>2, {} \in SUBSET Shelved, {} \in SUBSET Entries, ArrivingTyped
  <2> QED BY <1>2, <2>1 DEF TopicsInv, TopicsTypeOK
<1>4. Arrival(w, t, {e}, {})
  BY <1>2, <1>3, FreeTopic DEF Arrival, TopicsInv, TopicsTypeOK
<1> QED BY <1>4, ArrivalStep

LEMMA InsertConvStep ==
  ASSUME TopicsInv, NEW w \in Calls, NEW c \in Shelved, InsertConv(w, c)
  PROVE  TopicsInv'
<1>1. PICK t \in Topics : t = call[w].dst
  BY CallTyped DEF InsertConv, Exists, TopicsInv
<1>2. /\ TopicFree(t) /\ shelf' = [shelf EXCEPT ![c] = t] /\ EndArriving(w, t, {}, {c})
      /\ path' = path /\ minted' = minted /\ hidden' = hidden /\ home' = home
  BY <1>1 DEF InsertConv
<1>3. TopicsTypeOK'
  <2>1. call' \in [Calls -> Call] BY <1>2, {} \in SUBSET Shelved, {} \in SUBSET Entries, ArrivingTyped
  <2> QED BY <1>2, <2>1 DEF TopicsInv, TopicsTypeOK
<1>4. Arrival(w, t, {}, {c})
  BY <1>2, <1>3, FreeTopic DEF Arrival, TopicsInv, TopicsTypeOK
<1> QED BY <1>4, ArrivalStep

LEMMA MoveRowsStep ==
  ASSUME TopicsInv, NEW w \in Calls, MoveRows(w)
  PROVE  TopicsInv'
<1>1. PICK t \in Topics : t = call[w].dst
  BY CallTyped DEF MoveRows, Exists, TopicsInv
<1>2. PICK es \in SUBSET Entries : es = {e \in call[w].ents : home[e] # t}
  BY CallTyped DEF TopicsInv
<1>3. /\ TopicFree(t) /\ home' = [e \in Entries |-> IF e \in call[w].ents THEN t ELSE home[e]]
      /\ EndArriving(w, t, es, {})
      /\ path' = path /\ minted' = minted /\ hidden' = hidden /\ shelf' = shelf
  BY <1>1, <1>2 DEF MoveRows
<1>4. TopicsTypeOK'
  <2>1. call' \in [Calls -> Call] BY <1>3, {} \in SUBSET Shelved, ArrivingTyped
  <2> QED BY <1>3, <2>1 DEF TopicsInv, TopicsTypeOK
<1>5. \A e \in Entries : home'[e] # home[e] => home'[e] = t /\ e \in es
  BY <1>2, <1>3
<1>6. Arrival(w, t, es, {})
  BY <1>3, <1>4, <1>5, FreeTopic DEF Arrival
<1> QED BY <1>6, ArrivalStep

(* A reassignment into a topic dropped meanwhile has nothing to bring.     *)
LEMMA CommitReassignStep ==
  ASSUME TopicsInv, NEW w \in Calls, CommitReassign(w)
  PROVE  TopicsInv'
<1>1. PICK d \in Topics \cup {Nil}, es \in SUBSET Entries, cs \in SUBSET Shelved :
        d = call[w].dst /\ es = call[w].ents /\ cs = call[w].convs
  BY CallTyped DEF TopicsInv
<1>2. /\ call[w].pc = "commit"
      /\ path' = [path EXCEPT ![call[w].src] = Nil]
      /\ home' = [e \in Entries |-> IF e \in es THEN d ELSE home[e]]
      /\ shelf' = [c \in Shelved |-> IF c \in cs THEN d ELSE shelf[c]]
      /\ EndArriving(w, d, es, cs) /\ minted' = minted /\ hidden' = hidden
  BY <1>1 DEF CommitReassign, CallAt
<1>3. TopicsTypeOK'
  <2>1. path' \in [Topics -> Paths \cup {Nil}] BY <1>2 DEF TopicsInv, TopicsTypeOK
  <2>2. home' \in [Entries -> Topics \cup {Nil}] /\ shelf' \in [Shelved -> Topics \cup {Nil}]
    BY <1>2 DEF TopicsInv, TopicsTypeOK
  <2>3. call' \in [Calls -> Call] BY <1>2, ArrivingEffect DEF TopicsInv
  <2> QED BY <1>2, <2>1, <2>2, <2>3 DEF TopicsInv, TopicsTypeOK
<1>4. ASSUME NEW v \in Calls, v # w, call[v].pc = "commit", call[v].src = d
      PROVE  home' = home /\ shelf' = shelf
  <2>1. BringsNothing(w, d) BY <1>4 DEF TopicsInv, CallsInv, DroppedOk
  <2>2. es = {} /\ cs = {} BY <1>1, <1>2, <2>1 DEF BringsNothing
  <2>3. home \in [Entries -> Topics \cup {Nil}] /\ shelf \in [Shelved -> Topics \cup {Nil}]
    BY DEF TopicsInv, TopicsTypeOK
  <2> QED BY <1>2, <2>2, <2>3
<1>5. /\ \A e \in Entries : home'[e] # home[e] => home'[e] = d /\ e \in es
      /\ \A c \in Shelved : shelf'[c] # shelf[c] => shelf'[c] = d /\ c \in cs
  BY <1>2
<1>6. Arrival(w, d, es, cs)
  BY <1>2, <1>3, <1>4, <1>5 DEF Arrival
<1> QED BY <1>6, ArrivalStep

---------------------------------------------------------------------------
LEMMA TopicRowsStep ==
  ASSUME TopicsInv, \/ \E t \in Topics, p \in Paths : Create(t, p) \/ Rename(t, p)
                    \/ \E e \in Entries : SoftDelete(e)
                    \/ UNCHANGED topicsVars
  PROVE  TopicsInv'
<1>1. home' = home /\ shelf' = shelf /\ call' = call
  BY DEF Create, Rename, SoftDelete, topicsVars
<1>2. TopicsTypeOK'
  BY DEF TopicsInv, TopicsTypeOK, Create, Rename, SoftDelete, topicsVars
<1>3. CallsInv'
  BY <1>1 DEF TopicsInv, CallsInv, MovesOk, LateOk, DroppedOk, BringsNothing, EntriesIn, ConvsIn
<1> QED BY <1>2, <1>3 DEF TopicsInv

LEMMA TopicsInvStep == TopicsInv /\ [TopicsNext]_topicsVars => TopicsInv'
<1> SUFFICES ASSUME TopicsInv, [TopicsNext]_topicsVars PROVE TopicsInv'
  OBVIOUS
<1>1. ASSUME NEW w \in Calls, TopicsStep(w) PROVE TopicsInv'
  BY <1>1, OutsideStep, InsertEntryStep, InsertConvStep, MoveRowsStep, BeginReassignStep,
     MoveConvsStep, MoveEntriesStep, DropTopicStep, CommitReassignStep
     DEF TopicsStep
<1> QED BY <1>1, TopicRowsStep DEF TopicsNext

(* A topic's row goes with a CommitReassign of that topic alone.           *)
LEMMA DropStep ==
  ASSUME TopicsInv, TopicsNext, NEW t \in Topics, Exists(t), path'[t] = Nil
  PROVE  \E w \in Calls : /\ call[w].src = t
                          /\ \A e \in EntriesIn(t) : home'[e] = call[w].dst /\ home'[e] # Nil
                          /\ \A c \in ConvsIn(t) : shelf'[c] = call[w].dst /\ shelf'[c] # Nil
<1>1. PICK w \in Calls : CommitReassign(w)
  <2>1. path' # path BY DEF Exists
  <2>2. ASSUME NEW u \in Topics, NEW p \in Paths, Create(u, p) \/ Rename(u, p) PROVE FALSE
    BY <2>2, TopicsAssumption DEF Create, Rename, Exists, TopicsInv, TopicsTypeOK
  <2>3. ASSUME NEW e \in Entries, SoftDelete(e) PROVE FALSE
    BY <2>1, <2>3 DEF SoftDelete
  <2>4. ASSUME NEW w \in Calls, TopicsStep(w), ~CommitReassign(w) PROVE FALSE
    BY <2>1, <2>4
       DEF TopicsStep, ResolveTopic, InsertEntry, InsertConv, BeginMove, MoveRows, Refuse,
           BeginDelete, BeginMerge, MoveConvs, MoveEntries, DropTopic, topicTables
  <2> QED BY <2>2, <2>3, <2>4 DEF TopicsNext
<1>2. call[w].pc = "commit" /\ call[w].src = t
  BY <1>1 DEF CommitReassign, CallAt, Exists, TopicsInv, TopicsTypeOK
<1>3. DroppedOk(w) /\ MovesOk(w)
  BY DEF TopicsInv, CallsInv
<1>4. ASSUME NEW e \in EntriesIn(t) PROVE home'[e] = call[w].dst /\ home'[e] # Nil
  <2>1. e \in Entries /\ e \in call[w].ents BY <1>2, <1>3 DEF DroppedOk, EntriesIn
  <2>2. home'[e] = call[w].dst BY <1>1, <2>1 DEF CommitReassign
  <2> QED BY <1>2, <1>3, <2>1, <2>2 DEF MovesOk, Reassigning
<1>5. ASSUME NEW c \in ConvsIn(t) PROVE shelf'[c] = call[w].dst /\ shelf'[c] # Nil
  <2>1. c \in Shelved /\ c \in call[w].convs BY <1>2, <1>3 DEF DroppedOk, ConvsIn
  <2>2. shelf'[c] = call[w].dst BY <1>1, <2>1 DEF CommitReassign
  <2> QED BY <1>2, <1>3, <2>1, <2>2 DEF MovesOk, Reassigning
<1> QED BY <1>2, <1>4, <1>5

---------------------------------------------------------------------------
(* TopicsInv holds in every reachable state.                               *)
THEOREM TopicsInvariant == TopicsSpec => []TopicsInv
BY TopicsInitInv, TopicsInvStep, PTL DEF TopicsSpec

(* A deletion or merge fails on the foreign key only when rows came into   *)
(* its topic late (storage/repositories/topics.py, delete_with_reassign).  *)
THEOREM OnlyLateRowsBlock == TopicsSpec => []BlockedByLateRows
<1>1. TopicsInv => BlockedByLateRows
  BY DEF TopicsInv, CallsInv, LateOk, BlockedByLateRows, CallAt
<1> QED BY <1>1, TopicsInvariant, PTL

(* A topic goes away only with every entry and conversation it had at that *)
(* moment carried into the destination.                                    *)
THEOREM RowsCarried == TopicsSpec => DropCarriesRows
<1> DEFINE Carried == \A t \in Topics : Exists(t) /\ path'[t] = Nil =>
       \E w \in Calls : /\ call[w].src = t
                        /\ \A e \in EntriesIn(t) : home'[e] = call[w].dst /\ home'[e] # Nil
                        /\ \A c \in ConvsIn(t) : shelf'[c] = call[w].dst /\ shelf'[c] # Nil
<1>1. TopicsInv /\ [TopicsNext]_topicsVars => [Carried]_topicsVars
  BY DropStep
<1>2. TopicsSpec => [][Carried]_topicsVars
  BY <1>1, TopicsInvariant, PTL DEF TopicsSpec
<1> QED BY <1>2 DEF DropCarriesRows

---------------------------------------------------------------------------
(* Row locks, for any number of transactions, rows and rows of a statement. *)

(* The transaction x has locked the first n rows of the program p.         *)
Reached(x, p, n) ==
  /\ locks[x] = {p[i] : i \in 1 .. n}
  /\ Len(prog[x]) = Len(p) - n
  /\ \A i \in 1 .. Len(prog[x]) : prog[x][i] = p[n + i]

\* What statements on the rows with ids in S of one table ask for.
RowsOf(tab, mode, S) == {RowLock(tab, mode, i) : i \in S}

UnderWay(x) ==
  /\ kind[x] = Idle => prog[x] = << >> /\ locks[x] = {}
  /\ kind[x] = "claim" => prog[x] = << >> /\ locks[x] \subseteq RowsOf("entry", "ex", LockEntries)
  /\ kind[x] \notin {Idle, "claim"} =>
       \E p \in Programs[kind[x]] : \E n \in 0 .. Len(p) : Reached(x, p, n)

(* What two transactions hold of one row is compatible.                    *)
HeldCompatibly ==
  \A x, y \in Txns : x # y =>
    \A h \in locks[x], g \in locks[y] : h.row = g.row => Compatible(h.mode, g.mode)

LocksInv ==
  /\ LocksTypeOK
  /\ prog \in [Txns -> Seq(LockRequests)] /\ locks \in [Txns -> SUBSET LockRequests]
  /\ \A x \in Txns : UnderWay(x)
  /\ HeldCompatibly

---------------------------------------------------------------------------
LEMMA KindNames ==
  /\ Programs["append"] = {AppendProg(t) : t \in LockTopics}
  /\ Programs["update"] = {UpdateProg(e, t) : e \in LockEntries, t \in LockTopics}
  /\ Programs["delete"] = UNION {DeleteProgs(e, t) : e \in LockEntries, t \in LockTopics}
  /\ Programs["move"] = {MoveProg(s, t) : s \in Orders(LockEntries), t \in LockTopics}
  /\ Programs["patch"] = {PatchProg(e, t, u) : e \in LockEntries, t \in LockTopics, u \in LockTopics}
  /\ Programs["reembed"] = {ReembedProg(e) : e \in LockEntries}
  /\ Programs["save"] =
       UNION {{SaveProg(c, ms, e, t) : ms \in Orders(Thread[c]), e \in LockEntries, t \in LockTopics} :
                c \in LockConvs}
  /\ Programs["first"] = {FirstSaveProg(t) : t \in LockTopics}
  /\ Programs["persist"] = {PersistProg(c, t) : c \in LockConvs, t \in LockTopics}
  /\ Programs["rename"] = {RenameProg(t) : t \in LockTopics}
  /\ Programs["merge"] =
       {MergeProg(cs, s, tu[1], tu[2]) :
          cs \in Orders(LockConvs), s \in Orders(LockEntries),
          tu \in {p \in LockTopics \X LockTopics : p[1] # p[2]}}
  /\ Programs["reset"] = {ResetProg(s) : s \in Orders(LockEntries)}
  /\ Programs["rotate"] = RotateProgs("entry", LockEntries) \cup RotateProgs("message", Messages)
                            \cup RotateProgs("conv", LockConvs)
  /\ Programs["claim"] = {<< >>}
  /\ Programs["single"] = SingleProgs
BY DEF Programs

LEMMA RequestForms ==
  \A mode \in {"ks", "nk", "ex"} :
    /\ \A e \in LockEntries :
         RowLock("entry", mode, e) \in LockRequests /\ RowLock("emb", mode, e) \in LockRequests
    /\ \A t \in LockTopics : RowLock("topic", mode, t) \in LockRequests
    /\ \A c \in LockConvs : RowLock("conv", mode, c) \in LockRequests
    /\ \A m \in Messages : RowLock("message", mode, m) \in LockRequests
BY DEF LockRequests, LockRows, RowLock

LEMMA RequestsTyped ==
  /\ \A e \in LockEntries :
       /\ NK("entry", e) \in LockRequests /\ EX("entry", e) \in LockRequests /\ KS("entry", e) \in LockRequests
       /\ EX("emb", e) \in LockRequests /\ NK("emb", e) \in LockRequests
  /\ \A t \in LockTopics :
       KS("topic", t) \in LockRequests /\ NK("topic", t) \in LockRequests /\ EX("topic", t) \in LockRequests
  /\ \A c \in LockConvs : NK("conv", c) \in LockRequests /\ KS("conv", c) \in LockRequests
BY RequestForms DEF NK, EX, KS

LEMMA RowsTyped ==
  /\ RowsOf("entry", "nk", LockEntries) \subseteq LockRequests
  /\ RowsOf("entry", "ex", LockEntries) \subseteq LockRequests
  /\ RowsOf("conv", "ex", LockConvs) \subseteq LockRequests
  /\ RowsOf("conv", "nk", LockConvs) \subseteq LockRequests
  /\ RowsOf("message", "nk", Messages) \subseteq LockRequests
  /\ \A c \in LockConvs : RowsOf("message", "ex", Thread[c]) \subseteq LockRequests
<1>1. \A c \in LockConvs : Thread[c] \subseteq Messages
  BY DEF Messages
<1> QED BY <1>1, RequestForms DEF RowsOf

LEMMA OrdersTyped ==
  ASSUME NEW S
  PROVE  Orders(S) \subseteq Seq(S) /\ Ascending(S) \subseteq Seq(S)
<1>1. ASSUME NEW s \in Orders(S) PROVE s \in Seq(S)
  <2>1. PICK n \in 0 .. Span : s \in [1 .. n -> S]
    BY DEF Orders
  <2>2. n \in Nat
    BY LocksAssumption
  <2> QED BY <2>1, <2>2, SeqDef
<1> QED BY <1>1 DEF Ascending

---------------------------------------------------------------------------
(* Where a transaction that follows the program p may wait: for r, with    *)
(* the requests H before it granted.                                       *)
At(p, r, H) == \E n \in 0 .. (Len(p) - 1) : r = p[n + 1] /\ H = {p[i] : i \in 1 .. n}
Taken(p) == {p[i] : i \in 1 .. Len(p)}

LEMMA AtNone == ASSUME NEW r, NEW H PROVE ~At(<< >>, r, H)
BY DEF At

LEMMA FirstRequests ==
  ASSUME NEW p
  PROVE  /\ {p[i] : i \in 1 .. 0} = {} /\ {p[i] : i \in 1 .. 1} = {p[1]}
         /\ {p[i] : i \in 1 .. 2} = {p[1], p[2]} /\ {p[i] : i \in 1 .. 3} = {p[1], p[2], p[3]}
<1>1. 1 .. 0 = {} /\ 1 .. 1 = {1} /\ 1 .. 2 = {1, 2} /\ 1 .. 3 = {1, 2, 3}
  OBVIOUS
<1> QED BY <1>1

LEMMA AtOne ==
  ASSUME NEW a, NEW r, NEW H, At(<<a>>, r, H)
  PROVE  r = a /\ H = {}
<1> DEFINE p == <<a>>
<1>1. Len(p) = 1 /\ p[1] = a
  OBVIOUS
<1>2. At(p, r, H)
  OBVIOUS
<1> HIDE DEF p
<1>3. PICK n \in 0 .. (Len(p) - 1) : r = p[n + 1] /\ H = {p[i] : i \in 1 .. n}
  BY <1>2 DEF At
<1>4. n = 0
  BY <1>1
<1> QED BY <1>1, <1>3, <1>4, FirstRequests

LEMMA AtTwo ==
  ASSUME NEW a, NEW b, NEW r, NEW H, At(<<a, b>>, r, H)
  PROVE  (r = a /\ H = {}) \/ (r = b /\ H = {a})
<1> DEFINE p == <<a, b>>
<1>1. Len(p) = 2 /\ p[1] = a /\ p[2] = b
  OBVIOUS
<1>2. At(p, r, H)
  OBVIOUS
<1> HIDE DEF p
<1>3. PICK n \in 0 .. (Len(p) - 1) : r = p[n + 1] /\ H = {p[i] : i \in 1 .. n}
  BY <1>2 DEF At
<1>4. n = 0 \/ n = 1
  BY <1>1
<1> QED BY <1>1, <1>3, <1>4, FirstRequests

LEMMA AtThree ==
  ASSUME NEW a, NEW b, NEW c, NEW r, NEW H, At(<<a, b, c>>, r, H)
  PROVE  (r = a /\ H = {}) \/ (r = b /\ H = {a}) \/ (r = c /\ H = {a, b})
<1> DEFINE p == <<a, b, c>>
<1>1. Len(p) = 3 /\ p[1] = a /\ p[2] = b /\ p[3] = c
  OBVIOUS
<1>2. At(p, r, H)
  OBVIOUS
<1> HIDE DEF p
<1>3. PICK n \in 0 .. (Len(p) - 1) : r = p[n + 1] /\ H = {p[i] : i \in 1 .. n}
  BY <1>2 DEF At
<1>4. n = 0 \/ n = 1 \/ n = 2
  BY <1>1
<1> QED BY <1>1, <1>3, <1>4, FirstRequests

LEMMA TakenAll ==
  ASSUME NEW a, NEW b, NEW c
  PROVE  Taken(<<a>>) = {a} /\ Taken(<<a, b, c>>) = {a, b, c}
<1>1. Len(<<a>>) = 1 /\ <<a>>[1] = a
  OBVIOUS
<1>2. Taken(<<a>>) = {a}
  BY <1>1, FirstRequests DEF Taken
<1> DEFINE p == <<a, b, c>>
<1>3. Len(p) = 3 /\ p[1] = a /\ p[2] = b /\ p[3] = c
  OBVIOUS
<1> HIDE DEF p
<1>4. Taken(p) = {a, b, c}
  BY <1>3, FirstRequests DEF Taken
<1> QED BY <1>2, <1>4 DEF p

(* Of a program in two parts, it waits in the first, or has the first and  *)
(* waits in the second.                                                    *)
LEMMA AtJoin ==
  ASSUME NEW v \in Seq(LockRequests), NEW w \in Seq(LockRequests)
  PROVE  /\ v \o w \in Seq(LockRequests)
         /\ Taken(v \o w) = Taken(v) \cup Taken(w)
         /\ \A r, H : At(v \o w, r, H) => At(v, r, H) \/ \E G : At(w, r, G) /\ H = Taken(v) \cup G
<1> DEFINE p == v \o w
           m == Len(v)
           k == Len(w)
<1>1. /\ p \in Seq(LockRequests) /\ Len(p) = m + k
      /\ \A i \in 1 .. m + k : p[i] = IF i <= m THEN v[i] ELSE w[i - m]
  BY ConcatProperties
<1>2. m \in Nat /\ k \in Nat
  BY LenProperties
<1>3. \A i \in 1 .. m : p[i] = v[i]
  BY <1>1, <1>2
<1>4. ASSUME NEW i \in 1 .. k PROVE p[m + i] = w[i]
  <2>1. m + i \in 1 .. m + k /\ ~(m + i <= m) /\ (m + i) - m = i
    BY <1>2
  <2> QED BY <1>1, <2>1
<1>5. Taken(v) = {v[i] : i \in 1 .. m} /\ Taken(w) = {w[i] : i \in 1 .. k}
      /\ Taken(p) = {p[i] : i \in 1 .. m + k}
  BY <1>1 DEF Taken
<1>6. \A r, H : At(v, r, H) <=> \E n \in 0 .. (m - 1) : r = v[n + 1] /\ H = {v[i] : i \in 1 .. n}
  BY DEF At
<1>7. \A r, H : At(w, r, H) <=> \E n \in 0 .. (k - 1) : r = w[n + 1] /\ H = {w[i] : i \in 1 .. n}
  BY DEF At
<1> HIDE DEF p, m, k
<1>8. ASSUME NEW r, NEW H, At(p, r, H)
      PROVE  \E n \in 0 .. (m + k - 1) : r = p[n + 1] /\ H = {p[i] : i \in 1 .. n}
  <2>1. Len(p) - 1 = m + k - 1
    BY <1>1, <1>2
  <2>2. PICK n \in 0 .. (Len(p) - 1) : r = p[n + 1] /\ H = {p[i] : i \in 1 .. n}
    BY <1>8 DEF At
  <2> QED BY <2>1, <2>2
<1>9. ASSUME NEW n \in 0 .. k PROVE {p[i] : i \in 1 .. m + n} = Taken(v) \cup {w[i] : i \in 1 .. n}
  <2>1. ASSUME NEW i \in 1 .. m + n
        PROVE  p[i] \in Taken(v) \cup {w[j] : j \in 1 .. n}
    <3>1. CASE i <= m
      BY <1>2, <1>3, <1>5, <3>1
    <3>2. CASE ~(i <= m)
      <4>1. i - m \in 1 .. n /\ i - m \in 1 .. k /\ m + (i - m) = i
        BY <1>2, <3>2
      <4> QED BY <1>4, <4>1
    <3> QED BY <3>1, <3>2
  <2>2. ASSUME NEW i \in 1 .. m PROVE v[i] \in {p[j] : j \in 1 .. m + n}
    <3>1. i \in 1 .. m + n
      BY <1>2
    <3> QED BY <1>3, <3>1
  <2>3. ASSUME NEW i \in 1 .. n PROVE w[i] \in {p[j] : j \in 1 .. m + n}
    <3>1. m + i \in 1 .. m + n /\ i \in 1 .. k
      BY <1>2
    <3> QED BY <1>4, <3>1
  <2> QED BY <1>5, <2>1, <2>2, <2>3
<1>10. Taken(p) = Taken(v) \cup Taken(w)
  <2>1. k \in 0 .. k
    BY <1>2
  <2> QED BY <1>5, <1>9, <2>1
<1>11. ASSUME NEW r, NEW H, At(p, r, H)
       PROVE  At(v, r, H) \/ \E G : At(w, r, G) /\ H = Taken(v) \cup G
  <2>1. PICK n \in 0 .. (m + k - 1) : r = p[n + 1] /\ H = {p[i] : i \in 1 .. n}
    BY <1>8, <1>11
  <2>2. CASE n < m
    <3>1. n \in 0 .. (m - 1) /\ n + 1 \in 1 .. m /\ \A i \in 1 .. n : i \in 1 .. m
      BY <1>2, <2>2
    <3>2. r = v[n + 1] /\ H = {v[i] : i \in 1 .. n}
      BY <1>3, <2>1, <3>1
    <3> QED BY <1>6, <3>1, <3>2
  <2>3. CASE ~(n < m)
    <3> DEFINE l == n - m
    <3>1. l \in 0 .. (k - 1) /\ l \in 0 .. k /\ l + 1 \in 1 .. k /\ m + l = n /\ m + (l + 1) = n + 1
      BY <1>2, <2>3
    <3> HIDE DEF l
    <3>2. r = w[l + 1]
      BY <1>4, <2>1, <3>1
    <3>3. H = Taken(v) \cup {w[i] : i \in 1 .. l}
      BY <1>9, <2>1, <3>1
    <3>4. At(w, r, {w[i] : i \in 1 .. l})
      BY <1>7, <3>1, <3>2
    <3> QED BY <3>3, <3>4
  <2> QED BY <2>2, <2>3, <1>2
<1> QED BY <1>1, <1>10, <1>11 DEF p

(* A statement over several rows, in some order.                           *)
LEMMA AtEach ==
  ASSUME NEW tab, NEW mode, NEW S, NEW ids \in Seq(S), RowsOf(tab, mode, S) \subseteq LockRequests
  PROVE  /\ Each(tab, mode, ids) \in Seq(LockRequests)
         /\ Taken(Each(tab, mode, ids)) \subseteq RowsOf(tab, mode, S)
         /\ \A r, H : At(Each(tab, mode, ids), r, H) =>
              r \in RowsOf(tab, mode, S) /\ H \subseteq RowsOf(tab, mode, S)
<1> DEFINE p == Each(tab, mode, ids)
<1>1. Len(ids) \in Nat /\ DOMAIN ids = 1 .. Len(ids) /\ \A i \in 1 .. Len(ids) : ids[i] \in S
  BY LenProperties
<1>2. p = [i \in 1 .. Len(ids) |-> RowLock(tab, mode, ids[i])]
  BY <1>1 DEF Each
<1>3. \A i \in 1 .. Len(ids) : RowLock(tab, mode, ids[i]) \in RowsOf(tab, mode, S)
  BY <1>1 DEF RowsOf
<1>4. p \in Seq(LockRequests) /\ Len(p) = Len(ids) /\ \A i \in 1 .. Len(ids) : p[i] \in RowsOf(tab, mode, S)
  BY <1>1, <1>2, <1>3
<1> HIDE DEF p
<1>5. Taken(p) \subseteq RowsOf(tab, mode, S)
  BY <1>4 DEF Taken
<1>6. ASSUME NEW r, NEW H, At(p, r, H) PROVE r \in RowsOf(tab, mode, S) /\ H \subseteq RowsOf(tab, mode, S)
  <2>1. PICK n \in 0 .. (Len(ids) - 1) : r = p[n + 1] /\ H = {p[i] : i \in 1 .. n}
    BY <1>4, <1>6 DEF At
  <2>2. n + 1 \in 1 .. Len(ids) /\ \A i \in 1 .. n : i \in 1 .. Len(ids)
    BY <1>1
  <2> QED BY <1>4, <2>1, <2>2
<1> QED BY <1>4, <1>5, <1>6 DEF p

(* A loop over rows by id has only rows before the one it waits for.       *)
NextById(tab, S, r, H) ==
  \E i \in S : r = NK(tab, i) /\ \A h \in H : \E j \in S : h = NK(tab, j) /\ j < i
LEMMA AtAscending ==
  ASSUME NEW tab, NEW S, NEW ids \in Ascending(S), NEW r, NEW H, At(Each(tab, "nk", ids), r, H)
  PROVE  NextById(tab, S, r, H)
<1> DEFINE p == Each(tab, "nk", ids)
<1>1. ids \in Seq(S)
  BY OrdersTyped
<1>2. Len(ids) \in Nat /\ DOMAIN ids = 1 .. Len(ids) /\ \A i \in 1 .. Len(ids) : ids[i] \in S
  BY <1>1, LenProperties
<1>3. p = [i \in 1 .. Len(ids) |-> NK(tab, ids[i])]
  BY <1>2 DEF Each, NK
<1>4. Len(p) = Len(ids) /\ \A i \in 1 .. Len(ids) : p[i] = NK(tab, ids[i])
  BY <1>2, <1>3
<1>5. At(p, r, H)
  OBVIOUS
<1> HIDE DEF p
<1>6. PICK n \in 0 .. (Len(ids) - 1) : r = p[n + 1] /\ H = {p[i] : i \in 1 .. n}
  BY <1>4, <1>5 DEF At
<1>7. n + 1 \in 1 .. Len(ids) /\ \A i \in 1 .. n : i \in 1 .. Len(ids) /\ i < n + 1
  BY <1>2
<1>8. \A i, j \in 1 .. Len(ids) : i < j => ids[i] < ids[j]
  BY <1>2 DEF Ascending
<1>9. \A h \in H : \E j \in S : h = NK(tab, j) /\ j < ids[n + 1]
  <2> SUFFICES ASSUME NEW i \in 1 .. n
               PROVE  p[i] = NK(tab, ids[i]) /\ ids[i] \in S /\ ids[i] < ids[n + 1]
    BY <1>6
  <2> QED BY <1>2, <1>4, <1>7, <1>8
<1> QED BY <1>2, <1>4, <1>6, <1>7, <1>9 DEF NextById

(* Rows given to a topic: the topic's row is taken last.                   *)
LEMMA AtGiven ==
  ASSUME NEW tab, NEW mode, NEW S, NEW ids \in Seq(S), RowsOf(tab, mode, S) \subseteq LockRequests,
         NEW t \in LockTopics
  PROVE  /\ Given(tab, mode, ids, t) \in Seq(LockRequests)
         /\ Taken(Given(tab, mode, ids, t)) \subseteq RowsOf(tab, mode, S) \cup {KS("topic", t)}
         /\ \A r, H : At(Given(tab, mode, ids, t), r, H) =>
              r \in RowsOf(tab, mode, S) \cup {KS("topic", t)} /\ H \subseteq RowsOf(tab, mode, S)
<1> DEFINE each == Each(tab, mode, ids)
           check == <<KS("topic", t)>>
           p == Given(tab, mode, ids, t)
<1>1. CASE ids = << >>
  <2>1. p = << >>
    BY <1>1 DEF Given
  <2>2. Taken(<< >>) = {}
    BY DEF Taken
  <2> QED BY <2>1, <2>2, AtNone
<1>2. CASE ids # << >>
  <2>1. p = each \o check
    BY <1>2 DEF Given
  <2>2. each \in Seq(LockRequests) /\ Taken(each) \subseteq RowsOf(tab, mode, S)
        /\ \A r, H : At(each, r, H) => r \in RowsOf(tab, mode, S) /\ H \subseteq RowsOf(tab, mode, S)
    BY AtEach
  <2>3. /\ check \in Seq(LockRequests) /\ Taken(check) = {KS("topic", t)}
        /\ \A r, H : At(check, r, H) => r = KS("topic", t) /\ H = {}
    <3>1. KS("topic", t) \in LockRequests
      BY RequestsTyped
    <3>2. check \in Seq(LockRequests)
      BY <3>1
    <3>3. Taken(check) = {KS("topic", t)}
      BY TakenAll
    <3>4. \A r, H : At(check, r, H) => r = KS("topic", t) /\ H = {}
      BY AtOne
    <3> QED BY <3>2, <3>3, <3>4
  <2> HIDE DEF each, check, p
  <2>4. /\ p \in Seq(LockRequests) /\ Taken(p) = Taken(each) \cup Taken(check)
        /\ \A r, H : At(p, r, H) => At(each, r, H) \/ \E G : At(check, r, G) /\ H = Taken(each) \cup G
    <3>1. /\ each \o check \in Seq(LockRequests) /\ Taken(each \o check) = Taken(each) \cup Taken(check)
          /\ \A r, H : At(each \o check, r, H) =>
               At(each, r, H) \/ \E G : At(check, r, G) /\ H = Taken(each) \cup G
      BY <2>2, <2>3, AtJoin
    <3> QED BY <2>1, <3>1
  <2>5. ASSUME NEW r, NEW H, At(p, r, H)
        PROVE  r \in RowsOf(tab, mode, S) \cup {KS("topic", t)} /\ H \subseteq RowsOf(tab, mode, S)
    <3>1. CASE At(each, r, H)
      BY <2>2, <3>1
    <3>2. ASSUME NEW G, At(check, r, G), H = Taken(each) \cup G
          PROVE  r = KS("topic", t) /\ H \subseteq RowsOf(tab, mode, S)
      BY <2>2, <2>3, <3>2
    <3> QED BY <2>4, <2>5, <3>1, <3>2
  <2>6. Taken(p) \subseteq RowsOf(tab, mode, S) \cup {KS("topic", t)}
    BY <2>2, <2>3, <2>4
  <2> QED BY <2>4, <2>5, <2>6 DEF p
<1> QED BY <1>1, <1>2

---------------------------------------------------------------------------
(* The programs of several statements: that they are typed, and what they  *)
(* may wait for with what.                                                 *)
SomeEntries == RowsOf("entry", "nk", LockEntries)

LEMMA MoveParts ==
  ASSUME NEW S \in SUBSET LockEntries, NEW s \in Seq(S), NEW t \in LockTopics
  PROVE  /\ MoveProg(s, t) \in Seq(LockRequests)
         /\ \A r, H : At(MoveProg(s, t), r, H) =>
              \/ r \in RowsOf("entry", "nk", S) \cup {KS("topic", t)} /\ H \subseteq RowsOf("entry", "nk", S)
              \/ r = NK("topic", t) /\ H \subseteq RowsOf("entry", "nk", S) \cup {KS("topic", t)}
<1> DEFINE rows == RowsOf("entry", "nk", S)
           first == Given("entry", "nk", s, t)
           last == <<NK("topic", t)>>
           p == MoveProg(s, t)
<1>1. rows \subseteq LockRequests
  BY RowsTyped DEF RowsOf
<1>2. /\ first \in Seq(LockRequests) /\ Taken(first) \subseteq rows \cup {KS("topic", t)}
      /\ \A r, H : At(first, r, H) => r \in rows \cup {KS("topic", t)} /\ H \subseteq rows
  BY <1>1, AtGiven
<1>3. last \in Seq(LockRequests)
  BY RequestsTyped
<1>4. \A r, H : At(last, r, H) => r = NK("topic", t) /\ H = {}
  BY AtOne
<1>5. p = first \o last
  BY DEF MoveProg
<1> HIDE DEF rows, first, last, p
<1>6. /\ first \o last \in Seq(LockRequests)
      /\ \A r, H : At(first \o last, r, H) =>
           At(first, r, H) \/ \E G : At(last, r, G) /\ H = Taken(first) \cup G
  BY <1>2, <1>3, AtJoin
<1>7. ASSUME NEW r, NEW H, At(p, r, H)
      PROVE  \/ r \in rows \cup {KS("topic", t)} /\ H \subseteq rows
             \/ r = NK("topic", t) /\ H \subseteq rows \cup {KS("topic", t)}
  <2>1. At(first, r, H) \/ \E G : At(last, r, G) /\ H = Taken(first) \cup G
    BY <1>5, <1>6, <1>7
  <2>2. ASSUME NEW G, At(last, r, G), H = Taken(first) \cup G
        PROVE  r = NK("topic", t) /\ H \subseteq rows \cup {KS("topic", t)}
    BY <1>2, <1>4, <2>2
  <2> QED BY <1>2, <2>1, <2>2
<1> QED BY <1>5, <1>6, <1>7 DEF p, rows

LEMMA PatchParts ==
  ASSUME NEW e \in LockEntries, NEW t \in LockTopics, NEW u \in LockTopics
  PROVE  /\ PatchProg(e, t, u) \in Seq(LockRequests)
         /\ \A r, H : At(PatchProg(e, t, u), r, H) =>
              \/ r = EX("entry", e) /\ H = {}
              \/ /\ EX("entry", e) \in H
                 /\ H \subseteq {EX("entry", e), NK("topic", t), EX("emb", e), NK("entry", e), KS("topic", u)}
                 /\ r \in {NK("topic", t), EX("emb", e), NK("entry", e), KS("topic", u), NK("topic", u)}
<1> DEFINE first == UpdateProg(e, t)
           last == MoveProg(<<e>>, u)
           rows == RowsOf("entry", "nk", {e})
           p == PatchProg(e, t, u)
<1>1. first \in Seq(LockRequests)
  BY RequestsTyped DEF UpdateProg
<1>2. Taken(first) = {EX("entry", e), NK("topic", t), EX("emb", e)}
  BY TakenAll DEF UpdateProg
<1>3. \A r, H : At(first, r, H) =>
        \/ r = EX("entry", e) /\ H = {}
        \/ r = NK("topic", t) /\ H = {EX("entry", e)}
        \/ r = EX("emb", e) /\ H = {EX("entry", e), NK("topic", t)}
  BY AtThree DEF UpdateProg
<1>4. /\ last \in Seq(LockRequests)
      /\ \A r, H : At(last, r, H) =>
           \/ r \in rows \cup {KS("topic", u)} /\ H \subseteq rows
           \/ r = NK("topic", u) /\ H \subseteq rows \cup {KS("topic", u)}
  <2>1. {e} \in SUBSET LockEntries /\ <<e>> \in Seq({e})
    OBVIOUS
  <2> QED BY <2>1, MoveParts
<1>5. rows = {NK("entry", e)}
  BY DEF RowsOf, NK
<1>6. p = first \o last
  BY DEF PatchProg
<1> HIDE DEF first, last, rows, p
<1>7. /\ first \o last \in Seq(LockRequests)
      /\ \A r, H : At(first \o last, r, H) =>
           At(first, r, H) \/ \E G : At(last, r, G) /\ H = Taken(first) \cup G
  BY <1>1, <1>4, AtJoin
<1>8. ASSUME NEW r, NEW H, At(p, r, H)
      PROVE  \/ r = EX("entry", e) /\ H = {}
             \/ /\ EX("entry", e) \in H
                /\ H \subseteq {EX("entry", e), NK("topic", t), EX("emb", e), NK("entry", e), KS("topic", u)}
                /\ r \in {NK("topic", t), EX("emb", e), NK("entry", e), KS("topic", u), NK("topic", u)}
  <2>1. At(first, r, H) \/ \E G : At(last, r, G) /\ H = Taken(first) \cup G
    BY <1>6, <1>7, <1>8
  <2>2. CASE At(first, r, H)
    BY <1>3, <2>2
  <2>3. ASSUME NEW G, At(last, r, G), H = Taken(first) \cup G
        PROVE  /\ EX("entry", e) \in H
               /\ H \subseteq {EX("entry", e), NK("topic", t), EX("emb", e), NK("entry", e), KS("topic", u)}
               /\ r \in {NK("topic", t), EX("emb", e), NK("entry", e), KS("topic", u), NK("topic", u)}
    <3>1. G \subseteq {NK("entry", e), KS("topic", u)}
      BY <1>4, <1>5, <2>3
    <3>2. r \in {NK("entry", e), KS("topic", u), NK("topic", u)}
      BY <1>4, <1>5, <2>3
    <3> QED BY <1>2, <2>3, <3>1, <3>2
  <2> QED BY <2>1, <2>2, <2>3
<1> QED BY <1>6, <1>7, <1>8 DEF p

LEMMA SaveParts ==
  ASSUME NEW c \in LockConvs, NEW ms \in Orders(Thread[c]), NEW e \in LockEntries, NEW t \in LockTopics
  PROVE  /\ SaveProg(c, ms, e, t) \in Seq(LockRequests)
         /\ \A r, H : At(SaveProg(c, ms, e, t), r, H) =>
              \/ r = NK("conv", c) /\ H = {}
              \/ /\ NK("conv", c) \in H
                 /\ \/ /\ r \in RowsOf("message", "ex", Thread[c]) \cup {NK("entry", e)}
                       /\ H \subseteq RowsOf("message", "ex", Thread[c]) \cup {NK("conv", c)}
                    \/ /\ r = NK("topic", t)
                       /\ H \subseteq RowsOf("message", "ex", Thread[c]) \cup {NK("conv", c), NK("entry", e)}
<1> DEFINE M == RowsOf("message", "ex", Thread[c])
           first == <<NK("conv", c)>>
           mid == Each("message", "ex", ms)
           last == <<NK("entry", e), NK("topic", t)>>
           rest == mid \o last
           p == SaveProg(c, ms, e, t)
<1>1. first \in Seq(LockRequests) /\ last \in Seq(LockRequests)
  BY RequestsTyped
<1>2. Taken(first) = {NK("conv", c)} /\ \A r, H : At(first, r, H) => r = NK("conv", c) /\ H = {}
  <2>1. Taken(first) = {NK("conv", c)}
    BY TakenAll
  <2>2. \A r, H : At(first, r, H) => r = NK("conv", c) /\ H = {}
    BY AtOne
  <2> QED BY <2>1, <2>2
<1>3. mid \in Seq(LockRequests) /\ Taken(mid) \subseteq M
      /\ \A r, H : At(mid, r, H) => r \in M /\ H \subseteq M
  <2>1. ms \in Seq(Thread[c])
    BY OrdersTyped
  <2> QED BY <2>1, RowsTyped, AtEach
<1>4. \A r, H : At(last, r, H) =>
        (r = NK("entry", e) /\ H = {}) \/ (r = NK("topic", t) /\ H = {NK("entry", e)})
  BY AtTwo
<1>5. p = first \o rest
  BY DEF SaveProg
<1> HIDE DEF M, first, mid, last, p
<1>6. /\ rest \in Seq(LockRequests)
      /\ \A r, H : At(rest, r, H) => At(mid, r, H) \/ \E G : At(last, r, G) /\ H = Taken(mid) \cup G
  BY <1>1, <1>3, AtJoin
<1> HIDE DEF rest
<1>7. /\ first \o rest \in Seq(LockRequests)
      /\ \A r, H : At(first \o rest, r, H) =>
           At(first, r, H) \/ \E G : At(rest, r, G) /\ H = Taken(first) \cup G
  BY <1>1, <1>6, AtJoin
<1>8. ASSUME NEW r, NEW H, At(p, r, H)
      PROVE  \/ r = NK("conv", c) /\ H = {}
             \/ /\ NK("conv", c) \in H
                /\ \/ r \in M \cup {NK("entry", e)} /\ H \subseteq M \cup {NK("conv", c)}
                   \/ r = NK("topic", t) /\ H \subseteq M \cup {NK("conv", c), NK("entry", e)}
  <2>1. At(first, r, H) \/ \E G : At(rest, r, G) /\ H = Taken(first) \cup G
    BY <1>5, <1>7, <1>8
  <2>2. CASE At(first, r, H)
    BY <1>2, <2>2
  <2>3. ASSUME NEW G, At(rest, r, G), H = Taken(first) \cup G
        PROVE  /\ NK("conv", c) \in H
               /\ \/ r \in M \cup {NK("entry", e)} /\ H \subseteq M \cup {NK("conv", c)}
                  \/ r = NK("topic", t) /\ H \subseteq M \cup {NK("conv", c), NK("entry", e)}
    <3>1. H = {NK("conv", c)} \cup G
      BY <1>2, <2>3
    <3>2. At(mid, r, G) \/ \E F : At(last, r, F) /\ G = Taken(mid) \cup F
      BY <1>6, <2>3
    <3>3. CASE At(mid, r, G)
      BY <1>3, <3>1, <3>3
    <3>4. ASSUME NEW F, At(last, r, F), G = Taken(mid) \cup F
          PROVE  \/ r \in M \cup {NK("entry", e)} /\ H \subseteq M \cup {NK("conv", c)}
                 \/ r = NK("topic", t) /\ H \subseteq M \cup {NK("conv", c), NK("entry", e)}
      BY <1>3, <1>4, <3>1, <3>4
    <3> QED BY <3>1, <3>2, <3>3, <3>4
  <2> QED BY <2>1, <2>2, <2>3
<1> QED BY <1>5, <1>7, <1>8 DEF p, M

LEMMA MergeParts ==
  ASSUME NEW cs \in Orders(LockConvs), NEW s \in Orders(LockEntries),
         NEW t \in LockTopics, NEW u \in LockTopics
  PROVE  /\ MergeProg(cs, s, t, u) \in Seq(LockRequests)
         /\ \A r, H : At(MergeProg(cs, s, t, u), r, H) =>
              \/ r \in RowsOf("conv", "ex", LockConvs) /\ H \subseteq RowsOf("conv", "ex", LockConvs)
              \/ /\ r \in SomeEntries \cup {KS("topic", u), EX("topic", t)}
                 /\ H \subseteq RowsOf("conv", "ex", LockConvs) \cup SomeEntries \cup {KS("topic", u)}
              \/ /\ r = NK("topic", u)
                 /\ H \subseteq RowsOf("conv", "ex", LockConvs) \cup SomeEntries
                                  \cup {KS("topic", u), EX("topic", t)}
<1> DEFINE C == RowsOf("conv", "ex", LockConvs)
           first == Given("conv", "ex", cs, u)
           mid == Given("entry", "nk", s, u)
           last == <<EX("topic", t), NK("topic", u)>>
           rest == mid \o last
           p == MergeProg(cs, s, t, u)
<1>1. /\ first \in Seq(LockRequests) /\ Taken(first) \subseteq C \cup {KS("topic", u)}
      /\ \A r, H : At(first, r, H) => r \in C \cup {KS("topic", u)} /\ H \subseteq C
  <2>1. cs \in Seq(LockConvs)
    BY OrdersTyped
  <2> QED BY <2>1, RowsTyped, AtGiven
<1>2. /\ mid \in Seq(LockRequests) /\ Taken(mid) \subseteq SomeEntries \cup {KS("topic", u)}
      /\ \A r, H : At(mid, r, H) => r \in SomeEntries \cup {KS("topic", u)} /\ H \subseteq SomeEntries
  <2>1. s \in Seq(LockEntries)
    BY OrdersTyped
  <2> QED BY <2>1, RowsTyped, AtGiven DEF SomeEntries
<1>3. last \in Seq(LockRequests)
  BY RequestsTyped
<1>4. \A r, H : At(last, r, H) =>
        (r = EX("topic", t) /\ H = {}) \/ (r = NK("topic", u) /\ H = {EX("topic", t)})
  BY AtTwo
<1>5. p = first \o rest
  BY DEF MergeProg
<1> HIDE DEF C, first, mid, last, p
<1>6. /\ rest \in Seq(LockRequests)
      /\ \A r, H : At(rest, r, H) => At(mid, r, H) \/ \E G : At(last, r, G) /\ H = Taken(mid) \cup G
  BY <1>2, <1>3, AtJoin
<1> HIDE DEF rest
<1>7. /\ first \o rest \in Seq(LockRequests)
      /\ \A r, H : At(first \o rest, r, H) =>
           At(first, r, H) \/ \E G : At(rest, r, G) /\ H = Taken(first) \cup G
  BY <1>1, <1>6, AtJoin
<1>8. ASSUME NEW r, NEW H, At(p, r, H)
      PROVE  \/ r \in C /\ H \subseteq C
             \/ /\ r \in SomeEntries \cup {KS("topic", u), EX("topic", t)}
                /\ H \subseteq C \cup SomeEntries \cup {KS("topic", u)}
             \/ r = NK("topic", u) /\ H \subseteq C \cup SomeEntries \cup {KS("topic", u), EX("topic", t)}
  <2>1. At(first, r, H) \/ \E G : At(rest, r, G) /\ H = Taken(first) \cup G
    BY <1>5, <1>7, <1>8
  <2>2. CASE At(first, r, H)
    BY <1>1, <2>2
  <2>3. ASSUME NEW G, At(rest, r, G), H = Taken(first) \cup G
        PROVE  \/ /\ r \in SomeEntries \cup {KS("topic", u), EX("topic", t)}
                  /\ H \subseteq C \cup SomeEntries \cup {KS("topic", u)}
               \/ r = NK("topic", u) /\ H \subseteq C \cup SomeEntries \cup {KS("topic", u), EX("topic", t)}
    <3>1. H \subseteq C \cup {KS("topic", u)} \cup G
      BY <1>1, <2>3
    <3>2. At(mid, r, G) \/ \E F : At(last, r, F) /\ G = Taken(mid) \cup F
      BY <1>6, <2>3
    <3>3. CASE At(mid, r, G)
      BY <1>2, <3>1, <3>3
    <3>4. ASSUME NEW F, At(last, r, F), G = Taken(mid) \cup F
          PROVE  \/ r = EX("topic", t) /\ H \subseteq C \cup SomeEntries \cup {KS("topic", u)}
                 \/ r = NK("topic", u) /\ H \subseteq C \cup SomeEntries \cup {KS("topic", u), EX("topic", t)}
      BY <1>2, <1>4, <3>1, <3>4
    <3> QED BY <3>2, <3>3, <3>4
  <2> QED BY <2>1, <2>2, <2>3
<1> QED BY <1>5, <1>7, <1>8 DEF p, C

LEMMA MergeProgs ==
  ASSUME NEW p \in Programs["merge"]
  PROVE  \E cs \in Orders(LockConvs), s \in Orders(LockEntries), t \in LockTopics, u \in LockTopics :
           p = MergeProg(cs, s, t, u)
<1> DEFINE pairs == {q \in LockTopics \X LockTopics : q[1] # q[2]}
<1>1. Programs["merge"] =
        {MergeProg(cs, s, tu[1], tu[2]) :
           cs \in Orders(LockConvs), s \in Orders(LockEntries), tu \in pairs}
  BY KindNames
<1>2. \A tu \in pairs : tu[1] \in LockTopics /\ tu[2] \in LockTopics
  OBVIOUS
<1> HIDE DEF pairs
<1>3. PICK cs \in Orders(LockConvs), s \in Orders(LockEntries), tu \in pairs :
        p = MergeProg(cs, s, tu[1], tu[2])
  BY <1>1
<1> QED BY <1>2, <1>3

LEMMA RotateTyped ==
  ASSUME NEW tab, NEW S, RowsOf(tab, "nk", S) \subseteq LockRequests
  PROVE  RotateProgs(tab, S) \subseteq Seq(LockRequests)
<1> SUFFICES ASSUME NEW ids \in Ascending(S) PROVE Each(tab, "nk", ids) \in Seq(LockRequests)
  BY DEF RotateProgs
<1>1. ids \in Seq(S)
  BY OrdersTyped
<1> QED BY <1>1, AtEach

LEMMA ProgramsTyped == \A k \in Kinds : Programs[k] \subseteq Seq(LockRequests)
<1>1. ASSUME NEW e \in LockEntries, NEW t \in LockTopics
      PROVE  UpdateProg(e, t) \in Seq(LockRequests) /\ DeleteProgs(e, t) \subseteq Seq(LockRequests)
  BY RequestsTyped DEF UpdateProg, DeleteProgs
<1>2. ASSUME NEW t \in LockTopics
      PROVE  /\ AppendProg(t) \in Seq(LockRequests) /\ FirstSaveProg(t) \in Seq(LockRequests)
             /\ RenameProg(t) \in Seq(LockRequests)
             /\ \A c \in LockConvs : PersistProg(c, t) \in Seq(LockRequests)
  BY RequestsTyped DEF AppendProg, FirstSaveProg, PersistProg, RenameProg
<1>3. ASSUME NEW e \in LockEntries PROVE ReembedProg(e) \in Seq(LockRequests)
  BY RequestsTyped DEF ReembedProg
<1>4. /\ Programs["append"] \subseteq Seq(LockRequests) /\ Programs["rename"] \subseteq Seq(LockRequests)
      /\ Programs["persist"] \subseteq Seq(LockRequests) /\ Programs["first"] \subseteq Seq(LockRequests)
  BY <1>2, KindNames
<1>5. Programs["update"] \subseteq Seq(LockRequests) /\ Programs["delete"] \subseteq Seq(LockRequests)
  BY <1>1, KindNames
<1>6. Programs["reembed"] \subseteq Seq(LockRequests)
  BY <1>3, KindNames
<1>7. Programs["patch"] \subseteq Seq(LockRequests)
  BY PatchParts, KindNames
<1>8. Programs["move"] \subseteq Seq(LockRequests)
  <2> SUFFICES ASSUME NEW s \in Orders(LockEntries), NEW t \in LockTopics
               PROVE  MoveProg(s, t) \in Seq(LockRequests)
    BY KindNames
  <2>1. s \in Seq(LockEntries) /\ LockEntries \in SUBSET LockEntries
    BY OrdersTyped
  <2> QED BY <2>1, MoveParts
<1>9. Programs["save"] \subseteq Seq(LockRequests)
  <2> SUFFICES ASSUME NEW c \in LockConvs, NEW ms \in Orders(Thread[c]), NEW e \in LockEntries,
                      NEW t \in LockTopics
               PROVE  SaveProg(c, ms, e, t) \in Seq(LockRequests)
    BY KindNames
  <2> QED BY SaveParts
<1>10. Programs["merge"] \subseteq Seq(LockRequests)
  BY MergeProgs, MergeParts
<1>11. Programs["reset"] \subseteq Seq(LockRequests)
  <2> SUFFICES ASSUME NEW s \in Orders(LockEntries) PROVE ResetProg(s) \in Seq(LockRequests)
    BY KindNames
  <2>1. s \in Seq(LockEntries)
    BY OrdersTyped
  <2> QED BY <2>1, RowsTyped, AtEach DEF ResetProg
<1>12. Programs["rotate"] \subseteq Seq(LockRequests)
  <2>1. /\ RotateProgs("entry", LockEntries) \subseteq Seq(LockRequests)
        /\ RotateProgs("message", Messages) \subseteq Seq(LockRequests)
        /\ RotateProgs("conv", LockConvs) \subseteq Seq(LockRequests)
    BY RotateTyped, RowsTyped
  <2> QED BY <2>1, KindNames
<1>13. Programs["claim"] \subseteq Seq(LockRequests) /\ Programs["single"] \subseteq Seq(LockRequests)
  <2>1. SingleProgs \subseteq Seq(LockRequests)
    <3> DEFINE One(r) == <<r>>
    <3>1. \A r \in LockRequests : One(r) \in Seq(LockRequests)
      OBVIOUS
    <3>2. SingleProgs = {One(NK("emb", e)) : e \in LockEntries}
                          \cup {One(RowLock("entry", mode, e)) : e \in LockEntries, mode \in {"ks", "nk"}}
                          \cup {One(RowLock("conv", mode, c)) : c \in LockConvs, mode \in {"ks", "nk"}}
      BY DEF SingleProgs
    <3> HIDE DEF One
    <3> QED BY <3>1, <3>2, RequestsTyped, RequestForms
  <2>2. << >> \in Seq(LockRequests)
    OBVIOUS
  <2>3. Programs["claim"] = {<< >>} /\ Programs["single"] = SingleProgs
    BY KindNames
  <2> QED BY <2>1, <2>2, <2>3
<1> QED BY <1>4, <1>5, <1>6, <1>7, <1>8, <1>9, <1>10, <1>11, <1>12, <1>13 DEF Kinds

LEMMA LocksBase == LocksInit => LocksInv
<1> SUFFICES ASSUME LocksInit PROVE LocksInv
  OBVIOUS
<1>1. /\ kind = [x \in Txns |-> Idle] /\ prog = [x \in Txns |-> << >>] /\ locks = [x \in Txns |-> {}]
  BY DEF LocksInit
<1>2. LocksTypeOK
  BY <1>1 DEF LocksTypeOK
<1>3. prog \in [Txns -> Seq(LockRequests)] /\ locks \in [Txns -> SUBSET LockRequests]
  BY <1>1
<1>4. \A x \in Txns : UnderWay(x)
  BY <1>1, LocksAssumption DEF UnderWay, Kinds
<1>5. HeldCompatibly
  BY <1>1 DEF HeldCompatibly
<1> QED BY <1>2, <1>3, <1>4, <1>5 DEF LocksInv

LEMMA RequestsOf ==
  ASSUME NEW s \in Seq(LockRequests)
  PROVE  \A i \in DOMAIN s : s[i] \in LockRequests
BY LenProperties

LEMMA Untouched ==
  ASSUME NEW x \in Txns, UnderWay(x),
         kind'[x] = kind[x], prog'[x] = prog[x], locks'[x] = locks[x]
  PROVE  UnderWay(x)'
<1>1. \A p, n : Reached(x, p, n)' <=> Reached(x, p, n)
  BY DEF Reached
<1> QED BY <1>1 DEF UnderWay

LEMMA BeginTxnStep ==
  ASSUME LocksInv, NEW x \in Txns, NEW k \in Kinds, BeginTxn(x, k)
  PROVE  LocksInv'
<1>1. PICK p \in Programs[k] : prog' = [prog EXCEPT ![x] = p]
  BY DEF BeginTxn
<1>2. kind[x] = Idle /\ kind' = [kind EXCEPT ![x] = k] /\ locks' = locks
  BY DEF BeginTxn
<1>3. p \in Seq(LockRequests) /\ Len(p) \in Nat /\ k # Idle
  BY ProgramsTyped, LocksAssumption, LenProperties
<1>4. /\ kind' \in [Txns -> Kinds \cup {Idle}] /\ prog' \in [Txns -> Seq(LockRequests)]
      /\ locks' \in [Txns -> SUBSET LockRequests]
  BY <1>1, <1>2, <1>3 DEF LocksInv, LocksTypeOK
<1>5. LocksTypeOK'
  BY <1>4, RequestsOf DEF LocksTypeOK
<1>6. locks[x] = {}
  BY <1>2 DEF LocksInv, UnderWay
<1>7. prog'[x] = p /\ kind'[x] = k /\ locks'[x] = {}
  BY <1>1, <1>2, <1>6 DEF LocksInv, LocksTypeOK
<1>8. UnderWay(x)'
  <2>1. {p[i] : i \in 1 .. 0} = {} /\ Len(p) = Len(p) - 0 /\ 0 \in 0 .. Len(p)
    BY <1>3
  <2>2. \A i \in 1 .. Len(p) : p[i] = p[0 + i]
    BY <1>3
  <2>3. Reached(x, p, 0)'
    BY <1>7, <2>1, <2>2 DEF Reached
  <2>4. k = "claim" => p = << >>
    BY KindNames
  <2> QED BY <1>1, <1>3, <1>7, <2>1, <2>3, <2>4 DEF UnderWay
<1>9. ASSUME NEW y \in Txns, y # x PROVE UnderWay(y)'
  <2>1. kind'[y] = kind[y] /\ prog'[y] = prog[y] /\ locks'[y] = locks[y] /\ UnderWay(y)
    BY <1>1, <1>2, <1>9 DEF LocksInv, LocksTypeOK
  <2> QED BY <2>1, Untouched
<1>10. HeldCompatibly'
  BY <1>2 DEF LocksInv, HeldCompatibly
<1> QED BY <1>4, <1>5, <1>8, <1>9, <1>10 DEF LocksInv

(* A lock is granted only beside compatible ones.                          *)
LEMMA GrantKeeps ==
  ASSUME LocksInv, NEW x \in Txns, NEW r, \A y \in Txns \ {x} : ~Refuses(y, r),
         locks' = [locks EXCEPT ![x] = locks[x] \cup {r}]
  PROVE  HeldCompatibly'
<1>1. /\ locks'[x] = locks[x] \cup {r}
      /\ \A y \in Txns : y # x => locks'[y] = locks[y]
  BY DEF LocksInv
<1>2. \A y \in Txns : \A h \in locks[y] : y # x /\ h.row = r.row => Compatible(h.mode, r.mode)
  BY DEF Refuses
<1>3. \A m, n : Compatible(m, n) <=> Compatible(n, m)
  BY DEF Compatible
<1>4. SUFFICES ASSUME NEW y \in Txns, NEW z \in Txns, y # z,
                       NEW h \in locks'[y], NEW g \in locks'[z], h.row = g.row
                PROVE  Compatible(h.mode, g.mode)
  BY DEF HeldCompatibly
<1>5. CASE h \in locks[y] /\ g \in locks[z]
  BY <1>4, <1>5 DEF LocksInv, HeldCompatibly
<1>6. CASE h \notin locks[y]
  <2>1. y = x /\ h = r
    BY <1>1, <1>6
  <2>2. g \in locks[z]
    BY <1>1, <1>4, <2>1
  <2> QED BY <1>2, <1>3, <1>4, <2>1, <2>2
<1>7. CASE g \notin locks[z]
  <2>1. z = x /\ g = r
    BY <1>1, <1>7
  <2>2. h \in locks[y]
    BY <1>1, <1>4, <2>1
  <2> QED BY <1>2, <1>4, <2>1, <2>2
<1> QED BY <1>5, <1>6, <1>7

LEMMA AcquireStep ==
  ASSUME LocksInv, NEW x \in Txns, Acquire(x)
  PROVE  LocksInv'
<1> DEFINE r == Head(prog[x])
<1>1. /\ prog[x] # << >> /\ kind' = kind /\ \A y \in Txns \ {x} : ~Refuses(y, r)
      /\ locks' = [locks EXCEPT ![x] = locks[x] \cup {r}] /\ prog' = [prog EXCEPT ![x] = Tail(prog[x])]
  BY DEF Acquire, Blocks
<1>2. /\ kind \in [Txns -> Kinds \cup {Idle}] /\ prog \in [Txns -> Seq(LockRequests)]
      /\ locks \in [Txns -> SUBSET LockRequests] /\ prog[x] \in Seq(LockRequests)
  BY DEF LocksInv, LocksTypeOK
<1>3. /\ r \in LockRequests /\ Tail(prog[x]) \in Seq(LockRequests)
      /\ Len(Tail(prog[x])) = Len(prog[x]) - 1 /\ Len(prog[x]) \in Nat /\ Len(prog[x]) > 0
      /\ r = prog[x][1]
      /\ \A i \in 1 .. Len(Tail(prog[x])) : Tail(prog[x])[i] = prog[x][i + 1]
  <2>1. Len(prog[x]) \in Nat \ {0}
    BY <1>1, <1>2, EmptySeq
  <2>2. r = prog[x][1]
    BY <1>1, <1>2
  <2> QED BY <1>1, <1>2, <2>1, <2>2, HeadTailProperties
<1> HIDE DEF r
<1>4. /\ prog' \in [Txns -> Seq(LockRequests)] /\ locks' \in [Txns -> SUBSET LockRequests]
      /\ prog'[x] = Tail(prog[x]) /\ locks'[x] = locks[x] \cup {r}
      /\ \A y \in Txns : y # x => prog'[y] = prog[y] /\ locks'[y] = locks[y]
  BY <1>1, <1>2, <1>3
<1>5. LocksTypeOK'
  BY <1>1, <1>2, <1>4, RequestsOf DEF LocksTypeOK
<1>6. UnderWay(x)'
  <2>1. kind[x] \in Kinds /\ kind[x] \notin {Idle, "claim"}
    BY <1>1, <1>2 DEF LocksInv, UnderWay
  <2>2. PICK p \in Programs[kind[x]] : \E n \in 0 .. Len(p) : Reached(x, p, n)
    BY <2>1 DEF LocksInv, UnderWay
  <2>3. PICK n \in 0 .. Len(p) : Reached(x, p, n)
    BY <2>2
  <2>4. Len(p) \in Nat
    <3>1. p \in Seq(LockRequests)
      BY <1>2, <2>1, <2>2, ProgramsTyped
    <3> QED BY <3>1, LenProperties
  <2>5. n + 1 \in 0 .. Len(p) /\ r = p[n + 1]
    <3>1. Len(prog[x]) = Len(p) - n /\ \A i \in 1 .. Len(prog[x]) : prog[x][i] = p[n + i]
      BY <2>3 DEF Reached
    <3>2. n + 1 \in 0 .. Len(p) /\ 1 \in 1 .. Len(prog[x])
      BY <1>3, <2>4, <3>1
    <3>3. prog[x][1] = p[n + 1]
      BY <3>1, <3>2
    <3> QED BY <1>3, <3>2, <3>3
  <2>6. locks'[x] = {p[i] : i \in 1 .. n + 1}
    <3>1. locks[x] = {p[i] : i \in 1 .. n}
      BY <2>3 DEF Reached
    <3>2. 1 .. n + 1 = (1 .. n) \cup {n + 1}
      BY <2>4
    <3>3. {p[i] : i \in 1 .. n + 1} = {p[i] : i \in 1 .. n} \cup {p[n + 1]}
      BY <3>2
    <3> QED BY <1>4, <2>5, <3>1, <3>3
  <2>7. Len(Tail(prog[x])) = Len(p) - (n + 1)
    BY <1>3, <2>3, <2>4 DEF Reached
  <2>8. ASSUME NEW i \in 1 .. Len(Tail(prog[x])) PROVE Tail(prog[x])[i] = p[n + 1 + i]
    <3>1. i + 1 \in 1 .. Len(prog[x]) /\ n + (i + 1) = n + 1 + i /\ Tail(prog[x])[i] = prog[x][i + 1]
      BY <1>3, <2>4
    <3>2. prog[x][i + 1] = p[n + (i + 1)]
      BY <2>3, <3>1 DEF Reached
    <3> QED BY <3>1, <3>2
  <2>9. Reached(x, p, n + 1)'
    BY <1>4, <2>6, <2>7, <2>8 DEF Reached
  <2> QED BY <1>1, <2>1, <2>2, <2>5, <2>9 DEF UnderWay
<1>7. ASSUME NEW y \in Txns, y # x PROVE UnderWay(y)'
  BY <1>1, <1>4, <1>7, Untouched DEF LocksInv
<1>8. HeldCompatibly'
  BY <1>1, GrantKeeps
<1> QED BY <1>4, <1>5, <1>6, <1>7, <1>8 DEF LocksInv

(* A claim has taken only rows of entries that it found free.              *)
LEMMA SkipLockedStep ==
  ASSUME LocksInv, NEW x \in Txns, NEW e \in LockEntries, SkipLocked(x, e)
  PROVE  LocksInv'
<1> DEFINE r == EX("entry", e)
<1>1. /\ kind[x] = "claim" /\ kind' = kind /\ prog' = prog /\ \A y \in Txns \ {x} : ~Refuses(y, r)
      /\ locks' = [locks EXCEPT ![x] = locks[x] \cup {r}]
  BY DEF SkipLocked
<1>2. r \in LockRequests /\ r \in RowsOf("entry", "ex", LockEntries)
  BY RequestsTyped DEF RowsOf, EX
<1> HIDE DEF r
<1>3. /\ locks' \in [Txns -> SUBSET LockRequests] /\ locks'[x] = locks[x] \cup {r}
      /\ \A y \in Txns : y # x => locks'[y] = locks[y]
  BY <1>1, <1>2 DEF LocksInv
<1>4. LocksTypeOK'
  BY <1>1, <1>3 DEF LocksInv, LocksTypeOK
<1>5. UnderWay(x)'
  <2>1. prog[x] = << >> /\ locks[x] \subseteq RowsOf("entry", "ex", LockEntries)
    BY <1>1 DEF LocksInv, UnderWay
  <2>2. Idle # "claim"
    BY LocksAssumption DEF Kinds
  <2>3. kind'[x] = "claim" /\ prog'[x] = << >> /\ locks'[x] \subseteq RowsOf("entry", "ex", LockEntries)
    BY <1>1, <1>2, <1>3, <2>1
  <2> QED BY <2>2, <2>3 DEF UnderWay
<1>6. ASSUME NEW y \in Txns, y # x PROVE UnderWay(y)'
  BY <1>1, <1>3, <1>6, Untouched DEF LocksInv
<1>7. HeldCompatibly'
  BY <1>1, GrantKeeps
<1> QED BY <1>1, <1>3, <1>4, <1>5, <1>6, <1>7 DEF LocksInv

LEMMA EndedStep ==
  ASSUME LocksInv, NEW x \in Txns, Ended(x)
  PROVE  LocksInv'
<1>1. /\ kind' = [kind EXCEPT ![x] = Idle] /\ prog' = [prog EXCEPT ![x] = << >>]
      /\ locks' = [locks EXCEPT ![x] = {}]
  BY DEF Ended
<1>2. /\ kind' \in [Txns -> Kinds \cup {Idle}] /\ prog' \in [Txns -> Seq(LockRequests)]
      /\ locks' \in [Txns -> SUBSET LockRequests]
      /\ kind'[x] = Idle /\ prog'[x] = << >> /\ locks'[x] = {}
      /\ \A y \in Txns : y # x => kind'[y] = kind[y] /\ prog'[y] = prog[y] /\ locks'[y] = locks[y]
  BY <1>1 DEF LocksInv, LocksTypeOK
<1>3. LocksTypeOK'
  BY <1>2, RequestsOf DEF LocksTypeOK
<1>4. ASSUME NEW y \in Txns PROVE UnderWay(y)'
  <2>1. CASE y = x
    BY <1>2, <2>1, LocksAssumption DEF UnderWay, Kinds
  <2>2. CASE y # x
    BY <1>2, <2>2, Untouched DEF LocksInv
  <2> QED BY <2>1, <2>2
<1>5. HeldCompatibly'
  BY <1>2 DEF LocksInv, HeldCompatibly
<1> QED BY <1>2, <1>3, <1>4, <1>5 DEF LocksInv

LEMMA LocksStep == LocksInv /\ [LocksNext]_lockVars => LocksInv'
<1> SUFFICES ASSUME LocksInv, [LocksNext]_lockVars PROVE LocksInv'
  OBVIOUS
<1>1. ASSUME NEW x \in Txns, NEW k \in Kinds, BeginTxn(x, k) PROVE LocksInv'
  BY <1>1, BeginTxnStep
<1>2. ASSUME NEW x \in Txns, Acquire(x) PROVE LocksInv'
  BY <1>2, AcquireStep
<1>3. ASSUME NEW x \in Txns, NEW e \in LockEntries, SkipLocked(x, e) PROVE LocksInv'
  BY <1>3, SkipLockedStep
<1>4. ASSUME NEW x \in Txns, CommitTxn(x) \/ AbortTxn(x) PROVE LocksInv'
  BY <1>4, EndedStep DEF CommitTxn, AbortTxn
<1>5. CASE UNCHANGED lockVars
  <2>1. kind' = kind /\ prog' = prog /\ locks' = locks
    BY <1>5 DEF lockVars
  <2>2. \A x \in Txns : UnderWay(x)'
    BY <2>1, Untouched DEF LocksInv
  <2>3. LocksTypeOK' /\ HeldCompatibly'
    BY <2>1 DEF LocksInv, LocksTypeOK, HeldCompatibly
  <2> QED BY <2>1, <2>2, <2>3 DEF LocksInv
<1> QED BY <1>1, <1>2, <1>3, <1>4, <1>5 DEF LocksNext

(* How far each of the listed write transactions is in its program, what a *)
(* claim may have taken, and that what two of them hold of one row is      *)
(* compatible (the statements of storage/repositories/, tools/admin.py and *)
(* the rotation script, under PostgreSQL's row lock table).                *)
THEOREM LocksInvariant == LocksSpec => []LocksInv
BY LocksBase, LocksStep, PTL DEF LocksSpec

---------------------------------------------------------------------------
(* Who waits for what, and what it has by then.                            *)
Stands(x, w, held) == Head(prog[x]) = w /\ locks[x] = held
HasEntry(x, e) == \E h \in locks[x] : h.row = <<"entry", e>> /\ h.mode \in {"nk", "ex"}
Wants(x, tab) == Head(prog[x]).row[1] = tab
HasSome(x, tab) == \E h \in locks[x] : h.row[1] = tab

LEMMA RequestFacts ==
  \A tab, id :
    /\ KS(tab, id).row = <<tab, id>> /\ KS(tab, id).row[1] = tab /\ KS(tab, id).mode = "ks"
    /\ NK(tab, id).row = <<tab, id>> /\ NK(tab, id).row[1] = tab /\ NK(tab, id).mode = "nk"
    /\ EX(tab, id).row = <<tab, id>> /\ EX(tab, id).row[1] = tab /\ EX(tab, id).mode = "ex"
BY DEF KS, NK, EX, RowLock

LEMMA RowsFacts ==
  ASSUME NEW tab, NEW mode, NEW S, NEW r \in RowsOf(tab, mode, S)
  PROVE  r.row[1] = tab /\ r.mode = mode /\ \E i \in S : r.row = <<tab, i>>
BY DEF RowsOf, RowLock

LEMMA Waiting ==
  ASSUME LocksInv, NEW x \in Txns, prog[x] # << >>
  PROVE  /\ kind[x] \in Kinds \ {"claim"}
         /\ \E p \in Programs[kind[x]] : At(p, Head(prog[x]), locks[x])
<1>1. kind[x] \in Kinds /\ kind[x] \notin {Idle, "claim"}
  BY DEF LocksInv, LocksTypeOK, UnderWay
<1>2. PICK p \in Programs[kind[x]] : \E n \in 0 .. Len(p) : Reached(x, p, n)
  BY <1>1 DEF LocksInv, UnderWay
<1>3. PICK n \in 0 .. Len(p) : Reached(x, p, n)
  BY <1>2
<1>4. Len(p) \in Nat
  <2>1. p \in Seq(LockRequests)
    BY <1>1, <1>2, ProgramsTyped
  <2> QED BY <2>1, LenProperties
<1>5. prog[x] \in Seq(LockRequests) /\ Len(prog[x]) \in Nat \ {0} /\ Head(prog[x]) = prog[x][1]
  <2>1. prog[x] \in Seq(LockRequests)
    BY DEF LocksInv
  <2> QED BY <2>1, EmptySeq
<1>6. n \in 0 .. (Len(p) - 1) /\ Head(prog[x]) = p[n + 1] /\ locks[x] = {p[i] : i \in 1 .. n}
  BY <1>3, <1>4, <1>5 DEF Reached
<1>7. At(p, Head(prog[x]), locks[x])
  BY <1>6 DEF At
<1> QED BY <1>1, <1>2, <1>7

LEMMA OneEntryHolder ==
  ASSUME LocksInv, NEW x \in Txns, NEW y \in Txns, x # y, NEW e, HasEntry(x, e), HasEntry(y, e)
  PROVE  FALSE
BY DEF LocksInv, HeldCompatibly, HasEntry, Compatible

---------------------------------------------------------------------------
(* Each kind of transaction, by the tables of the rows it wants and has.   *)

(* These wait with nothing but, at most, a share of a topic's key.         *)
LEMMA SingleTables ==
  ASSUME LocksInv, NEW x \in Txns, prog[x] # << >>, kind[x] \in {"append", "rename", "single"}
  PROVE  locks[x] = {}
<1>1. PICK p \in Programs[kind[x]] : At(p, Head(prog[x]), locks[x])
  BY Waiting
<1>2. \E r : p = <<r>>
  <2>1. CASE kind[x] = "append"
    BY <1>1, <2>1, KindNames DEF AppendProg
  <2>2. CASE kind[x] = "rename"
    BY <1>1, <2>2, KindNames DEF RenameProg
  <2>3. CASE kind[x] = "single"
    BY <1>1, <2>3, KindNames DEF SingleProgs
  <2> QED BY <2>1, <2>2, <2>3
<1> QED BY <1>1, <1>2, AtOne

LEMMA FirstTables ==
  ASSUME LocksInv, NEW x \in Txns, prog[x] # << >>, kind[x] = "first", locks[x] # {}
  PROVE  /\ Wants(x, "topic") /\ Head(prog[x]).mode = "nk"
         /\ \A h \in locks[x] : h.row[1] = "topic" /\ h.mode = "ks"
<1>1. PICK p \in Programs[kind[x]] : At(p, Head(prog[x]), locks[x])
  BY Waiting
<1>2. PICK t \in LockTopics : p = <<KS("topic", t), NK("topic", t)>>
  BY <1>1, KindNames DEF FirstSaveProg
<1>3. Head(prog[x]) = NK("topic", t) /\ locks[x] = {KS("topic", t)}
  BY <1>1, <1>2, AtTwo
<1> QED BY <1>3, RequestFacts DEF Wants

LEMMA UpdateStages ==
  ASSUME LocksInv, NEW x \in Txns, prog[x] # << >>, kind[x] = "update"
  PROVE  \E e \in LockEntries, t \in LockTopics :
           \/ Stands(x, EX("entry", e), {})
           \/ Stands(x, NK("topic", t), {EX("entry", e)})
           \/ Stands(x, EX("emb", e), {EX("entry", e), NK("topic", t)})
<1>1. PICK p \in Programs[kind[x]] : At(p, Head(prog[x]), locks[x])
  BY Waiting
<1>2. PICK e \in LockEntries, t \in LockTopics : p = <<EX("entry", e), NK("topic", t), EX("emb", e)>>
  BY <1>1, KindNames DEF UpdateProg
<1> QED BY <1>1, <1>2, AtThree DEF Stands

LEMMA DeleteStages ==
  ASSUME LocksInv, NEW x \in Txns, prog[x] # << >>, kind[x] = "delete"
  PROVE  \E e \in LockEntries, t \in LockTopics :
           \/ Stands(x, NK("entry", e), {})
           \/ Stands(x, EX("emb", e), {NK("entry", e)})
           \/ Stands(x, NK("topic", t), {NK("entry", e), EX("emb", e)})
           \/ Stands(x, NK("topic", t), {NK("entry", e)})
           \/ Stands(x, EX("emb", e), {NK("entry", e), NK("topic", t)})
<1>1. PICK p \in Programs[kind[x]] : At(p, Head(prog[x]), locks[x])
  BY Waiting
<1>2. PICK e \in LockEntries, t \in LockTopics : p \in DeleteProgs(e, t)
  BY <1>1, KindNames
<1>3. CASE p = <<NK("entry", e), EX("emb", e), NK("topic", t)>>
  BY <1>1, <1>3, AtThree DEF Stands
<1>4. CASE p = <<NK("entry", e), NK("topic", t), EX("emb", e)>>
  BY <1>1, <1>4, AtThree DEF Stands
<1> QED BY <1>2, <1>3, <1>4 DEF DeleteProgs

(* Beyond its first request a patch has the row of its entry.              *)
LEMMA PatchStages ==
  ASSUME LocksInv, NEW x \in Txns, prog[x] # << >>, kind[x] = "patch"
  PROVE  \E e \in LockEntries, t \in LockTopics, u \in LockTopics :
           \/ Stands(x, EX("entry", e), {})
           \/ /\ EX("entry", e) \in locks[x]
              /\ locks[x] \subseteq {EX("entry", e), NK("topic", t), EX("emb", e), NK("entry", e), KS("topic", u)}
              /\ Head(prog[x]) \in {NK("topic", t), EX("emb", e), NK("entry", e), KS("topic", u), NK("topic", u)}
<1>1. PICK p \in Programs[kind[x]] : At(p, Head(prog[x]), locks[x])
  BY Waiting
<1>2. PICK e \in LockEntries, t \in LockTopics, u \in LockTopics : p = PatchProg(e, t, u)
  BY <1>1, KindNames
<1> QED BY <1>1, <1>2, PatchParts DEF Stands

(* Beyond its first request a save has the row of its conversation.        *)
LEMMA SaveStages ==
  ASSUME LocksInv, NEW x \in Txns, prog[x] # << >>, kind[x] = "save", locks[x] # {}
  PROVE  \E c \in LockConvs, e \in LockEntries, t \in LockTopics :
           LET M == RowsOf("message", "ex", Thread[c]) IN
           /\ NK("conv", c) \in locks[x]
           /\ \/ Head(prog[x]) \in M \cup {NK("entry", e)} /\ locks[x] \subseteq M \cup {NK("conv", c)}
              \/ Head(prog[x]) = NK("topic", t) /\ locks[x] \subseteq M \cup {NK("conv", c), NK("entry", e)}
<1>1. PICK p \in Programs[kind[x]] : At(p, Head(prog[x]), locks[x])
  BY Waiting
<1>2. PICK c \in LockConvs : \E ms \in Orders(Thread[c]), e \in LockEntries, t \in LockTopics :
        p = SaveProg(c, ms, e, t)
  BY <1>1, KindNames
<1>3. PICK ms \in Orders(Thread[c]), e \in LockEntries, t \in LockTopics : p = SaveProg(c, ms, e, t)
  BY <1>2
<1> QED BY <1>1, <1>3, SaveParts

LEMMA UpdateTables ==
  ASSUME LocksInv, NEW x \in Txns, prog[x] # << >>, kind[x] = "update"
  PROVE  /\ Wants(x, "entry") \/ Wants(x, "topic") \/ Wants(x, "emb")
         /\ Wants(x, "entry") => locks[x] = {}
         /\ Wants(x, "topic") => Head(prog[x]).mode = "nk"
         /\ Wants(x, "emb") => \E e : Head(prog[x]).row = <<"emb", e>>
         /\ \A h \in locks[x] : h.row[1] \in {"entry", "topic", "emb"}
         /\ HasSome(x, "topic") => Wants(x, "emb")
<1>1. PICK f \in LockEntries, t \in LockTopics :
         \/ Stands(x, EX("entry", f), {})
         \/ Stands(x, NK("topic", t), {EX("entry", f)})
         \/ Stands(x, EX("emb", f), {EX("entry", f), NK("topic", t)})
  BY UpdateStages
<1>2. CASE Stands(x, EX("entry", f), {})
  BY <1>2, RequestFacts DEF Stands, Wants, HasSome
<1>3. CASE Stands(x, NK("topic", t), {EX("entry", f)})
  BY <1>3, RequestFacts DEF Stands, Wants, HasSome
<1>4. CASE Stands(x, EX("emb", f), {EX("entry", f), NK("topic", t)})
  BY <1>4, RequestFacts DEF Stands, Wants, HasSome
<1> QED BY <1>1, <1>2, <1>3, <1>4

LEMMA DeleteTables ==
  ASSUME LocksInv, NEW x \in Txns, prog[x] # << >>, kind[x] = "delete"
  PROVE  /\ Wants(x, "entry") \/ Wants(x, "topic") \/ Wants(x, "emb")
         /\ Wants(x, "entry") => locks[x] = {}
         /\ Wants(x, "topic") => Head(prog[x]).mode = "nk"
         /\ Wants(x, "emb") => \E e : Head(prog[x]).row = <<"emb", e>>
         /\ \A h \in locks[x] : h.row[1] \in {"entry", "topic", "emb"}
         /\ HasSome(x, "topic") => Wants(x, "emb")
<1>1. PICK f \in LockEntries, t \in LockTopics :
         \/ Stands(x, NK("entry", f), {})
         \/ Stands(x, EX("emb", f), {NK("entry", f)})
         \/ Stands(x, NK("topic", t), {NK("entry", f), EX("emb", f)})
         \/ Stands(x, NK("topic", t), {NK("entry", f)})
         \/ Stands(x, EX("emb", f), {NK("entry", f), NK("topic", t)})
  BY DeleteStages
<1>2. CASE Stands(x, NK("entry", f), {})
  BY <1>2, RequestFacts DEF Stands, Wants, HasSome
<1>3. CASE Stands(x, EX("emb", f), {NK("entry", f)})
  BY <1>3, RequestFacts DEF Stands, Wants, HasSome
<1>4. CASE Stands(x, NK("topic", t), {NK("entry", f), EX("emb", f)})
  BY <1>4, RequestFacts DEF Stands, Wants, HasSome
<1>5. CASE Stands(x, NK("topic", t), {NK("entry", f)})
  BY <1>5, RequestFacts DEF Stands, Wants, HasSome
<1>6. CASE Stands(x, EX("emb", f), {NK("entry", f), NK("topic", t)})
  BY <1>6, RequestFacts DEF Stands, Wants, HasSome
<1> QED BY <1>1, <1>2, <1>3, <1>4, <1>5, <1>6

LEMMA SaveTables ==
  ASSUME LocksInv, NEW x \in Txns, prog[x] # << >>, kind[x] = "save", locks[x] # {}
  PROVE  /\ Wants(x, "message") \/ Wants(x, "entry") \/ Wants(x, "topic")
         /\ Wants(x, "entry") => ~ HasSome(x, "entry")
         /\ Wants(x, "topic") => Head(prog[x]).mode = "nk"
         /\ \A h \in locks[x] : h.row[1] \in {"conv", "message", "entry"}
         /\ Wants(x, "message") => ~ HasSome(x, "entry")
<1>1. PICK c \in LockConvs, e \in LockEntries, t \in LockTopics :
        /\ NK("conv", c) \in locks[x]
        /\ \/ /\ Head(prog[x]) \in RowsOf("message", "ex", Thread[c]) \cup {NK("entry", e)}
              /\ locks[x] \subseteq RowsOf("message", "ex", Thread[c]) \cup {NK("conv", c)}
           \/ /\ Head(prog[x]) = NK("topic", t)
              /\ locks[x] \subseteq RowsOf("message", "ex", Thread[c]) \cup {NK("conv", c), NK("entry", e)}
  BY SaveStages
<1> DEFINE M == RowsOf("message", "ex", Thread[c])
<1>2. \A r \in M : r.row[1] = "message"
  BY RowsFacts
<1>3. CASE Head(prog[x]) \in M \cup {NK("entry", e)} /\ locks[x] \subseteq M \cup {NK("conv", c)}
  <2> HIDE DEF M
  <2>1. \A h \in locks[x] : h.row[1] \in {"conv", "message"}
    BY <1>2, <1>3, RequestFacts
  <2>2. Wants(x, "message") \/ Wants(x, "entry")
    BY <1>2, <1>3, RequestFacts DEF Wants
  <2> QED BY <2>1, <2>2 DEF HasSome, Wants
<1>4. CASE Head(prog[x]) = NK("topic", t) /\ locks[x] \subseteq M \cup {NK("conv", c), NK("entry", e)}
  <2> HIDE DEF M
  <2>1. \A h \in locks[x] : h.row[1] \in {"conv", "message", "entry"}
    BY <1>2, <1>4, RequestFacts
  <2> QED BY <1>4, <2>1, RequestFacts DEF HasSome, Wants
<1> QED BY <1>1, <1>3, <1>4

LEMMA PersistTables ==
  ASSUME LocksInv, NEW x \in Txns, prog[x] # << >>, kind[x] = "persist"
  PROVE  /\ \/ Wants(x, "topic") /\ (\A h \in locks[x] : h.row[1] = "topic" /\ h.mode = "ks")
            \/ Wants(x, "conv") /\ (\A h \in locks[x] : h.row[1] = "topic")
         /\ Wants(x, "topic") => Head(prog[x]).mode # "ex"
<1>1. PICK p \in Programs[kind[x]] : At(p, Head(prog[x]), locks[x])
  BY Waiting
<1>2. PICK c \in LockConvs, t \in LockTopics : p = <<KS("topic", t), NK("topic", t), NK("conv", c)>>
  BY <1>1, KindNames DEF PersistProg
<1>3. \/ Stands(x, KS("topic", t), {})
      \/ Stands(x, NK("topic", t), {KS("topic", t)})
      \/ Stands(x, NK("conv", c), {KS("topic", t), NK("topic", t)})
  BY <1>1, <1>2, AtThree DEF Stands
<1>4. CASE Stands(x, KS("topic", t), {})
  BY <1>4, RequestFacts DEF Stands, Wants
<1>5. CASE Stands(x, NK("topic", t), {KS("topic", t)})
  BY <1>5, RequestFacts DEF Stands, Wants
<1>6. CASE Stands(x, NK("conv", c), {KS("topic", t), NK("topic", t)})
  BY <1>6, RequestFacts DEF Stands, Wants
<1> QED BY <1>3, <1>4, <1>5, <1>6

LEMMA ReembedTables ==
  ASSUME LocksInv, NEW x \in Txns, prog[x] # << >>, kind[x] = "reembed"
  PROVE  /\ Wants(x, "emb") \/ Wants(x, "entry")
         /\ Wants(x, "emb") => locks[x] = {}
         /\ \A h \in locks[x] : h.row[1] = "emb"
<1>1. PICK p \in Programs[kind[x]] : At(p, Head(prog[x]), locks[x])
  BY Waiting
<1>2. PICK e \in LockEntries : p = <<NK("emb", e), NK("entry", e)>>
  BY <1>1, KindNames DEF ReembedProg
<1>3. Stands(x, NK("emb", e), {}) \/ Stands(x, NK("entry", e), {NK("emb", e)})
  BY <1>1, <1>2, AtTwo DEF Stands
<1>4. CASE Stands(x, NK("emb", e), {})
  BY <1>4, RequestFacts DEF Stands, Wants
<1>5. CASE Stands(x, NK("entry", e), {NK("emb", e)})
  BY <1>5, RequestFacts DEF Stands, Wants
<1> QED BY <1>3, <1>4, <1>5

LEMMA PatchTables ==
  ASSUME LocksInv, NEW x \in Txns, prog[x] # << >>, kind[x] = "patch"
  PROVE  /\ Wants(x, "entry") \/ Wants(x, "topic") \/ Wants(x, "emb")
         /\ Wants(x, "topic") => Head(prog[x]).mode # "ex"
         /\ Wants(x, "emb") => \E e : Head(prog[x]).row = <<"emb", e>>
         /\ Wants(x, "entry") /\ locks[x] # {} =>
              \E e : EX("entry", e) \in locks[x] /\ Head(prog[x]).row = <<"entry", e>>
         /\ \A h \in locks[x] : h.row[1] \in {"entry", "topic", "emb"}
<1>1. PICK f \in LockEntries, t \in LockTopics, u \in LockTopics :
         \/ Stands(x, EX("entry", f), {})
         \/ /\ EX("entry", f) \in locks[x]
            /\ locks[x] \subseteq {EX("entry", f), NK("topic", t), EX("emb", f), NK("entry", f), KS("topic", u)}
            /\ Head(prog[x]) \in {NK("topic", t), EX("emb", f), NK("entry", f), KS("topic", u), NK("topic", u)}
  BY PatchStages
<1>2. CASE Stands(x, EX("entry", f), {})
  BY <1>2, RequestFacts DEF Stands, Wants
<1>3. CASE ~ Stands(x, EX("entry", f), {})
  <2>1. \A h \in locks[x] : h.row[1] \in {"entry", "topic", "emb"}
    BY <1>1, <1>3, RequestFacts
  <2> QED BY <1>1, <1>3, <2>1, RequestFacts DEF Wants
<1> QED BY <1>2, <1>3

LEMMA MoveTables ==
  ASSUME LocksInv, NEW x \in Txns, prog[x] # << >>, kind[x] = "move"
  PROVE  /\ Wants(x, "entry") \/ Wants(x, "topic")
         /\ Head(prog[x]).mode # "ex"
         /\ \A h \in locks[x] : h.row[1] = "entry" \/ (h.row[1] = "topic" /\ h.mode = "ks")
<1>1. PICK p \in Programs[kind[x]] : At(p, Head(prog[x]), locks[x])
  BY Waiting
<1>2. PICK s \in Orders(LockEntries), t \in LockTopics : p = MoveProg(s, t)
  BY <1>1, KindNames
<1>3. \/ Head(prog[x]) \in SomeEntries \cup {KS("topic", t)} /\ locks[x] \subseteq SomeEntries
      \/ Head(prog[x]) = NK("topic", t) /\ locks[x] \subseteq SomeEntries \cup {KS("topic", t)}
  <2>1. s \in Seq(LockEntries) /\ LockEntries \in SUBSET LockEntries
    BY OrdersTyped
  <2> QED BY <1>1, <1>2, <2>1, MoveParts DEF SomeEntries
<1>4. \A r \in SomeEntries : r.row[1] = "entry" /\ r.mode = "nk"
  BY RowsFacts DEF SomeEntries
<1>5. \A h \in locks[x] : h \in SomeEntries \/ h = KS("topic", t)
  BY <1>3
<1> QED BY <1>3, <1>4, <1>5, RequestFacts DEF Wants

LEMMA MergeTables ==
  ASSUME LocksInv, NEW x \in Txns, prog[x] # << >>, kind[x] = "merge"
  PROVE  /\ Wants(x, "conv") \/ Wants(x, "entry") \/ Wants(x, "topic")
         /\ Wants(x, "conv") => \A h \in locks[x] : h.row[1] = "conv"
         /\ \A h \in locks[x] : /\ h.row[1] \in {"conv", "entry", "topic"}
                                /\ h.row[1] = "topic" /\ h.mode # "ks" =>
                                     Wants(x, "topic") /\ Head(prog[x]).mode = "nk"
<1>1. PICK p \in Programs["merge"] : At(p, Head(prog[x]), locks[x])
  BY Waiting
<1>2. PICK cs \in Orders(LockConvs), s \in Orders(LockEntries), t \in LockTopics, u \in LockTopics :
        p = MergeProg(cs, s, t, u)
  BY MergeProgs
<1> DEFINE C == RowsOf("conv", "ex", LockConvs)
<1>3. \/ Head(prog[x]) \in C /\ locks[x] \subseteq C
      \/ /\ Head(prog[x]) \in SomeEntries \cup {KS("topic", u), EX("topic", t)}
         /\ locks[x] \subseteq C \cup SomeEntries \cup {KS("topic", u)}
      \/ /\ Head(prog[x]) = NK("topic", u)
         /\ locks[x] \subseteq C \cup SomeEntries \cup {KS("topic", u), EX("topic", t)}
  BY <1>1, <1>2, MergeParts
<1>4. (\A r \in C : r.row[1] = "conv") /\ (\A r \in SomeEntries : r.row[1] = "entry")
  BY RowsFacts DEF SomeEntries
<1> HIDE DEF C
<1>5. CASE Head(prog[x]) \in C /\ locks[x] \subseteq C
  <2>1. \A h \in locks[x] : h.row[1] = "conv"
    BY <1>4, <1>5
  <2> QED BY <1>4, <1>5, <2>1 DEF Wants
<1>6. CASE /\ Head(prog[x]) \in SomeEntries \cup {KS("topic", u), EX("topic", t)}
           /\ locks[x] \subseteq C \cup SomeEntries \cup {KS("topic", u)}
  <2>1. \A h \in locks[x] : h \in C \/ h \in SomeEntries \/ h = KS("topic", u)
    BY <1>6
  <2>2. \A h \in locks[x] : h.row[1] \in {"conv", "entry"} \/ (h.row[1] = "topic" /\ h.mode = "ks")
    BY <1>4, <2>1, RequestFacts
  <2>3. Wants(x, "entry") \/ Wants(x, "topic")
    BY <1>4, <1>6, RequestFacts DEF Wants
  <2> QED BY <2>2, <2>3 DEF Wants
<1>7. CASE /\ Head(prog[x]) = NK("topic", u)
           /\ locks[x] \subseteq C \cup SomeEntries \cup {KS("topic", u), EX("topic", t)}
  <2>1. \A h \in locks[x] : h \in C \/ h \in SomeEntries \/ h = KS("topic", u) \/ h = EX("topic", t)
    BY <1>7
  <2>2. \A h \in locks[x] : h.row[1] \in {"conv", "entry", "topic"}
    BY <1>4, <2>1, RequestFacts
  <2>3. Wants(x, "topic") /\ Head(prog[x]).mode = "nk"
    BY <1>7, RequestFacts DEF Wants
  <2> QED BY <2>2, <2>3 DEF Wants
<1> QED BY <1>3, <1>5, <1>6, <1>7

LEMMA ResetTables ==
  ASSUME LocksInv, NEW x \in Txns, prog[x] # << >>, kind[x] = "reset"
  PROVE  Wants(x, "entry") /\ \A h \in locks[x] : h.row[1] = "entry"
<1>1. PICK p \in Programs[kind[x]] : At(p, Head(prog[x]), locks[x])
  BY Waiting
<1>2. PICK s \in Orders(LockEntries) : p = Each("entry", "nk", s)
  BY <1>1, KindNames DEF ResetProg
<1>3. Head(prog[x]) \in SomeEntries /\ locks[x] \subseteq SomeEntries
  <2>1. s \in Seq(LockEntries)
    BY OrdersTyped
  <2> QED BY <1>1, <1>2, <2>1, RowsTyped, AtEach DEF SomeEntries
<1>4. \A r \in SomeEntries : r.row[1] = "entry"
  BY RowsFacts DEF SomeEntries
<1> QED BY <1>3, <1>4 DEF Wants

(* A rotation has rows of one table, with lower ids than the next one.     *)
LEMMA RotateTables ==
  ASSUME LocksInv, NEW x \in Txns, prog[x] # << >>, kind[x] = "rotate"
  PROVE  \E tab \in {"entry", "message", "conv"} : \E i \in Nat :
           /\ Head(prog[x]).row = <<tab, i>>
           /\ \A h \in locks[x] : \E j \in Nat : h.row = <<tab, j>> /\ j < i
<1>1. PICK p \in Programs[kind[x]] : At(p, Head(prog[x]), locks[x])
  BY Waiting
<1>2. /\ LockEntries \subseteq Nat /\ LockConvs \subseteq Nat /\ Messages \subseteq Nat
  BY LocksAssumption DEF Messages
<1>3. ASSUME NEW tab, NEW S \in SUBSET Nat, p \in RotateProgs(tab, S)
      PROVE  \E i \in Nat : /\ Head(prog[x]).row = <<tab, i>>
                            /\ \A h \in locks[x] : \E j \in Nat : h.row = <<tab, j>> /\ j < i
  <2>1. PICK ids \in Ascending(S) : p = Each(tab, "nk", ids)
    BY <1>3 DEF RotateProgs
  <2>2. NextById(tab, S, Head(prog[x]), locks[x])
    BY <1>1, <2>1, AtAscending
  <2>3. PICK i \in S : /\ Head(prog[x]) = NK(tab, i)
                       /\ \A h \in locks[x] : \E j \in S : h = NK(tab, j) /\ j < i
    BY <2>2 DEF NextById
  <2>4. ASSUME NEW h \in locks[x] PROVE \E j \in Nat : h.row = <<tab, j>> /\ j < i
    <3>1. PICK j \in S : h = NK(tab, j) /\ j < i
      BY <2>3
    <3> QED BY <3>1, RequestFacts
  <2> QED BY <2>3, <2>4, RequestFacts
<1>4. \/ p \in RotateProgs("entry", LockEntries) \/ p \in RotateProgs("message", Messages)
      \/ p \in RotateProgs("conv", LockConvs)
  BY <1>1, KindNames
<1> QED BY <1>2, <1>3, <1>4

(* A vector's row is taken under the lock of its entry.                    *)
LEMMA VectorUnderEntry ==
  ASSUME LocksInv, NEW x \in Txns, prog[x] # << >>, kind[x] \in {"update", "delete", "patch"}, NEW e,
         Head(prog[x]).row = <<"emb", e>> \/ \E h \in locks[x] : h.row = <<"emb", e>>
  PROVE  HasEntry(x, e)
<1>1. CASE kind[x] = "update"
  <2>1. PICK f \in LockEntries, t \in LockTopics :
           \/ Stands(x, EX("entry", f), {})
           \/ Stands(x, NK("topic", t), {EX("entry", f)})
           \/ Stands(x, EX("emb", f), {EX("entry", f), NK("topic", t)})
    BY <1>1, UpdateStages
  <2>2. CASE Stands(x, EX("entry", f), {})
    BY <2>2, RequestFacts DEF Stands
  <2>3. CASE Stands(x, NK("topic", t), {EX("entry", f)})
    BY <2>3, RequestFacts DEF Stands
  <2>4. CASE Stands(x, EX("emb", f), {EX("entry", f), NK("topic", t)})
    BY <2>4, RequestFacts DEF Stands, HasEntry
  <2> QED BY <2>1, <2>2, <2>3, <2>4
<1>2. CASE kind[x] = "delete"
  <2>1. PICK f \in LockEntries, t \in LockTopics :
           \/ Stands(x, NK("entry", f), {})
           \/ Stands(x, EX("emb", f), {NK("entry", f)})
           \/ Stands(x, NK("topic", t), {NK("entry", f), EX("emb", f)})
           \/ Stands(x, NK("topic", t), {NK("entry", f)})
           \/ Stands(x, EX("emb", f), {NK("entry", f), NK("topic", t)})
    BY <1>2, DeleteStages
  <2>2. CASE Stands(x, NK("entry", f), {})
    BY <2>2, RequestFacts DEF Stands
  <2>3. CASE Stands(x, EX("emb", f), {NK("entry", f)})
    BY <2>3, RequestFacts DEF Stands, HasEntry
  <2>4. CASE Stands(x, NK("topic", t), {NK("entry", f), EX("emb", f)})
    BY <2>4, RequestFacts DEF Stands, HasEntry
  <2>5. CASE Stands(x, NK("topic", t), {NK("entry", f)})
    BY <2>5, RequestFacts DEF Stands
  <2>6. CASE Stands(x, EX("emb", f), {NK("entry", f), NK("topic", t)})
    BY <2>6, RequestFacts DEF Stands, HasEntry
  <2> QED BY <2>1, <2>2, <2>3, <2>4, <2>5, <2>6
<1>3. CASE kind[x] = "patch"
  <2>1. PICK f \in LockEntries, t \in LockTopics, u \in LockTopics :
           \/ Stands(x, EX("entry", f), {})
           \/ /\ EX("entry", f) \in locks[x]
              /\ locks[x] \subseteq {EX("entry", f), NK("topic", t), EX("emb", f), NK("entry", f), KS("topic", u)}
              /\ Head(prog[x]) \in {NK("topic", t), EX("emb", f), NK("entry", f), KS("topic", u), NK("topic", u)}
    BY <1>3, PatchStages
  <2>2. CASE Stands(x, EX("entry", f), {})
    BY <2>2, RequestFacts DEF Stands
  <2>3. ASSUME EX("entry", f) \in locks[x] PROVE HasEntry(x, f)
    BY <2>3, RequestFacts DEF HasEntry
  <2>4. ASSUME ~ Stands(x, EX("entry", f), {}) PROVE e = f
    BY <2>1, <2>4, RequestFacts
  <2> QED BY <2>1, <2>2, <2>3, <2>4
<1> QED BY <1>1, <1>2, <1>3

(* Whoever waits with a row of its own is a transaction of these kinds.    *)
LEMMA KindsWithRows ==
  ASSUME LocksInv, NEW x \in Txns, prog[x] # << >>, locks[x] # {}
  PROVE  kind[x] \in {"update", "delete", "move", "patch", "reembed", "save", "first", "persist",
                      "merge", "reset", "rotate"}
<1>1. kind[x] \in Kinds \ {"claim"}
  BY Waiting
<1>2. kind[x] \notin {"append", "rename", "single"}
  BY SingleTables
<1> QED BY <1>1, <1>2 DEF Kinds

LEMMA WantsVector ==
  ASSUME LocksInv, NEW x \in Txns, prog[x] # << >>, Wants(x, "emb"), locks[x] # {}
  PROVE  kind[x] \in {"update", "delete", "patch"}
<1>1. kind[x] # "move" /\ kind[x] # "merge"
  BY MoveTables, MergeTables DEF Wants
<1>2. kind[x] # "save" /\ kind[x] # "persist" /\ kind[x] # "first"
  BY SaveTables, PersistTables, FirstTables DEF Wants
<1>3. kind[x] # "reembed" /\ kind[x] # "reset"
  BY ReembedTables, ResetTables DEF Wants
<1>4. kind[x] # "rotate"
  BY RotateTables DEF Wants
<1> QED BY <1>1, <1>2, <1>3, <1>4, KindsWithRows

LEMMA WantsWholeTopic ==
  ASSUME LocksInv, NEW x \in Txns, prog[x] # << >>, Wants(x, "topic"), Head(prog[x]).mode = "ex",
         locks[x] # {}
  PROVE  kind[x] = "merge"
<1>1. kind[x] # "update" /\ kind[x] # "delete"
  BY UpdateTables, DeleteTables
<1>2. kind[x] # "save" /\ kind[x] # "persist" /\ kind[x] # "first"
  BY SaveTables, PersistTables, FirstTables
<1>3. kind[x] # "move" /\ kind[x] # "reembed" /\ kind[x] # "patch"
  BY MoveTables, ReembedTables, PatchTables DEF Wants
<1>4. kind[x] # "reset" /\ kind[x] # "rotate"
  BY ResetTables, RotateTables DEF Wants
<1> QED BY <1>1, <1>2, <1>3, <1>4, KindsWithRows

LEMMA HasConversation ==
  ASSUME LocksInv, NEW x \in Txns, prog[x] # << >>, HasSome(x, "conv")
  PROVE  kind[x] \in {"save", "merge", "rotate"}
<1>1. locks[x] # {}
  BY DEF HasSome
<1>2. kind[x] # "update" /\ kind[x] # "delete" /\ kind[x] # "patch"
  BY UpdateTables, DeleteTables, PatchTables DEF HasSome
<1>3. kind[x] # "persist" /\ kind[x] # "reembed"
  BY PersistTables, ReembedTables DEF HasSome
<1>4. kind[x] # "move" /\ kind[x] # "first" /\ kind[x] # "reset"
  BY <1>1, MoveTables, FirstTables, ResetTables DEF HasSome
<1> QED BY <1>1, <1>2, <1>3, <1>4, KindsWithRows

LEMMA BlockFacts ==
  ASSUME LocksInv, NEW x \in Txns, NEW y \in Txns, Blocks(y, x)
  PROVE  /\ x # y /\ prog[x] # << >> /\ locks[y] # {}
         /\ \E h \in locks[y] : h.row = Head(prog[x]).row /\ h.row[1] = Head(prog[x]).row[1]
                                  /\ ~Compatible(h.mode, Head(prog[x]).mode)
         /\ \A tab : Wants(x, tab) => HasSome(y, tab)
BY DEF Blocks, Refuses, Wants, HasSome

LEMMA DeadlockFacts ==
  ASSUME LocksInv, NEW x \in Txns, NEW y \in Txns, Deadlock(x, y)
  PROVE  /\ Blocks(y, x) /\ Blocks(x, y) /\ Deadlock(y, x)
         /\ prog[x] # << >> /\ prog[y] # << >> /\ locks[x] # {} /\ locks[y] # {}
<1>1. Blocks(y, x) /\ Blocks(x, y) /\ Deadlock(y, x)
  BY DEF Deadlock
<1> QED BY <1>1, BlockFacts

LEMMA BothShared == Compatible("ks", "nk") /\ Compatible("nk", "ks") /\ Compatible("ks", "ks")
BY DEF Compatible

LEMMA RequestModes ==
  ASSUME LocksInv, NEW x \in Txns, prog[x] # << >>
  PROVE  Head(prog[x]).mode \in {"ks", "nk", "ex"}
<1>1. prog[x] \in Seq(LockRequests) /\ Head(prog[x]) \in LockRequests
  <2>1. prog[x] \in Seq(LockRequests)
    BY DEF LocksInv
  <2> QED BY <2>1, HeadTailProperties
<1> QED BY <1>1 DEF LockRequests

(* The pairs, by the transaction that locks against the order.             *)
LEMMA ReembedPairs ==
  ASSUME LocksInv, NEW x \in Txns, NEW y \in Txns, Deadlock(x, y), kind[x] = "reembed"
  PROVE  kind[y] \in {"update", "delete", "patch"}
<1>1. \A h \in locks[x] : h.row[1] = "emb"
  BY DeadlockFacts, ReembedTables
<1>2. Wants(y, "emb")
  BY <1>1, DeadlockFacts, BlockFacts DEF Wants
<1> QED BY <1>2, DeadlockFacts, WantsVector

LEMMA PersistPairs ==
  ASSUME LocksInv, NEW x \in Txns, NEW y \in Txns, Deadlock(x, y), kind[x] = "persist"
  PROVE  kind[y] \in {"save", "merge"}
<1>0. prog[x] # << >> /\ prog[y] # << >> /\ locks[y] # {} /\ Blocks(x, y) /\ Blocks(y, x)
  BY DeadlockFacts
<1>1. CASE Wants(x, "topic") /\ \A h \in locks[x] : h.row[1] = "topic" /\ h.mode = "ks"
  <2>1. Wants(y, "topic") /\ ~ Compatible("ks", Head(prog[y]).mode)
    BY <1>0, <1>1, BlockFacts DEF Wants
  <2>2. Head(prog[y]).mode = "ex"
    BY <1>0, <2>1, BothShared, RequestModes
  <2> QED BY <1>0, <2>1, <2>2, WantsWholeTopic
<1>2. CASE Wants(x, "conv") /\ \A h \in locks[x] : h.row[1] = "topic"
  <2>1. HasSome(y, "conv") /\ Wants(y, "topic")
    BY <1>0, <1>2, BlockFacts DEF Wants
  <2>2. kind[y] # "rotate"
    BY <1>0, <2>1, RotateTables DEF Wants
  <2> QED BY <1>0, <2>1, <2>2, HasConversation
<1> QED BY <1>0, <1>1, <1>2, PersistTables

(* Of those that change an entry under its lock nobody waits for a vector. *)
LEMMA VectorsApart ==
  ASSUME LocksInv, NEW x \in Txns, NEW y \in Txns, Blocks(y, x), prog[y] # << >>,
         kind[x] \in {"update", "delete", "patch"}, kind[y] \in {"update", "delete", "patch"}
  PROVE  ~ Wants(x, "emb")
<1> SUFFICES ASSUME Wants(x, "emb") PROVE FALSE
  OBVIOUS
<1>1. x # y /\ prog[x] # << >>
  BY BlockFacts
<1>2. PICK e : Head(prog[x]).row = <<"emb", e>>
  BY <1>1, UpdateTables, DeleteTables, PatchTables
<1>3. \E h \in locks[y] : h.row = <<"emb", e>>
  BY <1>2, BlockFacts
<1>4. HasEntry(x, e) /\ HasEntry(y, e)
  BY <1>1, <1>2, <1>3, VectorUnderEntry
<1> QED BY <1>1, <1>4, OneEntryHolder

LEMMA PatchHasItsEntry ==
  ASSUME LocksInv, NEW x \in Txns, NEW y \in Txns, Blocks(y, x), locks[x] # {}, kind[x] = "patch"
  PROVE  ~ Wants(x, "entry")
<1> SUFFICES ASSUME Wants(x, "entry") PROVE FALSE
  OBVIOUS
<1>1. x # y /\ prog[x] # << >>
  BY BlockFacts
<1>2. PICK e : EX("entry", e) \in locks[x] /\ Head(prog[x]).row = <<"entry", e>>
  BY <1>1, PatchTables
<1>3. PICK h \in locks[y] : h.row = <<"entry", e>>
  BY <1>2, BlockFacts
<1>4. EX("entry", e).row = <<"entry", e>> /\ EX("entry", e).mode = "ex"
  BY RequestFacts
<1>5. Compatible(EX("entry", e).mode, h.mode)
  BY <1>1, <1>2, <1>3, <1>4 DEF LocksInv, HeldCompatibly
<1> QED BY <1>4, <1>5 DEF Compatible

LEMMA PatchPairs ==
  ASSUME LocksInv, NEW x \in Txns, NEW y \in Txns, Deadlock(x, y), kind[x] = "patch"
  PROVE  kind[y] \notin {"update", "delete", "save", "first", "move", "reset", "rotate"}
<1>1. prog[x] # << >> /\ prog[y] # << >> /\ locks[x] # {} /\ locks[y] # {} /\ Blocks(x, y) /\ Blocks(y, x)
  BY DeadlockFacts
<1>2. ~ Wants(x, "entry")
  BY <1>1, PatchHasItsEntry
<1>3. ASSUME kind[y] \in {"update", "delete"} PROVE FALSE
  <2>1. ~ Wants(x, "emb") /\ ~ Wants(y, "emb")
    BY <1>1, <1>3, VectorsApart
  <2>2. Wants(x, "topic")
    BY <1>1, <1>2, <2>1, PatchTables
  <2>3. HasSome(y, "topic")
    BY <1>1, <2>2, BlockFacts
  <2> QED BY <1>1, <1>3, <2>1, <2>3, UpdateTables, DeleteTables
<1>4. PICK h \in locks[y] :
        h.row[1] = Head(prog[x]).row[1] /\ ~ Compatible(h.mode, Head(prog[x]).mode)
  BY <1>1, BlockFacts
<1>5. h.row[1] \in {"topic", "emb"}
  BY <1>1, <1>2, <1>4, PatchTables DEF Wants
<1>6. kind[y] # "save" /\ kind[y] # "reset"
  BY <1>1, <1>5, SaveTables, ResetTables
<1>7. kind[y] # "rotate"
  BY <1>1, <1>5, RotateTables
<1>8. ASSUME h.row[1] = "topic", h.mode = "ks" PROVE FALSE
  <2>1. Head(prog[x]).mode \in {"ks", "nk"}
    BY <1>1, <1>4, <1>8, PatchTables, RequestModes DEF Wants
  <2> QED BY <1>4, <1>8, <2>1, BothShared
<1>9. kind[y] # "move" /\ kind[y] # "first"
  BY <1>1, <1>5, <1>8, MoveTables, FirstTables
<1> QED BY <1>3, <1>6, <1>7, <1>9

LEMMA MovePairs ==
  ASSUME LocksInv, NEW x \in Txns, NEW y \in Txns, Deadlock(x, y), kind[x] = "move"
  PROVE  kind[y] \notin {"update", "delete", "save", "first"}
<1>1. prog[x] # << >> /\ prog[y] # << >> /\ locks[x] # {} /\ locks[y] # {} /\ Blocks(x, y) /\ Blocks(y, x)
  BY DeadlockFacts
<1>2. PICK h \in locks[x] :
        h.row[1] = Head(prog[y]).row[1] /\ ~ Compatible(h.mode, Head(prog[y]).mode)
  BY <1>1, BlockFacts
<1>3. h.row[1] = "entry" \/ (h.row[1] = "topic" /\ h.mode = "ks")
  BY <1>1, MoveTables
<1>4. Wants(y, "entry") \/ (Wants(y, "topic") /\ Head(prog[y]).mode # "nk")
  BY <1>2, <1>3, BothShared DEF Wants
<1>5. kind[y] \notin {"update", "delete", "first"}
  BY <1>1, <1>4, UpdateTables, DeleteTables, FirstTables DEF Wants
<1>6. kind[y] # "save"
  <2> SUFFICES ASSUME kind[y] = "save" PROVE FALSE
    OBVIOUS
  <2>1. Wants(y, "entry") /\ ~ HasSome(y, "entry")
    BY <1>1, <1>4, SaveTables
  <2>2. ~ HasSome(y, "topic")
    BY <1>1, SaveTables DEF HasSome
  <2> QED BY <1>1, <2>1, <2>2, MoveTables, BlockFacts
<1> QED BY <1>5, <1>6

LEMMA MergePairs ==
  ASSUME LocksInv, NEW x \in Txns, NEW y \in Txns, Deadlock(x, y), kind[x] = "merge"
  PROVE  kind[y] \notin {"update", "delete", "save", "first"}
<1>1. prog[x] # << >> /\ prog[y] # << >> /\ locks[x] # {} /\ locks[y] # {} /\ Blocks(x, y) /\ Blocks(y, x)
  BY DeadlockFacts
<1>2. PICK h \in locks[x] :
        h.row[1] = Head(prog[y]).row[1] /\ ~ Compatible(h.mode, Head(prog[y]).mode)
  BY <1>1, BlockFacts
<1>3. Wants(y, "conv") \/ Wants(y, "entry") \/ Wants(y, "topic")
  BY <1>1, <1>2, MergeTables DEF Wants
\* One that wants to write a topic that the merge has is waited for over a topic.
<1>4. ASSUME Wants(y, "topic"), Head(prog[y]).mode = "nk"
      PROVE  /\ HasSome(y, "topic")
             /\ \E g \in locks[y] : g.row[1] = "topic" /\ g.mode # "ks"
  <2>1. h.row[1] = "topic" /\ h.mode # "ks"
    BY <1>2, <1>4, BothShared DEF Wants
  <2>2. Wants(x, "topic") /\ Head(prog[x]).mode = "nk"
    BY <1>1, <2>1, MergeTables
  <2>3. PICK g \in locks[y] :
          g.row[1] = Head(prog[x]).row[1] /\ ~ Compatible(g.mode, Head(prog[x]).mode)
    BY <1>1, BlockFacts
  <2> QED BY <2>2, <2>3, BothShared DEF Wants, HasSome
<1>5. kind[y] \notin {"update", "delete"}
  BY <1>1, <1>3, <1>4, UpdateTables, DeleteTables DEF Wants
<1>6. kind[y] # "first"
  BY <1>1, <1>4, FirstTables
<1>7. kind[y] # "save"
  <2> SUFFICES ASSUME kind[y] = "save" PROVE FALSE
    OBVIOUS
  <2>1. ~ HasSome(y, "topic")
    BY <1>1, SaveTables DEF HasSome
  <2>2. Wants(y, "entry") /\ ~ HasSome(y, "entry")
    BY <1>1, <1>3, <1>4, <2>1, SaveTables DEF Wants
  <2>3. Wants(x, "conv")
    BY <1>1, <2>1, <2>2, MergeTables, BlockFacts
  <2> QED BY <1>1, <1>2, <2>2, <2>3, MergeTables DEF Wants
<1> QED BY <1>5, <1>6, <1>7

LEMMA ResetPairs ==
  ASSUME LocksInv, NEW x \in Txns, NEW y \in Txns, Deadlock(x, y), kind[x] = "reset"
  PROVE  kind[y] \notin {"update", "delete", "save", "first"}
<1>1. prog[x] # << >> /\ prog[y] # << >> /\ locks[x] # {} /\ locks[y] # {} /\ Blocks(x, y) /\ Blocks(y, x)
  BY DeadlockFacts
<1>2. Wants(y, "entry") /\ HasSome(y, "entry")
  BY <1>1, ResetTables, BlockFacts DEF Wants
<1> QED BY <1>1, <1>2, UpdateTables, DeleteTables, SaveTables, FirstTables DEF Wants

(* Two rotations lock rows of a table in the order of the ids.             *)
LEMMA RotatePairs ==
  ASSUME LocksInv, NEW x \in Txns, NEW y \in Txns, Deadlock(x, y), kind[x] = "rotate"
  PROVE  kind[y] \notin {"update", "delete", "first", "rotate"}
<1>1. prog[x] # << >> /\ prog[y] # << >> /\ locks[x] # {} /\ locks[y] # {} /\ Blocks(x, y) /\ Blocks(y, x)
  BY DeadlockFacts
<1>2. PICK tab \in {"entry", "message", "conv"}, i \in Nat :
        /\ Head(prog[x]).row = <<tab, i>>
        /\ \A h \in locks[x] : \E j \in Nat : h.row = <<tab, j>> /\ j < i
  BY <1>1, RotateTables
<1>3. PICK h \in locks[x] : h.row = Head(prog[y]).row
  BY <1>1, BlockFacts
<1>4. PICK j \in Nat : Head(prog[y]).row = <<tab, j>> /\ j < i
  BY <1>2, <1>3
<1>5. kind[y] \notin {"update", "delete", "first"}
  BY <1>1, <1>4, UpdateTables, DeleteTables, FirstTables DEF Wants
<1>6. kind[y] # "rotate"
  <2> SUFFICES ASSUME kind[y] = "rotate" PROVE FALSE
    OBVIOUS
  <2>1. PICK k \in Nat, other \in {"entry", "message", "conv"} :
          /\ Head(prog[y]).row = <<other, k>>
          /\ \A g \in locks[y] : \E l \in Nat : g.row = <<other, l>> /\ l < k
    BY <1>1, RotateTables
  <2>2. PICK g \in locks[y] : g.row = <<tab, i>>
    BY <1>1, <1>2, BlockFacts
  <2>3. PICK l \in Nat : g.row = <<other, l>> /\ l < k
    BY <2>1
  <2>4. k = j /\ l = i
    BY <1>4, <2>1, <2>2, <2>3
  <2> QED BY <1>4, <2>3, <2>4
<1> QED BY <1>5, <1>6

(* Every other wait is for a row further on in the order.                  *)
LEMMA PlaceNumbers ==
  ASSUME NEW r
  PROVE  /\ r.row[1] = "conv" => Place(r) = 1
         /\ r.row[1] = "message" => Place(r) = 2
         /\ r.row[1] = "entry" => Place(r) = 3
         /\ r.row[1] = "topic" => Place(r) = 4
         /\ r.row[1] = "emb" => Place(r) = 5
BY DEF Place, Places

(* Two saves do not wait for each other's messages: those hang under one   *)
(* conversation, and a save has the row of its conversation by then.       *)
LEMMA SavesApart ==
  ASSUME LocksInv, NEW x \in Txns, NEW y \in Txns, Blocks(y, x), prog[y] # << >>,
         locks[x] # {}, kind[x] = "save", kind[y] = "save"
  PROVE  ~ Wants(x, "message")
<1> SUFFICES ASSUME Wants(x, "message") PROVE FALSE
  OBVIOUS
<1>1. prog[x] # << >> /\ x # y /\ locks[y] # {}
  BY BlockFacts
<1>2. PICK c \in LockConvs, e \in LockEntries, t \in LockTopics :
        /\ NK("conv", c) \in locks[x]
        /\ Head(prog[x]) \in RowsOf("message", "ex", Thread[c]) \cup {NK("entry", e), NK("topic", t)}
  BY <1>1, SaveStages
<1>3. PICK m \in Thread[c] : Head(prog[x]).row = <<"message", m>>
  <2>1. Head(prog[x]) \in RowsOf("message", "ex", Thread[c])
    BY <1>2, RequestFacts DEF Wants
  <2> QED BY <2>1, RowsFacts
<1>4. PICK d \in LockConvs, f \in LockEntries :
        /\ NK("conv", d) \in locks[y]
        /\ locks[y] \subseteq RowsOf("message", "ex", Thread[d]) \cup {NK("conv", d), NK("entry", f)}
  BY <1>1, SaveStages
<1>5. PICK h \in locks[y] : h.row = <<"message", m>>
  BY <1>3, BlockFacts
<1>6. m \in Thread[d]
  <2>1. h \in RowsOf("message", "ex", Thread[d])
    BY <1>4, <1>5, RequestFacts
  <2> QED BY <1>5, <2>1, RowsFacts
<1>7. c = d
  BY <1>3, <1>6, LocksAssumption
<1>8. Compatible(NK("conv", c).mode, NK("conv", c).mode)
  BY <1>1, <1>2, <1>4, <1>7 DEF LocksInv, HeldCompatibly
<1> QED BY <1>8, RequestFacts DEF Compatible

LEMMA OrderedWaits ==
  ASSUME LocksInv, NEW x \in Txns, NEW y \in Txns, Blocks(y, x), locks[x] # {}, prog[y] # << >>,
         {kind[x], kind[y]} \cap AgainstTheOrder = {}
  PROVE  /\ Place(Head(prog[x])) < Place(Head(prog[y]))
         /\ Place(Head(prog[x])) \in 1 .. 5 /\ Place(Head(prog[y])) \in 1 .. 5
<1>1. prog[x] # << >> /\ locks[y] # {} /\ x # y
  BY BlockFacts
<1>2. kind[x] \in {"update", "delete", "save", "first"} /\ kind[y] \in {"update", "delete", "save", "first"}
  <2>1. kind[x] \notin AgainstTheOrder /\ kind[y] \notin AgainstTheOrder
    OBVIOUS
  <2> QED BY <1>1, <2>1, KindsWithRows DEF AgainstTheOrder
<1>3. /\ Wants(x, "message") \/ Wants(x, "entry") \/ Wants(x, "topic") \/ Wants(x, "emb")
      /\ Wants(x, "topic") => Head(prog[x]).mode = "nk"
      /\ Wants(x, "message") \/ Wants(x, "entry") => kind[x] = "save"
  BY <1>1, <1>2, UpdateTables, DeleteTables, SaveTables, FirstTables DEF Wants
<1>4. ~ Wants(x, "emb")
  <2> SUFFICES ASSUME Wants(x, "emb") PROVE FALSE
    OBVIOUS
  <2>1. kind[x] \in {"update", "delete"}
    BY <1>1, <1>2, SaveTables, FirstTables DEF Wants
  <2>2. kind[y] # "save" /\ kind[y] # "first"
    BY <1>1, SaveTables, FirstTables, BlockFacts DEF HasSome
  <2> QED BY <1>2, <2>1, <2>2, VectorsApart
<1>5. kind[y] # "first"
  <2> SUFFICES ASSUME kind[y] = "first" PROVE FALSE
    OBVIOUS
  <2>1. PICK h \in locks[y] :
          h.row[1] = Head(prog[x]).row[1] /\ ~ Compatible(h.mode, Head(prog[x]).mode)
    BY BlockFacts
  <2>2. h.row[1] = "topic" /\ h.mode = "ks"
    BY <1>1, FirstTables
  <2> QED BY <1>3, <2>1, <2>2, BothShared DEF Wants
<1>6. CASE kind[y] \in {"update", "delete"}
  <2>1. /\ Wants(y, "topic") \/ Wants(y, "emb")
        /\ ~ HasSome(y, "message") /\ (HasSome(y, "topic") => Wants(y, "emb"))
    BY <1>1, <1>6, UpdateTables, DeleteTables DEF HasSome
  <2> QED BY <1>3, <1>4, <2>1, BlockFacts, PlaceNumbers DEF Wants
<1>7. CASE kind[y] = "save"
  <2>1. /\ Wants(y, "message") \/ Wants(y, "entry") \/ Wants(y, "topic")
        /\ Wants(y, "entry") \/ Wants(y, "message") => ~ HasSome(y, "entry")
        /\ ~ HasSome(y, "topic")
    BY <1>1, <1>7, SaveTables DEF HasSome
  <2>2. ~ Wants(x, "message")
    BY <1>3, <1>7, SavesApart
  <2> QED BY <1>3, <1>4, <2>1, <2>2, BlockFacts, PlaceNumbers DEF Wants
<1> QED BY <1>2, <1>5, <1>6, <1>7

LEMMA AgainstTheOrderOnce ==
  ASSUME LocksInv, NEW x \in Txns, NEW y \in Txns, Deadlock(x, y)
  PROVE  kind[x] \in AgainstTheOrder \/ kind[y] \in AgainstTheOrder
<1> SUFFICES ASSUME kind[x] \notin AgainstTheOrder, kind[y] \notin AgainstTheOrder PROVE FALSE
  OBVIOUS
<1>1. /\ prog[x] # << >> /\ prog[y] # << >> /\ Blocks(x, y) /\ Blocks(y, x)
      /\ locks[x] # {} /\ locks[y] # {}
  BY DeadlockFacts
<1>2. {kind[x], kind[y]} \cap AgainstTheOrder = {} /\ {kind[y], kind[x]} \cap AgainstTheOrder = {}
  OBVIOUS
<1>3. /\ Place(Head(prog[x])) < Place(Head(prog[y]))
      /\ Place(Head(prog[x])) \in 1 .. 5 /\ Place(Head(prog[y])) \in 1 .. 5
  BY <1>1, <1>2, OrderedWaits
<1>4. Place(Head(prog[y])) < Place(Head(prog[x]))
  BY <1>1, <1>2, OrderedWaits
<1> QED BY <1>3, <1>4

LEMMA DeadlockPairs ==
  ASSUME LocksInv, NEW x \in Txns, NEW y \in Txns, Deadlock(x, y), kind[x] \in AgainstTheOrder
  PROVE  {kind[x], kind[y]} \in KnownDeadlocks
<1>1. Deadlock(y, x) /\ prog[x] # << >> /\ prog[y] # << >> /\ locks[x] # {} /\ locks[y] # {}
  BY DeadlockFacts
<1>2. kind[y] \in {"update", "delete", "move", "patch", "reembed", "save", "first", "persist",
                   "merge", "reset", "rotate"}
  BY <1>1, KindsWithRows
<1>3. kind[y] = "reembed" => kind[x] \in {"update", "delete", "patch"}
  BY <1>1, ReembedPairs
<1>4. kind[y] = "persist" => kind[x] \in {"save", "merge"}
  BY <1>1, PersistPairs
<1>5. kind[y] = "patch" => kind[x] \notin {"move", "reset", "rotate"}
  BY <1>1, PatchPairs
<1>6. CASE kind[x] = "reembed"
  BY <1>6, ReembedPairs DEF KnownDeadlocks
<1>7. CASE kind[x] = "persist"
  BY <1>7, PersistPairs DEF KnownDeadlocks
<1>8. CASE kind[x] = "patch"
  <2>1. kind[y] \in {"patch", "reembed", "merge"}
    BY <1>2, <1>4, <1>8, PatchPairs
  <2> QED BY <1>8, <2>1 DEF KnownDeadlocks
<1>9. CASE kind[x] = "move"
  <2>1. kind[y] \in {"move", "merge", "reset", "rotate"}
    BY <1>2, <1>3, <1>4, <1>5, <1>9, MovePairs
  <2> QED BY <1>9, <2>1 DEF KnownDeadlocks
<1>10. CASE kind[x] = "merge"
  <2>1. kind[y] \in {"move", "patch", "persist", "merge", "reset", "rotate"}
    BY <1>2, <1>3, <1>10, MergePairs
  <2> QED BY <1>10, <2>1 DEF KnownDeadlocks
<1>11. CASE kind[x] = "reset"
  <2>1. kind[y] \in {"move", "merge", "reset", "rotate"}
    BY <1>2, <1>3, <1>4, <1>5, <1>11, ResetPairs
  <2> QED BY <1>11, <2>1 DEF KnownDeadlocks
<1>12. CASE kind[x] = "rotate"
  <2>1. kind[y] \in {"move", "save", "merge", "reset"}
    BY <1>2, <1>3, <1>4, <1>5, <1>12, RotatePairs
  <2> QED BY <1>12, <2>1 DEF KnownDeadlocks
<1> QED BY <1>6, <1>7, <1>8, <1>9, <1>10, <1>11, <1>12 DEF AgainstTheOrder

LEMMA DeadlocksFollow == LocksInv => DeadlocksKnown
<1> SUFFICES ASSUME LocksInv, NEW x \in Txns, NEW y \in Txns
             PROVE  /\ Deadlock(x, y) => {kind[x], kind[y]} \in KnownDeadlocks
                    /\ /\ Blocks(y, x) /\ locks[x] # {} /\ prog[y] # << >>
                       /\ {kind[x], kind[y]} \cap AgainstTheOrder = {}
                       => Place(Head(prog[x])) < Place(Head(prog[y]))
  BY DEF DeadlocksKnown
<1>1. ASSUME Deadlock(x, y) PROVE {kind[x], kind[y]} \in KnownDeadlocks
  <2>1. CASE kind[x] \in AgainstTheOrder
    BY <1>1, <2>1, DeadlockPairs
  <2>2. CASE kind[y] \in AgainstTheOrder
    <3>1. {kind[y], kind[x]} \in KnownDeadlocks
      BY <1>1, <2>2, DeadlockFacts, DeadlockPairs
    <3>2. {kind[y], kind[x]} = {kind[x], kind[y]}
      OBVIOUS
    <3> QED BY <3>1, <3>2
  <2> QED BY <1>1, <2>1, <2>2, AgainstTheOrderOnce
<1> QED BY <1>1, OrderedWaits

(* Whatever the number of transactions, topics, conversations and entries, *)
(* two of the listed write transactions deadlock only in the named pairs,  *)
(* and among those that lock in the order of conversation, message, entry, *)
(* topic and vector every wait of a holder is for a row further on: the    *)
(* lock order of the repositories' write functions, of the index resets    *)
(* and of the key rotation.                                                *)
THEOREM DeadlocksAreKnown == LocksSpec => []DeadlocksKnown
<1>1. LocksSpec => []LocksInv
  BY LocksInvariant
<1>2. LocksInv => DeadlocksKnown
  BY DeadlocksFollow
<1> QED BY <1>1, <1>2, PTL
=============================================================================
