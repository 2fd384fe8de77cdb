---------------------------- MODULE EventStreams ----------------------------
(***************************************************************************)
(* The cap on a user's open event streams (api/v1/extraction.py): a        *)
(* counter in Redis that each request increments, renews for an hour and   *)
(* decrements on its way out.  INCR and DECR of a key that is not there    *)
(* start from 0 and set no time to live.                                   *)
(***************************************************************************)
EXTENDS Integers, FiniteSets

CONSTANTS Streams,   \* requests of one user at a time
          Cap,       \* SSE_PER_USER_CAP
          KeyTtl,    \* the EXPIRE, in ticks
          LastHour,  \* bound: the clock stops there
          LastMissed  \* bound: decrements missed in a row

ASSUME StreamsAssumption ==
  Cap \in Nat \ {0} /\ KeyTtl \in Nat /\ LastHour \in Nat /\ LastMissed \in Nat /\ IsFiniteSet(Streams)

VARIABLES
  hour,     \* the clock
  counter,  \* the value of the key, 0 if there is none
  expiry,   \* when the key expires; NoExpiry: it has no time to live; NoKey: there is none
  stream,   \* the requests
  missed,   \* decrements that were never made (history)
  forgotten \* streams that were counted when the key expired (history)

streamsVars == <<hour, counter, expiry, stream, missed, forgotten>>
streamHistory == <<missed, forgotten>>

---------------------------------------------------------------------------
Hours == 0..LastHour
NoExpiry == LastHour + KeyTtl + 1
NoKey == NoExpiry + 1
Stream == [pc : {"idle", "counted", "timed", "ready", "open"}, over : BOOLEAN]
noStream == [pc |-> "idle", over |-> FALSE]

StreamsTypeOK ==
  /\ hour \in Hours
  /\ counter \in Int
  /\ expiry \in 0..NoKey
  /\ stream \in [Streams -> Stream]
  /\ missed \in Nat /\ forgotten \in Nat

StreamsInit ==
  /\ hour = 0 /\ counter = 0 /\ expiry = NoKey
  /\ stream = [s \in Streams |-> noStream]
  /\ missed = 0 /\ forgotten = 0

Counted == {s \in Streams : stream[s].pc # "idle"}
Admitted == {s \in Streams : stream[s].pc \in {"ready", "open"}}
StreamAt(s, pc) == stream[s].pc = pc
StreamGoto(s, pc) == stream' = [stream EXCEPT ![s].pc = pc]
Leave(s) == stream' = [stream EXCEPT ![s] = noStream]

\* INCR or DECR: a key that was not there is there, without a time to live.
Count(n) == counter' = counter + n /\ expiry' = IF expiry = NoKey THEN NoExpiry ELSE expiry

---------------------------------------------------------------------------
(* An hour passes; the key goes when its time has come, with all it knew.  *)
PassHour ==
  LET gone == expiry <= hour + 1 IN
  /\ hour < LastHour
  /\ hour' = hour + 1
  /\ counter' = IF gone THEN 0 ELSE counter
  /\ expiry' = IF gone THEN NoKey ELSE expiry
  /\ missed' = IF gone THEN 0 ELSE missed
  /\ forgotten' = IF gone THEN Cardinality(Counted) ELSE forgotten
  /\ UNCHANGED stream

---------------------------------------------------------------------------
(* extraction_progress: INCR, EXPIRE, compare.                             *)

\* Mutant: the comparison is with the count before the increment.
OverCapBefore == counter > Cap
OverCap == counter + 1 > Cap

Incr(s) ==
  /\ StreamAt(s, "idle")
  /\ Count(1)
  /\ stream' = [stream EXCEPT ![s] = [pc |-> "counted", over |-> OverCap]]
  /\ UNCHANGED hour /\ UNCHANGED streamHistory

\* On a key that has gone since the INCR, EXPIRE does nothing.
Expire(s) ==
  /\ StreamAt(s, "counted")
  /\ expiry' = IF expiry = NoKey THEN NoKey ELSE hour + KeyTtl
  /\ StreamGoto(s, "timed")
  /\ UNCHANGED <<hour, counter>> /\ UNCHANGED streamHistory

Admit(s) ==
  /\ StreamAt(s, "timed") /\ ~stream[s].over
  /\ StreamGoto(s, "ready")
  /\ UNCHANGED <<hour, counter, expiry>> /\ UNCHANGED streamHistory

Refuse429(s) ==
  /\ StreamAt(s, "timed") /\ stream[s].over
  /\ Count(-1)
  /\ Leave(s)
  /\ UNCHANGED hour /\ UNCHANGED streamHistory

(* _capped_stream: the generator's finally decrements, once the body has   *)
(* been begun.  It ends on a disconnect, an error or a cancellation.       *)
BeginBody(s) ==
  /\ StreamAt(s, "ready")
  /\ StreamGoto(s, "open")
  /\ UNCHANGED <<hour, counter, expiry>> /\ UNCHANGED streamHistory

EndBody(s) ==
  /\ StreamAt(s, "open")
  /\ Count(-1)
  /\ Leave(s)
  /\ UNCHANGED hour /\ UNCHANGED streamHistory

(* No decrement: Redis fails at one of the calls, or the client has gone   *)
(* before the body was begun.                                              *)
LeakStream(s) ==
  /\ s \in Counted /\ missed < LastMissed
  /\ Leave(s)
  /\ missed' = missed + 1
  /\ UNCHANGED <<hour, counter, expiry, forgotten>>

(* The server dies with its streams.                                       *)
CrashStreams ==
  /\ missed + Cardinality(Counted) <= LastMissed
  /\ stream' = [s \in Streams |-> noStream]
  /\ missed' = missed + Cardinality(Counted)
  /\ UNCHANGED <<hour, counter, expiry, forgotten>>

StreamsNext ==
  \/ PassHour \/ CrashStreams
  \/ \E s \in Streams : Incr(s) \/ Expire(s) \/ Admit(s) \/ Refuse429(s) \/ BeginBody(s)
                        \/ EndBody(s) \/ LeakStream(s)
StreamsSpec == StreamsInit /\ [][StreamsNext]_streamsVars

---------------------------------------------------------------------------
(* Properties                                                              *)

(* The counter is the streams that are open or on their way, plus the      *)
(* decrements that were missed, minus the streams it has forgotten.        *)
CounterAccounts == counter = Cardinality(Counted) + missed - forgotten

(* As long as the counter has forgotten no stream, no interleaving of      *)
(* requests admits more than the cap.                                      *)
CapUnlessForgotten == forgotten = 0 => Cardinality(Admitted) <= Cap
=============================================================================
