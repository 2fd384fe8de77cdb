--------------------------- MODULE Introspection ---------------------------
(***************************************************************************)
(* Token introspection (auth/hydra.py) as HydraStrategy calls it: a cache  *)
(* with a time to live, and one upstream call per token that concurrent    *)
(* requests share through a future.  Between two awaits nothing else runs, *)
(* so what happens under _inflight_lock is one step.                       *)
(***************************************************************************)
EXTENDS Naturals, FiniteSets

CONSTANTS Bearers,     \* tokens
          Requests,    \* in flight at a time
          Ttl,         \* of a cached result
          Flight,      \* an upstream call takes at most this long
          LastTick     \* bound: the clock stops there

ASSUME IntrospectionAssumption ==
  Bearers # {} /\ Ttl \in Nat \ {0} /\ Flight \in Nat /\ LastTick \in Nat

VARIABLES
  tick,     \* the clock
  dead,     \* the tokens revoked or expired at Hydra, with the time
  cached,   \* the cache: when a result was stored, and asked for
  inflight, \* _inflight: the future of each token
  request

introVars == <<tick, dead, cached, inflight, request>>

---------------------------------------------------------------------------
Ticks == 0..LastTick
Alive == LastTick + 1            \* later than any time
Empty == [stored |-> Alive, asked |-> Alive]
Outcomes == {"active", "inactive", "unreachable", "error"}
Request == [pc : {"idle", "calling", "logging", "waiting", "accepted"},
            bearer : Bearers,
            outcome : Outcomes,  \* what upstream answered
            start : Ticks,
            asked : Ticks \cup {Alive}]

(* A request that was refused, or that failed, leaves its place.           *)
noRequest == [pc |-> "idle", bearer |-> CHOOSE b \in Bearers : TRUE, outcome |-> "error",
              start |-> 0, asked |-> Alive]

IntroTypeOK ==
  /\ tick \in Ticks
  /\ dead \in [Bearers -> Ticks \cup {Alive}]
  /\ cached \in [Bearers -> [stored : Ticks, asked : Ticks] \cup {Empty}]
  /\ inflight \in [Bearers -> {"none", "pending", "cancelled"}]
  /\ request \in [Requests -> Request]

IntroInit ==
  /\ tick = 0
  /\ dead = [b \in Bearers |-> Alive]
  /\ cached = [b \in Bearers |-> Empty]
  /\ inflight = [b \in Bearers |-> "none"]
  /\ request = [r \in Requests |-> noRequest]

Leading(r) == request[r].pc \in {"calling", "logging"}
Waiting(r) == request[r].pc = "waiting"
Of(b) == {r \in Requests : request[r].bearer = b}

---------------------------------------------------------------------------
(* The environment                                                         *)

Tick ==
  /\ tick < LastTick
  /\ \A r \in Requests : Leading(r) => tick < request[r].start + Flight
  /\ tick' = tick + 1
  /\ UNCHANGED <<dead, cached, inflight, request>>

Revoke(b) ==
  /\ dead[b] = Alive
  /\ dead' = [dead EXCEPT ![b] = tick]
  /\ UNCHANGED <<tick, cached, inflight, request>>

(* maxsize: another token's result pushes this one out.                    *)
Evict(b) ==
  /\ cached[b] # Empty
  /\ cached' = [cached EXCEPT ![b] = Empty]
  /\ UNCHANGED <<tick, dead, inflight, request>>

---------------------------------------------------------------------------
(* introspect                                                              *)

Fresh(b) == cached[b] # Empty /\ tick < cached[b].stored + Ttl

(* A hit answers at once; the claims' own exp is not looked at again.  A   *)
(* miss leads, or awaits the future that is there; a cancelled one raises. *)
\* Mutant: a hit renews the entry.
Renewed(b) == [cached[b] EXCEPT !.stored = tick]
Untouched(b) == cached[b]

Joined(r, b, pc, asked) ==
  request' = [request EXCEPT ![r] = [pc |-> pc, bearer |-> b, outcome |-> "error",
                                     start |-> tick, asked |-> asked]]
Hit(r, b) ==
  /\ ~Leading(r) /\ ~Waiting(r) /\ Fresh(b)
  /\ Joined(r, b, "accepted", cached[b].asked)
  /\ cached' = [cached EXCEPT ![b] = Untouched(b)]
  /\ UNCHANGED <<tick, dead, inflight>>

Lead(r, b) ==
  /\ ~Leading(r) /\ ~Waiting(r) /\ ~Fresh(b) /\ inflight[b] = "none"
  /\ Joined(r, b, "calling", Alive)
  /\ inflight' = [inflight EXCEPT ![b] = "pending"]
  /\ UNCHANGED <<tick, dead, cached>>

Follow(r, b) ==
  /\ ~Leading(r) /\ ~Waiting(r) /\ ~Fresh(b) /\ inflight[b] = "pending"
  /\ Joined(r, b, "waiting", Alive)
  /\ UNCHANGED <<tick, dead, cached, inflight>>

(* _call_upstream: Hydra answers, or does not; the lines after the POST    *)
(* await the logger.  An httpx error it does not name is raised as it is.  *)
Answer(r, o) ==
  /\ request[r].pc = "calling"
  /\ o = "active" => dead[request[r].bearer] = Alive
  /\ o = "inactive" => dead[request[r].bearer] # Alive
  /\ request' = [request EXCEPT ![r].pc = "logging", ![r].outcome = o, ![r].asked = tick]
  /\ UNCHANGED <<tick, dead, cached, inflight>>

(* The leader goes on: the cache, the future, the finally.  A future that  *)
(* was cancelled takes no result (InvalidStateError), and its waiters have *)
(* gone already.                                                           *)
Answered(q, x, o) == IF o = "active" THEN [request[q] EXCEPT !.pc = "accepted", !.asked = x,
                                                             !.outcome = "error"]
                     ELSE noRequest
Settle(r) ==
  LET b == request[r].bearer
      o == request[r].outcome
      x == request[r].asked IN
  /\ request[r].pc = "logging"
  /\ cached' = [cached EXCEPT ![b] = IF o = "active" THEN [stored |-> tick, asked |-> x] ELSE @]
  /\ request' = [q \in Requests |->
       CASE q = r /\ inflight[b] = "cancelled" -> noRequest
         [] q = r /\ inflight[b] # "cancelled" -> Answered(r, x, o)
         [] q # r /\ Waiting(q) /\ q \in Of(b) -> Answered(q, x, o)
         [] OTHER -> request[q]]
  /\ inflight' = [inflight EXCEPT ![b] = "none"]
  /\ UNCHANGED <<tick, dead>>

(* A request is cancelled.  A waiter awaits the shared future itself, so   *)
(* its cancellation is the future's, and everyone's who waits on it; a     *)
(* leader hands its own to the future before the finally removes it.       *)
\* Mutant: a leader that is cancelled leaves the future behind.
KeptCancelled(r) == "cancelled"
FlightAfterCancel(r) == IF Leading(r) THEN "none" ELSE "cancelled"

Cancel(r) ==
  LET b == request[r].bearer IN
  /\ Leading(r) \/ Waiting(r)
  /\ request' = [q \in Requests |-> IF q = r \/ (Waiting(q) /\ q \in Of(b)) THEN noRequest
                                    ELSE request[q]]
  /\ inflight' = [inflight EXCEPT ![b] = FlightAfterCancel(r)]
  /\ UNCHANGED <<tick, dead, cached>>

(* The process restarts.                                                   *)
RestartServer ==
  /\ cached' = [b \in Bearers |-> Empty]
  /\ inflight' = [b \in Bearers |-> "none"]
  /\ request' = [r \in Requests |-> IF Leading(r) \/ Waiting(r) THEN noRequest ELSE request[r]]
  /\ UNCHANGED <<tick, dead>>

IntroNext ==
  \/ Tick \/ RestartServer
  \/ \E b \in Bearers : Revoke(b) \/ Evict(b)
  \/ \E r \in Requests :
       \/ \E b \in Bearers : Hit(r, b) \/ Lead(r, b) \/ Follow(r, b)
       \/ \E o \in Outcomes : Answer(r, o)
       \/ Settle(r) \/ Cancel(r)
IntroSpec == IntroInit /\ [][IntroNext]_introVars

---------------------------------------------------------------------------
(* Properties                                                              *)

(* A request is accepted on an answer Hydra gave while the token was       *)
(* alive, less than a cache lifetime and a flight before the request came: *)
(* a revoked token is refused from then on, whatever is shared, cancelled, *)
(* evicted or restarted in between.                                        *)
AcceptedWhileAlive ==
  \A r \in Requests : request[r].pc = "accepted" =>
    LET a == request[r].asked IN
    /\ a <= dead[request[r].bearer]
    /\ a < request[r].start => request[r].start < a + Ttl + Flight

(* One upstream call per token at a time; a future is in the table while   *)
(* its leader is at work and no longer, and requests wait only on one that *)
(* a leader will complete.                                                 *)
FlightsLed ==
  \A b \in Bearers :
    /\ Cardinality({r \in Of(b) : Leading(r)}) = IF inflight[b] = "none" THEN 0 ELSE 1
    /\ (\E r \in Of(b) : Waiting(r)) => inflight[b] = "pending"
=============================================================================
