---------------------------- MODULE Access_proofs ----------------------------
(***************************************************************************)
(* Theorems about who is let in: token introspection, for any number of    *)
(* tokens and of requests, any time to live and any time upstream may      *)
(* take; the deployment shapes, for any number of replicas: they agree on  *)
(* the operator they are bound to, and in every deployment that comes up   *)
(* the answers of the strategy chain are those of its shape; and the       *)
(* attempt limit, for any number of posts in flight, limit and window.     *)
(***************************************************************************)
EXTENDS Introspection, DeployShapes, AttemptLimit, FiniteSetTheorems, SequenceTheorems, TLAPS

---------------------------------------------------------------------------
(* Introspection                                                           *)

(* What is cached was asked for while the token was alive, and stored no   *)
(* later than a flight after that.                                         *)
CacheOk(b) ==
  cached[b] # Empty =>
    /\ cached[b].asked <= dead[b]
    /\ cached[b].asked <= cached[b].stored
    /\ cached[b].stored <= tick
    /\ cached[b].stored <= cached[b].asked + Flight

(* A leader is no longer under way than a flight takes.                    *)
LeaderOk(r) ==
  Leading(r) => /\ request[r].start <= tick
                /\ tick <= request[r].start + Flight

(* It asked after it came, and a yes was given while the token lived.      *)
AnswerOk(r) ==
  request[r].pc = "logging" =>
    /\ request[r].start <= request[r].asked
    /\ request[r].asked <= tick
    /\ request[r].outcome = "active" => request[r].asked <= dead[request[r].bearer]

WaiterOk(r) == Waiting(r) => request[r].start <= tick

(* An accepted request, with the answer it went by.                        *)
AcceptedOk(r) ==
  request[r].pc = "accepted" =>
    /\ request[r].asked <= tick
    /\ request[r].asked <= dead[request[r].bearer]
    /\ request[r].asked < request[r].start =>
         request[r].start < request[r].asked + Ttl + Flight

(* The table of futures: one leader for each entry, none without.          *)
Leads(r, b) == Leading(r) /\ request[r].bearer = b
LedBy(b) ==
  /\ inflight[b] = "none" => \A r \in Requests : ~Leads(r, b)
  /\ inflight[b] # "none" => \E r \in Requests : Leads(r, b)
  /\ \A r, q \in Requests : Leads(r, b) /\ Leads(q, b) => r = q
AwaitsPending(r) == Waiting(r) => inflight[request[r].bearer] = "pending"

CachesInv == \A b \in Bearers : CacheOk(b)
TimesInv == \A r \in Requests : LeaderOk(r) /\ AnswerOk(r) /\ WaiterOk(r) /\ AcceptedOk(r)
TableInv == (\A b \in Bearers : LedBy(b)) /\ (\A r \in Requests : AwaitsPending(r))
IntroInv == IntroTypeOK /\ CachesInv /\ TimesInv /\ TableInv

---------------------------------------------------------------------------
(* A refused request's record is a request's.                              *)
LEMMA NoRequestTyped == noRequest \in Request /\ noRequest.pc = "idle"
<1>1. (CHOOSE b \in Bearers : TRUE) \in Bearers BY IntrospectionAssumption
<1>2. 0 \in Ticks BY IntrospectionAssumption DEF Ticks
<1> QED BY <1>1, <1>2 DEF noRequest, Request, Outcomes

(* Nothing is asked for at the start.                                      *)
LEMMA InitInv == IntroInit => IntroInv
<1> SUFFICES ASSUME IntroInit PROVE IntroInv OBVIOUS
<1> USE DEF IntroInit
<1>1. noRequest \in Request /\ noRequest.pc = "idle" BY NoRequestTyped
<1>2. 0 \in Ticks /\ Alive \in Nat BY IntrospectionAssumption DEF Ticks, Alive
<1>3. IntroTypeOK BY <1>1, <1>2 DEF IntroTypeOK
<1>4. CachesInv BY DEF CachesInv, CacheOk
<1>5. \A r \in Requests : request[r].pc = "idle" BY <1>1
<1>6. TimesInv BY <1>5 DEF TimesInv, LeaderOk, AnswerOk, WaiterOk, AcceptedOk, Leading, Waiting
<1>7. TableInv BY <1>5 DEF TableInv, LedBy, Leads, AwaitsPending, Leading, Waiting
<1> QED BY <1>3, <1>4, <1>6, <1>7 DEF IntroInv

---------------------------------------------------------------------------
(* What the steps have in common                                           *)

(* Numbers that the types give.                                            *)
LEMMA Numbers ==
  ASSUME IntroTypeOK
  PROVE  /\ tick \in Nat /\ tick <= LastTick /\ Alive \in Nat /\ LastTick < Alive
         /\ \A b \in Bearers : dead[b] \in Nat
         /\ \A b \in Bearers : cached[b].stored \in Nat /\ cached[b].asked \in Nat
         /\ \A r \in Requests : /\ request[r] \in Request
                                /\ request[r].bearer \in Bearers
                                /\ request[r].start \in Nat
                                /\ request[r].asked \in Nat
<1> USE IntrospectionAssumption
<1>1. tick \in Nat /\ tick <= LastTick /\ Alive \in Nat /\ LastTick < Alive
  BY DEF IntroTypeOK, Ticks, Alive
<1>2. \A b \in Bearers : dead[b] \in Nat BY DEF IntroTypeOK, Ticks, Alive
<1>3. \A b \in Bearers : cached[b].stored \in Nat /\ cached[b].asked \in Nat
  BY DEF IntroTypeOK, Ticks, Alive, Empty
<1>4. ASSUME NEW r \in Requests
      PROVE  /\ request[r] \in Request
             /\ request[r].bearer \in Bearers
             /\ request[r].start \in Nat
             /\ request[r].asked \in Nat
  <2>1. request[r] \in Request BY DEF IntroTypeOK
  <2> QED BY <2>1 DEF Request, Ticks, Alive
<1> QED BY <1>1, <1>2, <1>3, <1>4

TimesOk(r) == LeaderOk(r) /\ AnswerOk(r) /\ WaiterOk(r) /\ AcceptedOk(r)

(* A request that a step leaves alone keeps its times.                     *)
LEMMA TimesKept ==
  ASSUME TimesInv, tick' = tick, dead' = dead, NEW q \in Requests, request'[q] = request[q]
  PROVE  TimesOk(q)'
BY DEF TimesInv, TimesOk, LeaderOk, AnswerOk, WaiterOk, AcceptedOk, Leading, Waiting

(* So does one that leaves.                                                *)
LEMMA TimesGone ==
  ASSUME NEW q \in Requests, request'[q].pc = "idle"
  PROVE  TimesOk(q)'
BY DEF TimesOk, LeaderOk, AnswerOk, WaiterOk, AcceptedOk, Leading, Waiting

(* The cache as it was, at the same time.                                  *)
LEMMA CachesKept ==
  ASSUME CachesInv, tick' = tick, dead' = dead, cached' = cached
  PROVE  CachesInv'
BY DEF CachesInv, CacheOk

(* What a request that comes in is made.                                   *)
LEMMA JoinedEffect ==
  ASSUME IntroTypeOK, NEW r \in Requests, NEW b \in Bearers,
         NEW pc \in {"calling", "waiting", "accepted"}, NEW asked \in Ticks \cup {Alive},
         Joined(r, b, pc, asked)
  PROVE  /\ request' \in [Requests -> Request]
         /\ request'[r].pc = pc /\ request'[r].bearer = b
         /\ request'[r].start = tick /\ request'[r].asked = asked
         /\ \A q \in Requests : q # r => request'[q] = request[q]
<1> DEFINE new == [pc |-> pc, bearer |-> b, outcome |-> "error", start |-> tick, asked |-> asked]
<1>1. new \in Request BY DEF IntroTypeOK, Request, Outcomes
<1>2. new.pc = pc /\ new.bearer = b /\ new.start = tick /\ new.asked = asked OBVIOUS
<1>3. request' = [request EXCEPT ![r] = new] BY DEF Joined
<1> HIDE DEF new
<1> QED BY <1>1, <1>2, <1>3 DEF IntroTypeOK

---------------------------------------------------------------------------
(* The environment                                                         *)

(* Time passes, but not past what upstream may take.                       *)
LEMMA TickStep == ASSUME IntroInv, Tick PROVE IntroInv'
<1> USE DEF Tick
<1>0. IntroTypeOK /\ CachesInv /\ TimesInv /\ TableInv BY DEF IntroInv
<1>1. tick' = tick + 1 /\ tick < LastTick OBVIOUS
<1>2. IntroTypeOK'
  <2>1. tick' \in Ticks BY <1>0, <1>1, Numbers, IntrospectionAssumption DEF Ticks
  <2> QED BY <1>0, <2>1 DEF IntroTypeOK
<1>3. CachesInv' BY <1>0, <1>1, Numbers DEF CachesInv, CacheOk
<1>4. ASSUME NEW r \in Requests PROVE TimesOk(r)'
  <2>1. request'[r] = request[r] /\ request[r].start \in Nat /\ request[r].asked \in Nat /\ tick \in Nat
    BY <1>0, Numbers
  <2>2. LeaderOk(r)'
    BY <1>0, <1>1, <2>1, IntrospectionAssumption DEF TimesInv, LeaderOk, Leading
  <2>3. AnswerOk(r)' BY <1>0, <1>1, <2>1 DEF TimesInv, AnswerOk
  <2>4. WaiterOk(r)' BY <1>0, <1>1, <2>1 DEF TimesInv, WaiterOk, Waiting
  <2>5. AcceptedOk(r)' BY <1>0, <1>1, <2>1 DEF TimesInv, AcceptedOk
  <2> QED BY <2>2, <2>3, <2>4, <2>5 DEF TimesOk
<1>5. TimesInv' BY <1>4 DEF TimesInv, TimesOk
<1>6. TableInv' BY <1>0 DEF TableInv, LedBy, Leads, AwaitsPending, Leading, Waiting
<1> QED BY <1>2, <1>3, <1>5, <1>6 DEF IntroInv

(* A token dies now: whatever was asked for, was asked before.             *)
LEMMA RevokeStep == ASSUME IntroInv, NEW b \in Bearers, Revoke(b) PROVE IntroInv'
<1> USE DEF Revoke
<1>0. IntroTypeOK /\ CachesInv /\ TimesInv /\ TableInv BY DEF IntroInv
<1>1. /\ dead' \in [Bearers -> Ticks \cup {Alive}]
      /\ dead'[b] = tick
      /\ \A c \in Bearers : c # b => dead'[c] = dead[c]
  BY <1>0 DEF IntroTypeOK
<1>2. IntroTypeOK' BY <1>0, <1>1 DEF IntroTypeOK
<1>3. ASSUME NEW c \in Bearers PROVE CacheOk(c)'
  <2>1. CacheOk(c) BY <1>0 DEF CachesInv
  <2> QED BY <1>0, <1>1, <2>1, Numbers DEF CacheOk
<1>4. ASSUME NEW r \in Requests PROVE TimesOk(r)'
  <2>1. /\ request[r].start \in Nat /\ request[r].asked \in Nat /\ tick \in Nat
        /\ request[r].bearer \in Bearers
    BY <1>0, Numbers
  <2>2. LeaderOk(r)' /\ WaiterOk(r)'
    BY <1>0 DEF TimesInv, LeaderOk, WaiterOk, Leading, Waiting
  <2>3. AnswerOk(r)' BY <1>0, <1>1, <2>1 DEF TimesInv, AnswerOk
  <2>4. AcceptedOk(r)' BY <1>0, <1>1, <2>1 DEF TimesInv, AcceptedOk
  <2> QED BY <2>2, <2>3, <2>4 DEF TimesOk
<1>5. TimesInv' BY <1>4 DEF TimesInv, TimesOk
<1>6. TableInv' BY <1>0 DEF TableInv, LedBy, Leads, AwaitsPending, Leading, Waiting
<1> QED BY <1>2, <1>3, <1>5, <1>6 DEF IntroInv, CachesInv

(* A result is pushed out.                                                 *)
LEMMA EvictStep == ASSUME IntroInv, NEW b \in Bearers, Evict(b) PROVE IntroInv'
<1> USE DEF Evict
<1>0. IntroTypeOK /\ CachesInv /\ TimesInv /\ TableInv BY DEF IntroInv
<1>1. IntroTypeOK' BY <1>0 DEF IntroTypeOK
<1>2. \A c \in Bearers : cached'[c] = Empty \/ cached'[c] = cached[c] BY <1>0 DEF IntroTypeOK
<1>3. CachesInv' BY <1>0, <1>2 DEF CachesInv, CacheOk
<1>4. \A r \in Requests : TimesOk(r)' BY <1>0, TimesKept
<1>5. TimesInv' BY <1>4 DEF TimesInv, TimesOk
<1>6. TableInv' BY <1>0 DEF TableInv, LedBy, Leads, AwaitsPending, Leading, Waiting
<1> QED BY <1>1, <1>3, <1>5, <1>6 DEF IntroInv

(* The process restarts, with nothing cached and no one under way.         *)
LEMMA RestartStep == ASSUME IntroInv, RestartServer PROVE IntroInv'
<1> USE DEF RestartServer
<1>0. IntroTypeOK /\ CachesInv /\ TimesInv /\ TableInv BY DEF IntroInv
<1>1. noRequest \in Request /\ noRequest.pc = "idle" BY NoRequestTyped
<1>2. \A r \in Requests : \/ request'[r] = noRequest
                          \/ request'[r] = request[r] /\ ~Leading(r) /\ ~Waiting(r)
  BY DEF Leading, Waiting
<1>3. request' \in [Requests -> Request] BY <1>0, <1>1 DEF IntroTypeOK
<1>4. IntroTypeOK' BY <1>0, <1>3 DEF IntroTypeOK
<1>5. CachesInv' BY DEF CachesInv, CacheOk
<1>6. \A r \in Requests : TimesOk(r)' BY <1>0, <1>1, <1>2, TimesKept, TimesGone
<1>7. TimesInv' BY <1>6 DEF TimesInv, TimesOk
<1>8. \A r \in Requests : ~Leading(r)' /\ ~Waiting(r)' BY <1>1, <1>2 DEF Leading, Waiting
<1>9. TableInv' BY <1>8 DEF TableInv, LedBy, Leads, AwaitsPending
<1> QED BY <1>4, <1>5, <1>7, <1>9 DEF IntroInv

---------------------------------------------------------------------------
(* A request comes in                                                      *)

(* The cache answers: what it holds is younger than a lifetime.            *)
LEMMA HitStep == ASSUME IntroInv, NEW r \in Requests, NEW b \in Bearers, Hit(r, b) PROVE IntroInv'
<1>0. IntroTypeOK /\ CachesInv /\ TimesInv /\ TableInv BY DEF IntroInv
<1>1. /\ tick' = tick /\ dead' = dead /\ inflight' = inflight
      /\ ~Leading(r) /\ ~Waiting(r) /\ cached[b] # Empty /\ tick < cached[b].stored + Ttl
      /\ Joined(r, b, "accepted", cached[b].asked)
  BY DEF Hit, Fresh
<1>2. cached' = cached BY <1>0 DEF Hit, Untouched, IntroTypeOK
<1>3. cached[b].asked \in Ticks \cup {Alive} BY <1>0, <1>1 DEF IntroTypeOK
<1>4. /\ request' \in [Requests -> Request]
      /\ request'[r].pc = "accepted" /\ request'[r].bearer = b
      /\ request'[r].start = tick /\ request'[r].asked = cached[b].asked
      /\ \A q \in Requests : q # r => request'[q] = request[q]
  BY <1>0, <1>1, <1>3, JoinedEffect
<1>5. IntroTypeOK' BY <1>0, <1>1, <1>2, <1>4 DEF IntroTypeOK
<1>6. CachesInv' BY <1>0, <1>1, <1>2, CachesKept
<1>7. TimesOk(r)'
  <2>1. CacheOk(b) BY <1>0 DEF CachesInv
  <2>2. cached[b].stored \in Nat /\ cached[b].asked \in Nat /\ tick \in Nat BY <1>0, Numbers
  <2>3. cached[b].asked <= tick /\ tick < cached[b].asked + Ttl + Flight
    BY <1>1, <2>1, <2>2, IntrospectionAssumption DEF CacheOk
  <2>4. AcceptedOk(r)' BY <1>1, <1>4, <2>1, <2>3 DEF AcceptedOk, CacheOk
  <2> QED BY <1>4, <2>4 DEF TimesOk, LeaderOk, AnswerOk, WaiterOk, Leading, Waiting
<1>8. \A q \in Requests : TimesOk(q)' BY <1>0, <1>1, <1>4, <1>7, TimesKept
<1>9. TimesInv' BY <1>8 DEF TimesInv, TimesOk
<1>10. TableInv'
  BY <1>0, <1>1, <1>4 DEF TableInv, LedBy, Leads, AwaitsPending, Leading, Waiting
<1> QED BY <1>5, <1>6, <1>9, <1>10 DEF IntroInv

(* It leads: no one else did.                                              *)
LEMMA LeadStep == ASSUME IntroInv, NEW r \in Requests, NEW b \in Bearers, Lead(r, b) PROVE IntroInv'
<1>0. IntroTypeOK /\ CachesInv /\ TimesInv /\ TableInv BY DEF IntroInv
<1>1. /\ tick' = tick /\ dead' = dead /\ cached' = cached /\ inflight[b] = "none"
      /\ ~Leading(r) /\ ~Waiting(r) /\ Joined(r, b, "calling", Alive)
      /\ inflight' = [inflight EXCEPT ![b] = "pending"]
  BY DEF Lead
<1>2. /\ request' \in [Requests -> Request]
      /\ request'[r].pc = "calling" /\ request'[r].bearer = b /\ request'[r].start = tick
      /\ \A q \in Requests : q # r => request'[q] = request[q]
  BY <1>0, <1>1, JoinedEffect
<1>3. /\ inflight' \in [Bearers -> {"none", "pending", "cancelled"}]
      /\ inflight'[b] = "pending"
      /\ \A c \in Bearers : c # b => inflight'[c] = inflight[c]
  BY <1>0, <1>1 DEF IntroTypeOK
<1>4. IntroTypeOK' BY <1>0, <1>1, <1>2, <1>3 DEF IntroTypeOK
<1>5. CachesInv' BY <1>0, <1>1, CachesKept
<1>6. TimesOk(r)'
  <2>1. tick \in Nat /\ Flight \in Nat BY <1>0, Numbers, IntrospectionAssumption
  <2> QED BY <1>1, <1>2, <2>1 DEF TimesOk, LeaderOk, AnswerOk, WaiterOk, AcceptedOk, Leading, Waiting
<1>7. \A q \in Requests : TimesOk(q)' BY <1>0, <1>1, <1>2, <1>6, TimesKept
<1>8. TimesInv' BY <1>7 DEF TimesInv, TimesOk
<1>9. \A q \in Requests, c \in Bearers : Leads(q, c)' <=> Leads(q, c) \/ (q = r /\ c = b)
  BY <1>1, <1>2 DEF Leads, Leading
<1>10. \A c \in Bearers : LedBy(c)' BY <1>0, <1>1, <1>3, <1>9 DEF TableInv, LedBy
<1>11. \A q \in Requests : AwaitsPending(q)'
  <2> SUFFICES ASSUME NEW q \in Requests, Waiting(q)' PROVE inflight'[request'[q].bearer] = "pending"
    BY DEF AwaitsPending
  <2>1. q # r /\ Waiting(q) /\ request'[q] = request[q] BY <1>2 DEF Waiting
  <2>2. request[q].bearer \in Bearers BY <1>0, Numbers
  <2> QED BY <1>0, <1>3, <2>1, <2>2 DEF TableInv, AwaitsPending
<1> QED BY <1>4, <1>5, <1>8, <1>10, <1>11 DEF IntroInv, TableInv

(* It waits for the future it finds.                                       *)
LEMMA FollowStep == ASSUME IntroInv, NEW r \in Requests, NEW b \in Bearers, Follow(r, b) PROVE IntroInv'
<1>0. IntroTypeOK /\ CachesInv /\ TimesInv /\ TableInv BY DEF IntroInv
<1>1. /\ tick' = tick /\ dead' = dead /\ cached' = cached /\ inflight' = inflight
      /\ ~Leading(r) /\ ~Waiting(r) /\ inflight[b] = "pending" /\ Joined(r, b, "waiting", Alive)
  BY DEF Follow
<1>2. /\ request' \in [Requests -> Request]
      /\ request'[r].pc = "waiting" /\ request'[r].bearer = b /\ request'[r].start = tick
      /\ \A q \in Requests : q # r => request'[q] = request[q]
  BY <1>0, <1>1, JoinedEffect
<1>3. IntroTypeOK' BY <1>0, <1>1, <1>2 DEF IntroTypeOK
<1>4. CachesInv' BY <1>0, <1>1, CachesKept
<1>5. TimesOk(r)'
  <2>1. tick \in Nat BY <1>0, Numbers
  <2> QED BY <1>1, <1>2, <2>1 DEF TimesOk, LeaderOk, AnswerOk, WaiterOk, AcceptedOk, Leading, Waiting
<1>6. \A q \in Requests : TimesOk(q)' BY <1>0, <1>1, <1>2, <1>5, TimesKept
<1>7. TimesInv' BY <1>6 DEF TimesInv, TimesOk
<1>8. TableInv'
  BY <1>0, <1>1, <1>2 DEF TableInv, LedBy, Leads, AwaitsPending, Leading, Waiting
<1> QED BY <1>3, <1>4, <1>7, <1>8 DEF IntroInv

---------------------------------------------------------------------------
(* The leader                                                              *)

(* Upstream answers: a yes only while the token lives.                     *)
LEMMA AnswerStep ==
  ASSUME IntroInv, NEW r \in Requests, NEW o \in Outcomes, Answer(r, o)
  PROVE  IntroInv'
<1> DEFINE new == [request[r] EXCEPT !.pc = "logging", !.outcome = o, !.asked = tick]
<1>0. IntroTypeOK /\ CachesInv /\ TimesInv /\ TableInv BY DEF IntroInv
<1>1. /\ tick' = tick /\ dead' = dead /\ cached' = cached /\ inflight' = inflight
      /\ request[r].pc = "calling"
      /\ o = "active" => dead[request[r].bearer] = Alive
  BY DEF Answer
<1>2. request[r] \in Request /\ tick \in Ticks BY <1>0, Numbers DEF IntroTypeOK
<1>3. /\ new \in Request /\ new.pc = "logging" /\ new.bearer = request[r].bearer
      /\ new.outcome = o /\ new.start = request[r].start /\ new.asked = tick
  BY <1>2 DEF Request
<1>4. request' = [request EXCEPT ![r] = new] BY DEF Answer
<1> HIDE DEF new
<1>5. /\ request' \in [Requests -> Request] /\ request'[r] = new
      /\ \A q \in Requests : q # r => request'[q] = request[q]
  BY <1>0, <1>3, <1>4 DEF IntroTypeOK
<1>6. IntroTypeOK' BY <1>0, <1>1, <1>5 DEF IntroTypeOK
<1>7. CachesInv' BY <1>0, <1>1, CachesKept
<1>8. TimesOk(r)'
  <2>1. LeaderOk(r) BY <1>0 DEF TimesInv
  <2>2. LeaderOk(r)' BY <1>1, <1>3, <1>5, <2>1 DEF LeaderOk, Leading
  <2>3. /\ tick \in Nat /\ tick <= LastTick /\ LastTick < Alive /\ Alive \in Nat
        /\ LastTick \in Nat /\ request[r].start \in Nat
    BY <1>0, Numbers, IntrospectionAssumption
  <2>4. request[r].start <= tick BY <1>1, <2>1 DEF LeaderOk, Leading
  <2>5. AnswerOk(r)' BY <1>1, <1>3, <1>5, <2>3, <2>4 DEF AnswerOk
  <2> QED BY <1>3, <1>5, <2>2, <2>5 DEF TimesOk, WaiterOk, AcceptedOk, Waiting
<1>9. \A q \in Requests : TimesOk(q)' BY <1>0, <1>1, <1>5, <1>8, TimesKept
<1>10. TimesInv' BY <1>9 DEF TimesInv, TimesOk
<1>11. \A q \in Requests, c \in Bearers : Leads(q, c)' <=> Leads(q, c)
  BY <1>1, <1>3, <1>5 DEF Leads, Leading
<1>12. \A c \in Bearers : LedBy(c)' BY <1>0, <1>1, <1>11 DEF TableInv, LedBy
<1>13. \A q \in Requests : AwaitsPending(q)'
  BY <1>0, <1>1, <1>3, <1>5 DEF TableInv, AwaitsPending, Waiting
<1> QED BY <1>6, <1>7, <1>10, <1>12, <1>13 DEF IntroInv, TableInv

(* Those a step leaves of token b, and the others as they were: then the   *)
(* table may say that no one leads.                                        *)
LEMMA TableCleared ==
  ASSUME IntroTypeOK, TableInv, NEW b \in Bearers, NEW f \in {"none"},
         inflight' = [inflight EXCEPT ![b] = f],
         \A q \in Requests : \/ request'[q] = request[q] /\ ~Leads(q, b)
                                  /\ ~(Waiting(q) /\ request[q].bearer = b)
                             \/ request'[q].pc \in {"idle", "accepted"} /\ request[q].bearer = b
  PROVE  TableInv'
<1>1. inflight'[b] = "none" /\ \A c \in Bearers : c # b => inflight'[c] = inflight[c]
  BY DEF IntroTypeOK
<1>2. \A q \in Requests : ~Leads(q, b)' BY DEF Leads, Leading
<1>3. \A q \in Requests, c \in Bearers : c # b => (Leads(q, c)' <=> Leads(q, c))
  BY DEF Leads, Leading
<1>4. \A c \in Bearers : LedBy(c)' BY <1>1, <1>2, <1>3 DEF TableInv, LedBy
<1>5. ASSUME NEW q \in Requests PROVE AwaitsPending(q)'
  <2> SUFFICES ASSUME Waiting(q)' PROVE inflight'[request'[q].bearer] = "pending"
    BY DEF AwaitsPending
  <2>1. request'[q] = request[q] /\ Waiting(q) /\ request[q].bearer # b BY DEF Waiting
  <2>2. request[q].bearer \in Bearers BY Numbers
  <2> QED BY <1>1, <2>1, <2>2 DEF TableInv, AwaitsPending
<1> QED BY <1>4, <1>5 DEF TableInv

(* A request that gets the leader's answer: accepted, or gone.             *)
LEMMA AnsweredFits ==
  ASSUME IntroTypeOK, NEW q \in Requests, NEW x \in Ticks \cup {Alive}, NEW o \in Outcomes
  PROVE  /\ Answered(q, x, o) \in Request
         /\ Answered(q, x, o).pc \in {"idle", "accepted"}
         /\ Answered(q, x, o).pc = "accepted" =>
              /\ o = "active" /\ Answered(q, x, o).bearer = request[q].bearer
              /\ Answered(q, x, o).start = request[q].start /\ Answered(q, x, o).asked = x
<1>1. CASE o = "active"
  <2>1. request[q] \in Request BY Numbers
  <2> QED BY <1>1, <2>1 DEF Answered, Request, Outcomes
<1>2. CASE o # "active" BY <1>2, NoRequestTyped DEF Answered
<1> QED BY <1>1, <1>2

(* The leader goes on, and takes those who waited with it.                 *)
LEMMA SettleStep == ASSUME IntroInv, NEW r \in Requests, Settle(r) PROVE IntroInv'
<1>0. IntroTypeOK /\ CachesInv /\ TimesInv /\ TableInv BY DEF IntroInv
<1>1. PICK b \in Bearers, o \in Outcomes, x \in Ticks \cup {Alive} :
        b = request[r].bearer /\ o = request[r].outcome /\ x = request[r].asked
  <2>1. request[r] \in Request BY <1>0, Numbers
  <2> QED BY <2>1 DEF Request
<1>2. /\ tick' = tick /\ dead' = dead /\ request[r].pc = "logging"
      /\ cached' = [cached EXCEPT ![b] = IF o = "active" THEN [stored |-> tick, asked |-> x]
                                         ELSE cached[b]]
      /\ inflight' = [inflight EXCEPT ![b] = "none"]
      /\ request' = [q \in Requests |->
           CASE q = r /\ inflight[b] = "cancelled" -> noRequest
             [] q = r /\ inflight[b] # "cancelled" -> Answered(r, x, o)
             [] q # r /\ Waiting(q) /\ q \in Of(b) -> Answered(q, x, o)
             [] OTHER -> request[q]]
  BY <1>0, <1>1 DEF Settle, IntroTypeOK
<1>3. \A q \in Requests : Waiting(q) /\ q \in Of(b) <=> Waiting(q) /\ request[q].bearer = b
  BY DEF Of
<1>4. \A q \in Requests :
        \/ request'[q] = request[q] /\ q # r /\ ~(Waiting(q) /\ request[q].bearer = b)
        \/ request'[q] = noRequest /\ q = r
        \/ request'[q] = Answered(q, x, o) /\ (q = r \/ Waiting(q)) /\ request[q].bearer = b
  BY <1>1, <1>2, <1>3
<1>5. request' \in [Requests -> Request]
  <2>1. ASSUME NEW q \in Requests PROVE request'[q] \in Request
    <3>1. request[q] \in Request /\ Answered(q, x, o) \in Request /\ noRequest \in Request
      BY <1>0, AnsweredFits, NoRequestTyped, Numbers
    <3> QED BY <1>4, <3>1
  <2> QED BY <1>2, <2>1
<1>6. /\ x \in Nat /\ tick \in Nat /\ Flight \in Nat /\ Ttl \in Nat /\ Ttl > 0
      /\ request[r].start \in Nat /\ dead[b] \in Nat /\ tick \in Ticks
  BY <1>0, <1>1, Numbers, IntrospectionAssumption DEF IntroTypeOK
<1>7. /\ request[r].start <= x /\ x <= tick /\ tick <= x + Flight
      /\ o = "active" => x <= dead[b]
  <2>1. LeaderOk(r) /\ AnswerOk(r) BY <1>0 DEF TimesInv
  <2>2. request[r].start <= x /\ x <= tick /\ (o = "active" => x <= dead[b])
    BY <1>1, <1>2, <2>1 DEF AnswerOk
  <2>3. tick <= request[r].start + Flight BY <1>2, <2>1 DEF LeaderOk, Leading
  <2> QED BY <1>6, <2>2, <2>3
<1>8. x \in Ticks BY <1>0, <1>6, <1>7, Numbers, IntrospectionAssumption DEF Ticks
<1>9. /\ cached' \in [Bearers -> [stored : Ticks, asked : Ticks] \cup {Empty}]
      /\ \A c \in Bearers : \/ cached'[c] = cached[c]
                            \/ c = b /\ o = "active" /\ cached'[c] = [stored |-> tick, asked |-> x]
  BY <1>0, <1>2, <1>6, <1>8 DEF IntroTypeOK
<1>10. IntroTypeOK' BY <1>0, <1>2, <1>5, <1>9 DEF IntroTypeOK
<1>11. CachesInv'
  <2> SUFFICES ASSUME NEW c \in Bearers PROVE CacheOk(c)' BY DEF CachesInv
  <2>1. CASE cached'[c] = cached[c] BY <1>0, <1>2, <2>1 DEF CachesInv, CacheOk
  <2>2. CASE c = b /\ o = "active" /\ cached'[c] = [stored |-> tick, asked |-> x]
    BY <1>2, <1>6, <1>7, <2>2 DEF CacheOk
  <2> QED BY <1>9, <2>1, <2>2
<1>12. ASSUME NEW q \in Requests PROVE TimesOk(q)'
  <2>1. CASE request'[q] = request[q] BY <1>0, <1>2, <2>1, TimesKept
  <2>2. CASE request'[q] = noRequest BY <2>2, NoRequestTyped, TimesGone
  <2>3. CASE request'[q] = Answered(q, x, o) /\ (q = r \/ Waiting(q)) /\ request[q].bearer = b
    <3>1. /\ request'[q].pc \in {"idle", "accepted"}
          /\ request'[q].pc = "accepted" =>
               /\ o = "active" /\ request'[q].bearer = b
               /\ request'[q].start = request[q].start /\ request'[q].asked = x
      BY <1>0, <2>3, AnsweredFits
    <3>2. request[q].start \in Nat /\ request[q].start <= tick
      <4>1. LeaderOk(r) /\ WaiterOk(q) BY <1>0 DEF TimesInv
      <4>2. request[r].start <= tick BY <1>2, <4>1 DEF LeaderOk, Leading
      <4>3. request[q].start <= tick BY <2>3, <4>1, <4>2 DEF WaiterOk
      <4> QED BY <1>0, <4>3, Numbers
    <3>3. request[q].start < x + Ttl + Flight BY <1>6, <1>7, <3>2
    <3>4. AcceptedOk(q)' BY <1>2, <1>7, <3>1, <3>3 DEF AcceptedOk
    <3> QED BY <3>1, <3>4 DEF TimesOk, LeaderOk, AnswerOk, WaiterOk, Leading, Waiting
  <2> QED BY <1>4, <2>1, <2>2, <2>3
<1>13. TimesInv' BY <1>12 DEF TimesInv, TimesOk
<1>14. TableInv'
  <2>1. Leads(r, b) BY <1>1, <1>2 DEF Leads, Leading
  <2>2. \A q \in Requests : q # r => ~Leads(q, b) BY <1>0, <2>1 DEF TableInv, LedBy
  <2>3. \A q \in Requests : Answered(q, x, o).pc \in {"idle", "accepted"} BY <1>0, AnsweredFits
  <2>4. \A q \in Requests : \/ request'[q] = request[q] /\ ~Leads(q, b)
                                 /\ ~(Waiting(q) /\ request[q].bearer = b)
                            \/ request'[q].pc \in {"idle", "accepted"} /\ request[q].bearer = b
    BY <1>1, <1>4, <2>2, <2>3, NoRequestTyped
  <2> QED BY <1>0, <1>2, <2>4, TableCleared
<1> QED BY <1>10, <1>11, <1>13, <1>14 DEF IntroInv

(* A cancelled leader clears the table; a cancelled waiter cancels the     *)
(* future, and all who wait on it go.                                      *)
LEMMA CancelStep == ASSUME IntroInv, NEW r \in Requests, Cancel(r) PROVE IntroInv'
<1>0. IntroTypeOK /\ CachesInv /\ TimesInv /\ TableInv BY DEF IntroInv
<1>1. PICK b \in Bearers : b = request[r].bearer BY <1>0, Numbers
<1>2. /\ tick' = tick /\ dead' = dead /\ cached' = cached /\ (Leading(r) \/ Waiting(r))
      /\ request' = [q \in Requests |-> IF q = r \/ (Waiting(q) /\ q \in Of(b)) THEN noRequest
                                        ELSE request[q]]
      /\ inflight' = [inflight EXCEPT ![b] = FlightAfterCancel(r)]
  BY <1>1 DEF Cancel
<1>3. \A q \in Requests :
        \/ request'[q] = request[q] /\ q # r /\ ~(Waiting(q) /\ request[q].bearer = b)
        \/ request'[q] = noRequest /\ (q = r \/ Waiting(q)) /\ request[q].bearer = b
  BY <1>1, <1>2 DEF Of
<1>4. request' \in [Requests -> Request]
  <2>1. \A q \in Requests : request'[q] \in Request BY <1>0, <1>3, NoRequestTyped, Numbers
  <2> QED BY <1>2, <2>1
<1>5. IntroTypeOK' BY <1>0, <1>2, <1>4 DEF IntroTypeOK, FlightAfterCancel
<1>6. CachesInv' BY <1>0, <1>2, CachesKept
<1>7. \A q \in Requests : TimesOk(q)'
  BY <1>0, <1>2, <1>3, TimesKept, TimesGone, NoRequestTyped
<1>8. TimesInv' BY <1>7 DEF TimesInv, TimesOk
<1>9. TableInv'
  <2>1. CASE Leading(r)
    <3>1. Leads(r, b) /\ inflight' = [inflight EXCEPT ![b] = "none"]
      BY <1>1, <1>2, <2>1 DEF Leads, FlightAfterCancel
    <3>2. \A q \in Requests : q # r => ~Leads(q, b) BY <1>0, <3>1 DEF TableInv, LedBy
    <3>3. \A q \in Requests : \/ request'[q] = request[q] /\ ~Leads(q, b)
                                   /\ ~(Waiting(q) /\ request[q].bearer = b)
                              \/ request'[q].pc \in {"idle", "accepted"} /\ request[q].bearer = b
      BY <1>3, <3>2, NoRequestTyped
    <3> QED BY <1>0, <3>1, <3>3, TableCleared
  <2>2. CASE ~Leading(r)
    <3>1. Waiting(r) /\ inflight[b] = "pending" BY <1>0, <1>1, <1>2, <2>2 DEF TableInv, AwaitsPending
    <3>2. inflight'[b] = "cancelled" /\ \A c \in Bearers : c # b => inflight'[c] = inflight[c]
      BY <1>0, <1>2, <2>2 DEF IntroTypeOK, FlightAfterCancel
    <3>3. \A q \in Requests, c \in Bearers : Leads(q, c)' <=> Leads(q, c)
      BY <1>3, <3>1, NoRequestTyped DEF Leads, Leading, Waiting
    <3>4. \A c \in Bearers : LedBy(c)' BY <1>0, <3>1, <3>2, <3>3 DEF TableInv, LedBy
    <3>5. ASSUME NEW q \in Requests PROVE AwaitsPending(q)'
      <4> SUFFICES ASSUME Waiting(q)' PROVE inflight'[request'[q].bearer] = "pending"
        BY DEF AwaitsPending
      <4>1. request'[q] = request[q] /\ Waiting(q) /\ request[q].bearer # b
        BY <1>3, NoRequestTyped DEF Waiting
      <4>2. request[q].bearer \in Bearers BY <1>0, Numbers
      <4> QED BY <1>0, <3>2, <4>1, <4>2 DEF TableInv, AwaitsPending
    <3> QED BY <3>4, <3>5 DEF TableInv
  <2> QED BY <2>1, <2>2
<1> QED BY <1>5, <1>6, <1>8, <1>9 DEF IntroInv

---------------------------------------------------------------------------
(* The theorems                                                            *)

(* Every step of the cache, the table of futures and the clock.            *)
LEMMA NextInv == ASSUME IntroInv, [IntroNext]_introVars PROVE IntroInv'
<1>1. CASE IntroNext
  BY <1>1, TickStep, RevokeStep, EvictStep, RestartStep, HitStep, LeadStep, FollowStep,
     AnswerStep, SettleStep, CancelStep DEF IntroNext
<1>2. CASE UNCHANGED introVars
  <2>1. IntroTypeOK' BY <1>2 DEF introVars, IntroInv, IntroTypeOK
  <2>2. CachesInv' BY <1>2 DEF introVars, IntroInv, CachesInv, CacheOk
  <2>3. \A r \in Requests : TimesOk(r)' BY <1>2, TimesKept DEF introVars, IntroInv
  <2>4. TimesInv' BY <2>3 DEF TimesInv, TimesOk
  <2>5. TableInv' BY <1>2 DEF introVars, IntroInv, TableInv, LedBy, Leads, AwaitsPending, Leading, Waiting
  <2> QED BY <2>1, <2>2, <2>4, <2>5 DEF IntroInv
<1> QED BY <1>1, <1>2

(* What introspect() caches, shares and answers keeps to its times, and    *)
(* _inflight to its leaders.                                               *)
THEOREM IntrospectionInvariant == IntroSpec => []IntroInv
<1>1. IntroInit => IntroInv BY InitInv
<1>2. IntroInv /\ [IntroNext]_introVars => IntroInv' BY NextInv
<1> QED BY <1>1, <1>2, PTL DEF IntroSpec

(* introspect() accepts a request on an answer Hydra gave while the token  *)
(* was alive, no older than the cache's lifetime and one upstream call.    *)
THEOREM AcceptanceSound == IntroSpec => []AcceptedWhileAlive
<1>1. IntroInv => AcceptedWhileAlive
  BY DEF IntroInv, TimesInv, AcceptedOk, AcceptedWhileAlive
<1> QED BY <1>1, IntrospectionInvariant, PTL

(* _inflight holds a token's future while exactly one request calls        *)
(* upstream for it, and no one waits on a future without a leader.         *)
THEOREM OneCallPerToken == IntroSpec => []FlightsLed
<1>1. IntroInv => FlightsLed
  <2> SUFFICES ASSUME IntroInv, NEW b \in Bearers
               PROVE  /\ Cardinality({r \in Of(b) : Leading(r)}) = IF inflight[b] = "none" THEN 0 ELSE 1
                      /\ (\E r \in Of(b) : Waiting(r)) => inflight[b] = "pending"
    BY DEF FlightsLed
  <2>1. LedBy(b) BY DEF IntroInv, TableInv
  <2>2. CASE inflight[b] = "none"
    <3>1. {r \in Of(b) : Leading(r)} = {} BY <2>1, <2>2 DEF LedBy, Leads, Of
    <3> QED BY <2>2, <3>1, FS_EmptySet DEF IntroInv, TableInv, AwaitsPending, Of
  <2>3. CASE inflight[b] # "none"
    <3>1. PICK r \in Requests : Leads(r, b) BY <2>1, <2>3 DEF LedBy
    <3>2. {q \in Of(b) : Leading(q)} = {r} BY <2>1, <3>1 DEF LedBy, Leads, Of
    <3> QED BY <2>3, <3>2, FS_Singleton DEF IntroInv, TableInv, AwaitsPending, Of
  <2> QED BY <2>2, <2>3
<1> QED BY <1>1, IntrospectionInvariant, PTL

---------------------------------------------------------------------------
(* Deployment shapes                                                       *)

(* A replica that has begun to boot has passed the checks of its settings, *)
(* and one that serves the conflict check at the end.                      *)
Checked(r) ==
  /\ booting[r] # "down" => DeployShape /\ GatewaySignature
  /\ booting[r] = "up" => ~(On("trust_gateway") /\ EffectiveApiKey)

(* While no operator is deleted there is at most one row, replicas past    *)
(* the verification have one, and past the look-up they are bound to it.   *)
SingleRow == \A i, j \in users : i = j
Settled(r) ==
  /\ ~On("hydra") /\ booting[r] \in {"resolve", "wire", "up"} => users # {}
  /\ ~On("hydra") /\ booting[r] \in {"wire", "up"} => bound[r] \in users
OneOperator == deleted = {} => SingleRow /\ \A r \in Replicas : Settled(r)

DeployInv ==
  /\ DeployTypeOK
  /\ \A r \in Replicas : Checked(r)
  /\ OneOperator

---------------------------------------------------------------------------
LEMMA DeployInitInv == DeployInit => DeployInv
BY DEF DeployInit, DeployInv, DeployTypeOK, Steps, Checked, OneOperator, SingleRow, Settled

(* One replica boots, the others stay at their step.                       *)
LEMMA ReachEffect ==
  ASSUME DeployTypeOK, NEW r \in Replicas, NEW place \in Steps, Reach(r, place)
  PROVE  /\ booting' \in [Replicas -> Steps] /\ booting'[r] = place
         /\ \A s \in Replicas : s # r => booting'[s] = booting[s]
BY DEF DeployTypeOK, Reach

(* The checks depend on the settings alone, which never change.            *)
LEMMA SettingsFixed ==
  ASSUME settings' = settings
  PROVE  /\ DeployShape' = DeployShape /\ GatewaySignature' = GatewaySignature
         /\ EffectiveApiKey' = EffectiveApiKey
         /\ \A f : On(f)' = On(f)
BY DEF DeployShape, GatewaySignature, EffectiveApiKey, On

LEMMA StartStep ==
  ASSUME DeployInv, NEW r \in Replicas, Start(r)
  PROVE  DeployInv'
<1> DEFINE place == IF On("hydra") THEN "resolve" ELSE "scaffold"
<1>1. /\ DeployTypeOK /\ Reach(r, place) /\ place \in Steps /\ settings' = settings
      /\ DeployShape /\ GatewaySignature /\ UNCHANGED <<users, deleted>>
      /\ bound' = [bound EXCEPT ![r] = Nobody] /\ (place = "resolve" => On("hydra"))
      /\ place \in {"resolve", "scaffold"}
  BY DEF Start, DeployInv, Steps
<1> HIDE DEF place
<1>2. bound' \in [Replicas -> UserIds \cup {Nobody}]
      /\ \A s \in Replicas : s # r => bound'[s] = bound[s]
  BY <1>1 DEF DeployTypeOK
<1>3. DeployTypeOK'
  BY <1>1, <1>2, ReachEffect DEF DeployTypeOK
<1>4. (\A s \in Replicas : Checked(s))'
  BY <1>1, ReachEffect, SettingsFixed DEF DeployInv, Checked
<1>5. OneOperator'
  BY <1>1, <1>2, ReachEffect, SettingsFixed DEF DeployInv, OneOperator, SingleRow, Settled
<1> QED BY <1>3, <1>4, <1>5 DEF DeployInv

(* Only the first replica inserts a row: the next ones find it.            *)
LEMMA ScaffoldStep ==
  ASSUME DeployInv, NEW r \in Replicas, Scaffold(r)
  PROVE  DeployInv'
<1>1. /\ DeployTypeOK /\ Reach(r, "verify") /\ "verify" \in Steps /\ settings' = settings
      /\ booting[r] = "scaffold" /\ UNCHANGED <<bound, deleted>>
  BY DEF Scaffold, DeployInv, Steps
<1>2. /\ users # {} => users' = users
      /\ users = {} => \E id \in UserIds \ deleted : users' = {id}
  BY DEF Scaffold
<1>3. DeployTypeOK'
  BY <1>1, <1>2, ReachEffect DEF DeployTypeOK
<1>4. (\A s \in Replicas : Checked(s))'
  BY <1>1, ReachEffect, SettingsFixed DEF DeployInv, Checked
<1>5. OneOperator'
  BY <1>1, <1>2, ReachEffect, SettingsFixed DEF DeployInv, OneOperator, SingleRow, Settled
<1> QED BY <1>3, <1>4, <1>5 DEF DeployInv

LEMMA VerifyStep ==
  ASSUME DeployInv, NEW r \in Replicas, Verify(r)
  PROVE  DeployInv'
<1> DEFINE place == IF users = {} THEN "down" ELSE "resolve"
<1>1. /\ DeployTypeOK /\ Reach(r, place) /\ place \in Steps /\ settings' = settings
      /\ booting[r] = "verify" /\ UNCHANGED <<bound, users, deleted>>
      /\ place \in {"down", "resolve"} /\ (place = "resolve" => users # {})
  BY DEF Verify, DeployInv, Steps
<1> HIDE DEF place
<1> QED
  BY <1>1, ReachEffect, SettingsFixed
     DEF DeployInv, DeployTypeOK, Checked, OneOperator, SingleRow, Settled

(* Without Hydra there is an operator's address, and by now a row for it.  *)
LEMMA ResolveStep ==
  ASSUME DeployInv, NEW r \in Replicas, ResolveOperator(r)
  PROVE  DeployInv'
<1>1. /\ DeployTypeOK /\ Reach(r, "wire") /\ "wire" \in Steps /\ settings' = settings
      /\ booting[r] = "resolve" /\ UNCHANGED <<users, deleted>>
  BY DEF ResolveOperator, DeployInv, Steps
<1>2. On("operator_email") = ~On("hydra")
  BY <1>1 DEF DeployInv, Checked, DeployShape
<1>3. /\ bound' \in [Replicas -> UserIds \cup {Nobody}]
      /\ \A s \in Replicas : s # r => bound'[s] = bound[s]
      /\ ~On("hydra") /\ users # {} => bound'[r] \in users
  BY <1>1, <1>2 DEF ResolveOperator, DeployTypeOK
<1>4. DeployTypeOK'
  BY <1>1, <1>3, ReachEffect DEF DeployTypeOK
<1>5. (\A s \in Replicas : Checked(s))'
  BY <1>1, ReachEffect, SettingsFixed DEF DeployInv, Checked
<1>6. OneOperator'
  BY <1>1, <1>3, ReachEffect, SettingsFixed DEF DeployInv, OneOperator, SingleRow, Settled
<1> QED BY <1>4, <1>5, <1>6 DEF DeployInv

(* The end of the boot, and the end of a replica.                          *)
LEMMA WireStep ==
  ASSUME DeployInv, NEW r \in Replicas, Wire(r) \/ GoDown(r)
  PROVE  DeployInv'
<1>1. PICK place \in {"down", "up"} :
        /\ Reach(r, place)
        /\ place = "up" => booting[r] = "wire" /\ ~(On("trust_gateway") /\ EffectiveApiKey)
  BY DEF Wire, GoDown
<1>2. /\ DeployTypeOK /\ place \in Steps /\ settings' = settings
      /\ UNCHANGED <<bound, users, deleted>>
  BY DEF Wire, GoDown, DeployInv, Steps
<1> QED
  BY <1>1, <1>2, ReachEffect, SettingsFixed
     DEF DeployInv, DeployTypeOK, Checked, OneOperator, SingleRow, Settled

LEMMA RemoveStep ==
  ASSUME DeployInv, RemoveOperator
  PROVE  DeployInv'
<1>1. deleted' # {} /\ settings' = settings /\ booting' = booting
  BY DEF RemoveOperator
<1>2. DeployTypeOK'
  BY DEF DeployInv, DeployTypeOK, RemoveOperator
<1> QED BY <1>1, <1>2, SettingsFixed DEF DeployInv, Checked, OneOperator

LEMMA DeployStep == DeployInv /\ [DeployNext]_deployVars => DeployInv'
<1> SUFFICES ASSUME DeployInv, [DeployNext]_deployVars PROVE DeployInv'
  OBVIOUS
<1>1. CASE UNCHANGED deployVars
  BY <1>1, SettingsFixed
     DEF deployVars, DeployInv, DeployTypeOK, Checked, OneOperator, SingleRow, Settled
<1>2. CASE DeployNext
  BY <1>2, StartStep, ScaffoldStep, VerifyStep, ResolveStep, WireStep, RemoveStep DEF DeployNext
<1> QED BY <1>1, <1>2

---------------------------------------------------------------------------
(* Two sequences of one element make the pair.                             *)
LEMMA PairOf ==
  ASSUME NEW x, NEW y
  PROVE  <<x>> \o <<y>> = <<x, y>>
<1> DEFINE S == {x, y}
<1> DEFINE both == <<x>> \o <<y>>
<1>1. <<x>> \in Seq(S) /\ <<y>> \in Seq(S) /\ <<x, y>> \in Seq(S) /\ Len(<<x, y>>) = 2
  OBVIOUS
<1>2. both \in Seq(S) /\ Len(both) = 2 /\ both[1] = x /\ both[2] = y
  BY <1>1
<1> HIDE DEF both, S
<1>3. \A i \in 1 .. 2 : both[i] = <<x, y>>[i]
  BY <1>2
<1>4. both = <<x, y>>
  BY ONLY <1>1, <1>2, <1>3, SeqEqual
<1> QED BY <1>4 DEF both

(* The chains of the deployments that come up: a single strategy, or the   *)
(* API key before self-hosted grants.                                      *)
LEMMA ChainShape ==
  ASSUME DeployInv, NEW r \in Replicas, Up(r)
  PROVE  \/ Strategies = <<"trust_gateway">> /\ On("trust_gateway") /\ On("hydra") /\ GatewaySignature
         \/ Strategies = <<"hydra">> /\ On("hydra") /\ ~On("trust_gateway")
         \/ Strategies = <<"api_key">> /\ ~On("hydra") /\ ~On("trust_gateway")
         \/ Strategies = <<"api_key", "selfhost">> /\ ~On("hydra") /\ ~On("trust_gateway")
<1>1. /\ DeployShape /\ GatewaySignature
      /\ ~(On("trust_gateway") /\ EffectiveApiKey)
  BY DEF DeployInv, Checked, Up
<1>2. CASE On("trust_gateway")
  <2>1. On("hydra") BY <1>1, <1>2 DEF DeployShape, EffectiveApiKey
  <2> QED BY <1>1, <1>2, <2>1 DEF Strategies
<1>3. CASE ~On("trust_gateway") /\ On("hydra")
  <2>1. ~On("password") /\ ~EffectiveApiKey BY <1>1, <1>3 DEF DeployShape, EffectiveApiKey
  <2>2. Strategies = (<<>> \o <<"hydra">>) \o <<>> BY <1>3, <2>1 DEF Strategies
  <2> QED BY <1>3, <2>2
<1>4. CASE ~On("trust_gateway") /\ ~On("hydra")
  <2>1. EffectiveApiKey BY <1>1, <1>4 DEF DeployShape, EffectiveApiKey
  <2>2. Strategies = (<<"api_key">> \o <<>>) \o (IF On("password") THEN <<"selfhost">> ELSE <<>>)
    BY <1>4, <2>1 DEF Strategies
  <2>3. CASE On("password")
    <3>1. Strategies = (<<"api_key">> \o <<>>) \o <<"selfhost">> BY <2>2, <2>3
    <3>2. <<"api_key">> \o <<>> = <<"api_key">> OBVIOUS
    <3>3. <<"api_key">> \o <<"selfhost">> = <<"api_key", "selfhost">> BY PairOf, Zenon
    <3> QED BY <1>4, <3>1, <3>2, <3>3
  <2>4. CASE ~On("password")
    <3>1. Strategies = (<<"api_key">> \o <<>>) \o <<>> BY <2>2, <2>4
    <3>2. Strategies = <<"api_key">> BY <3>1
    <3> QED BY <1>4, <3>2
  <2> QED BY <2>3, <2>4
<1> QED BY <1>2, <1>3, <1>4

(* The first strategy that decides gives the answer.                       *)
LEMMA FirstDecides ==
  ASSUME NEW r, NEW q, NEW i \in DOMAIN Strategies, DOMAIN Strategies \subseteq Int,
         Verdict(Strategies[i], r, q) # Defer,
         \A j \in DOMAIN Strategies : j < i => Verdict(Strategies[j], r, q) = Defer
  PROVE  AnswerCall(r, q) = Verdict(Strategies[i], r, q)
<1> DEFINE deciding == {j \in DOMAIN Strategies : Verdict(Strategies[j], r, q) # Defer}
<1> DEFINE first == CHOOSE j \in deciding : \A k \in deciding : j <= k
<1>1. i \in deciding /\ \A k \in deciding : i <= k
  OBVIOUS
<1>2. first \in deciding /\ \A k \in deciding : first <= k
  BY <1>1
<1>3. first = i
  BY <1>1, <1>2
<1>4. AnswerCall(r, q) = Verdict(Strategies[first], r, q)
  BY <1>1 DEF AnswerCall
<1> QED BY <1>3, <1>4

LEMMA NoneDecides ==
  ASSUME NEW r, NEW q, \A j \in DOMAIN Strategies : Verdict(Strategies[j], r, q) = Defer
  PROVE  AnswerCall(r, q) = Reject
BY DEF AnswerCall

(* What each strategy can accept.                                          *)
LEMMA Verdicts ==
  ASSUME NEW r, NEW q \in Callers
  PROVE  /\ Defer.verdict # "accept" /\ Reject.verdict # "accept" /\ Defer # Reject
         /\ Verdict("trust_gateway", r, q).verdict = "accept" =>
              /\ Verdict("trust_gateway", r, q).who = Subject
              /\ On("signed") => q.envelope = "signed"
         /\ Verdict("hydra", r, q).verdict = "accept" => Verdict("hydra", r, q).who = Subject
         /\ Verdict("api_key", r, q).verdict = "accept" => Verdict("api_key", r, q).who = bound[r]
         /\ Verdict("selfhost", r, q).verdict = "accept" =>
              /\ Verdict("selfhost", r, q).who = bound[r]
              /\ Verdict("api_key", r, q) = Defer
BY DEF Verdict, TrustGateway, Hydra, ApiKey, SelfHost, AsOperator, Accept, Defer, Reject, Callers

(* The order of the chain never changes an answer, and the caller becomes  *)
(* the user its shape provides.                                            *)
LEMMA ChainFits == DeployInv => ChainFitsShape
<1> SUFFICES ASSUME DeployInv, NEW r \in Replicas, Up(r), NEW q \in Callers
    PROVE  /\ \A i \in DOMAIN Strategies :
                Verdict(Strategies[i], r, q).verdict = "accept" =>
                  AnswerCall(r, q) = Verdict(Strategies[i], r, q)
           /\ AnswerCall(r, q).verdict = "accept" =>
                /\ AnswerCall(r, q).who = IF On("hydra") THEN Subject ELSE bound[r]
                /\ On("trust_gateway") /\ On("deployed") => q.envelope = "signed"
  BY DEF ChainFitsShape
<1>1. ASSUME NEW s, Strategies = <<s>>
      PROVE  /\ DOMAIN Strategies = {1} /\ Strategies[1] = s
             /\ Verdict(s, r, q) = Defer => AnswerCall(r, q) = Reject
             /\ Verdict(s, r, q) # Defer => AnswerCall(r, q) = Verdict(s, r, q)
  <2>1. DOMAIN Strategies = {1} /\ Strategies[1] = s BY <1>1
  <2> QED BY <2>1, FirstDecides, NoneDecides
<1>2. CASE Strategies = <<"trust_gateway">> /\ On("trust_gateway") /\ On("hydra") /\ GatewaySignature
  <2>1. On("deployed") => On("signed") BY <1>2 DEF GatewaySignature
  <2> QED BY <1>1, <1>2, <2>1, Verdicts
<1>3. CASE Strategies = <<"hydra">> /\ On("hydra") /\ ~On("trust_gateway")
  BY <1>1, <1>3, Verdicts
<1>4. CASE Strategies = <<"api_key">> /\ ~On("hydra") /\ ~On("trust_gateway")
  BY <1>1, <1>4, Verdicts
<1>5. CASE Strategies = <<"api_key", "selfhost">> /\ ~On("hydra") /\ ~On("trust_gateway")
  <2>1. DOMAIN Strategies = {1, 2} /\ Strategies[1] = "api_key" /\ Strategies[2] = "selfhost"
    BY <1>5
  <2>2. Verdict("api_key", r, q) # Defer => AnswerCall(r, q) = Verdict("api_key", r, q)
    BY <2>1, FirstDecides
  <2>3. Verdict("api_key", r, q) = Defer /\ Verdict("selfhost", r, q) # Defer =>
          AnswerCall(r, q) = Verdict("selfhost", r, q)
    BY <2>1, FirstDecides
  <2>4. Verdict("api_key", r, q) = Defer /\ Verdict("selfhost", r, q) = Defer =>
          AnswerCall(r, q) = Reject
    BY <2>1, NoneDecides
  <2> QED BY <1>5, <2>1, <2>2, <2>3, <2>4, Verdicts
<1> QED BY <1>2, <1>3, <1>4, <1>5, ChainShape

(* The three readings of a token's scopes agree.                           *)
LEMMA GateCovers == GateCoversTools
<1> SUFFICES ASSUME NEW scopes \in SUBSET Scopes, NEW permission \in Permissions
    PROVE  /\ HasScope(Carried(scopes), "journal") => CheckScope(Carried(scopes), permission)
           /\ HasScope(Carried(scopes), permission) = CheckScope(Carried(scopes), permission)
           /\ permission \in VisibleTools(Carried(scopes)) <=> CheckScope(Carried(scopes), permission)
  BY DEF GateCoversTools
<1> DEFINE held == Carried(scopes)
<1>1. held \subseteq Scopes
  BY DEF Carried, Scopes
<1> HIDE DEF held
<1>2. /\ Grants("journal") = Permissions /\ Grants("openid") = {}
      /\ \A p \in Permissions : Grants(p) = {p}
  BY DEF Grants, Permissions
<1>3. permission \in held => permission \in Grants(permission)
  BY <1>2
<1>4. CheckScope(held, permission) <=> \E scope \in held : permission \in Grants(scope)
  BY <1>2, <1>3 DEF CheckScope
<1>5. HasScope(held, "journal") => CheckScope(held, permission)
  <2>1. "journal" \notin Permissions BY DEF Permissions
  <2>2. Permissions # {} BY DEF Permissions
  <2>3. HasScope(held, "journal") => "journal" \in held \/ Permissions \subseteq held
    BY <1>2, <2>1 DEF HasScope, CheckScope
  <2> QED BY <1>2, <1>4, <2>3
<1>6. HasScope(held, permission) = CheckScope(held, permission)
  <2>1. Grants(permission) \subseteq held => permission \in held BY <1>2
  <2> QED BY <2>1, <1>4, <1>3 DEF HasScope, CheckScope
<1>7. permission \in VisibleTools(held) <=> CheckScope(held, permission)
  BY <1>4 DEF VisibleTools
<1> QED BY <1>5, <1>6, <1>7 DEF held

---------------------------------------------------------------------------
(* DeployInv holds in every reachable state.                               *)
THEOREM DeployInvariant == DeploySpec => []DeployInv
BY DeployInitInv, DeployStep, PTL DEF DeploySpec

(* As long as no operator is deleted, all replicas of a single-owner       *)
(* deployment are bound to one row (users/bootstrap.py, main.py).          *)
THEOREM OperatorsAgree == DeploySpec => []OperatorAgreed
<1>1. DeployInv => OperatorAgreed
  BY DEF DeployInv, OperatorAgreed, OneOperator, SingleRow, Settled, Up
<1> QED BY <1>1, DeployInvariant, PTL

(* In every deployment that comes up a request gets the answer of its      *)
(* shape, and the gates and tools read its scopes alike                    *)
(* (auth/strategies.py, auth/scope.py, tools/registry.py).                 *)
THEOREM AnswersFit == DeploySpec => []AnswersFitShape
<1>1. DeployInv => AnswersFitShape
  BY ChainFits, GateCovers DEF AnswersFitShape
<1> QED BY <1>1, DeployInvariant, PTL

---------------------------------------------------------------------------
(* The attempt limit of login and registration, for any number of posts    *)
(* in flight, any limit, window and retention.                             *)

\* Posts that have been let past the limit, and wrong passwords not recorded yet.
Ahead == {p \in Posts : at[p] \in {"form", "register"}}
Unwritten == {p \in Posts : at[p] = "failed"}
Since(rows, t) == {e \in rows : e.time >= t}
Numbered(rows) == \A e \in rows : e.nth \in 1 .. Cardinality(RowsAt(rows, e.time))
RowsOk(rows) == rows \subseteq Row /\ IsFiniteSet(rows) /\ Numbered(rows)

(* Of a window that is not over, every attempt is in the table or about to *)
(* be, or its record was lost; and those who are past the check but have   *)
(* not tried yet were let past below the limit.                            *)
WindowOk(s) ==
  s + Window >= clock =>
    /\ Cardinality(Since(attempts, s))
         <= Cardinality(Since(events, s)) + Cardinality(Unwritten) + unrecorded
    /\ Cardinality(Since(attempts, s)) + Cardinality(Ahead)
         <= MaxAttempts - 1 + Cardinality(Posts) + unrecorded

AttemptInv ==
  /\ AttemptTypeOK /\ RowsOk(events) /\ RowsOk(attempts)
  /\ \A e \in attempts : e.time <= clock
  /\ \A s \in Times : WindowOk(s)
  /\ LimitHolds

---------------------------------------------------------------------------
LEMMA PostSets ==
  /\ \A S \in SUBSET Posts : IsFiniteSet(S) /\ Cardinality(S) \in Nat
  /\ IsFiniteSet(Posts) /\ Cardinality(Posts) \in Nat
BY AttemptAssumption, FS_Subset, FS_CardinalityType

LEMMA RowSets ==
  ASSUME NEW rows, IsFiniteSet(rows)
  PROVE  /\ \A S \in SUBSET rows : IsFiniteSet(S) /\ Cardinality(S) \in Nat
         /\ \A s : IsFiniteSet(Since(rows, s)) /\ Cardinality(Since(rows, s)) \in Nat
<1>1. \A S \in SUBSET rows : IsFiniteSet(S) /\ Cardinality(S) \in Nat
  BY FS_Subset, FS_CardinalityType
<1>2. \A s : Since(rows, s) \in SUBSET rows
  BY DEF Since
<1> QED BY <1>1, <1>2

(* An INSERT adds one row, of the present time.                            *)
LEMMA AddCounts ==
  ASSUME clock \in Times, NEW rows, RowsOk(rows)
  PROVE  /\ RowsOk(Add(rows)) /\ rows \subseteq Add(rows)
         /\ \A e \in Add(rows) : e \in rows \/ e.time = clock
         /\ \A s \in Times : Cardinality(Since(Add(rows), s))
              = IF clock >= s THEN Cardinality(Since(rows, s)) + 1 ELSE Cardinality(Since(rows, s))
<1> DEFINE here == RowsAt(rows, clock)
           n == Cardinality(here) + 1
           new == [time |-> clock, nth |-> n]
<1>1. rows \subseteq Row /\ IsFiniteSet(rows) /\ Numbered(rows) /\ here \in SUBSET rows
      /\ Cardinality(here) \in Nat /\ IsFiniteSet(here)
  BY RowSets DEF RowsOk, RowsAt
<1>2. n \in Nat /\ new \in Row /\ new.time = clock /\ new.nth = n
  BY <1>1 DEF Row
<1>3. new \notin rows
  <2> SUFFICES ASSUME new \in rows PROVE FALSE
    OBVIOUS
  <2>1. new.nth \in 1 .. Cardinality(RowsAt(rows, new.time))
    BY <1>1 DEF Numbered
  <2>2. n \in 1 .. Cardinality(here)
    BY <1>2, <2>1
  <2> HIDE DEF here, new
  <2> QED BY <1>1, <2>2
<1>4. Add(rows) = rows \cup {new}
  BY DEF Add
<1> HIDE DEF new, n
<1>5. IsFiniteSet(Add(rows)) /\ Add(rows) \subseteq Row
  BY <1>1, <1>2, <1>4, FS_AddElement
<1>6. RowsAt(Add(rows), clock) = here \cup {new} /\ new \notin here
      /\ \A t : t # clock => RowsAt(Add(rows), t) = RowsAt(rows, t)
  BY <1>2, <1>3, <1>4 DEF RowsAt
<1>7. Cardinality(RowsAt(Add(rows), clock)) = n
  <2> HIDE DEF here
  <2>1. Cardinality(here \cup {new}) = Cardinality(here) + 1
    BY <1>1, <1>6, FS_AddElement
  <2> QED BY <1>6, <2>1 DEF n
<1>8. Numbered(Add(rows))
  <2> SUFFICES ASSUME NEW e \in Add(rows) PROVE e.nth \in 1 .. Cardinality(RowsAt(Add(rows), e.time))
    BY DEF Numbered
  <2>1. CASE e = new
    <3>1. n \in 1 .. n
      BY <1>1 DEF n
    <3> QED BY <1>2, <1>7, <2>1, <3>1
  <2>2. CASE e \in rows /\ e.time # clock
    BY <1>1, <1>6, <2>2 DEF Numbered
  <2>3. CASE e \in rows /\ e.time = clock
    <3>1. e.nth \in 1 .. Cardinality(here)
      BY <1>1, <2>3 DEF Numbered
    <3>2. e.nth \in 1 .. n
      BY <1>1, <3>1 DEF n
    <3> QED BY <1>7, <2>3, <3>2
  <2> QED BY <1>4, <2>1, <2>2, <2>3
<1>9. ASSUME NEW s \in Times
      PROVE  Cardinality(Since(Add(rows), s))
               = IF clock >= s THEN Cardinality(Since(rows, s)) + 1 ELSE Cardinality(Since(rows, s))
  <2>1. IsFiniteSet(Since(rows, s)) /\ new \notin Since(rows, s)
    BY <1>1, <1>3, RowSets DEF Since
  <2>2. CASE clock >= s
    <3>1. Since(Add(rows), s) = Since(rows, s) \cup {new}
      BY <1>2, <1>4, <2>2 DEF Since
    <3> QED BY <2>1, <2>2, <3>1, FS_AddElement
  <2>3. CASE ~(clock >= s)
    <3>1. Since(Add(rows), s) = Since(rows, s)
      BY <1>2, <1>4, <2>3 DEF Since
    <3> QED BY <2>3, <3>1
  <2> QED BY <2>2, <2>3
<1> QED BY <1>2, <1>4, <1>5, <1>8, <1>9 DEF RowsOk

(* A window that is not over has at its end what is in it by now; one that *)
(* is over gets no more.                                                   *)
LEMMA LimitFromWindows ==
  ASSUME AttemptTypeOK, RowsOk(attempts), \A s \in Times : WindowOk(s),
         \A s \in Times : s + Window <= LastTime /\ s + Window < clock =>
           Cardinality(RowsIn(attempts, s, s + Window))
             <= MaxAttempts - 1 + Cardinality(Posts) + unrecorded
  PROVE  LimitHolds
<1> SUFFICES ASSUME NEW s \in Times, s + Window <= LastTime
             PROVE  Cardinality(RowsIn(attempts, s, s + Window))
                      <= MaxAttempts - 1 + Cardinality(Posts) + unrecorded
  BY DEF LimitHolds
<1>1. s \in Nat /\ clock \in Nat /\ Window \in Nat /\ MaxAttempts \in Nat /\ unrecorded \in Nat
  BY AttemptAssumption DEF AttemptTypeOK, Times
<1>2. CASE s + Window >= clock
  <2>1. RowsIn(attempts, s, s + Window) \subseteq Since(attempts, s)
    BY <1>1 DEF RowsIn, Since, RowsOk, Row, Times
  <2>2. /\ IsFiniteSet(Since(attempts, s)) /\ Cardinality(Since(attempts, s)) \in Nat
        /\ Cardinality(RowsIn(attempts, s, s + Window)) \in Nat
    BY RowSets DEF RowsOk, RowsIn
  <2>3. Cardinality(RowsIn(attempts, s, s + Window)) <= Cardinality(Since(attempts, s))
    BY <2>1, <2>2, FS_Subset
  <2>4. Cardinality(Ahead) \in Nat /\ Cardinality(Posts) \in Nat
    BY PostSets DEF Ahead
  <2>5. Cardinality(Since(attempts, s)) + Cardinality(Ahead)
          <= MaxAttempts - 1 + Cardinality(Posts) + unrecorded
    BY <1>2 DEF WindowOk
  <2> QED BY <1>1, <2>2, <2>3, <2>4, <2>5
<1>3. CASE s + Window < clock
  BY <1>3
<1> QED BY <1>1, <1>2, <1>3

(* A step that takes no time and forgets no lost record has only the       *)
(* windows that are not over to answer for.                                *)
LEMMA WindowsSuffice ==
  ASSUME AttemptInv, AttemptTypeOK', RowsOk(events)', RowsOk(attempts)', clock' = clock,
         \A e \in attempts' : e \in attempts \/ e.time = clock,
         attempts \subseteq attempts',
         unrecorded' >= unrecorded, \A s \in Times : WindowOk(s)'
  PROVE  AttemptInv'
<1>1. clock \in Nat /\ Window \in Nat /\ \A s \in Times : s \in Nat
  BY AttemptAssumption DEF AttemptInv, AttemptTypeOK, Times
<1>2. \A e \in attempts' : e.time <= clock'
  BY <1>1 DEF AttemptInv
<1>3. ASSUME NEW s \in Times, s + Window <= LastTime, s + Window < clock
      PROVE  Cardinality(RowsIn(attempts', s, s + Window))
               <= MaxAttempts - 1 + Cardinality(Posts) + unrecorded'
  <2>1. RowsIn(attempts', s, s + Window) = RowsIn(attempts, s, s + Window)
    BY <1>1, <1>3 DEF RowsIn
  <2>2. Cardinality(RowsIn(attempts, s, s + Window))
          <= MaxAttempts - 1 + Cardinality(Posts) + unrecorded
    BY <1>3 DEF AttemptInv, LimitHolds
  <2>3. Cardinality(RowsIn(attempts, s, s + Window)) \in Nat
    BY RowSets DEF AttemptInv, RowsOk, RowsIn
  <2>4. unrecorded \in Nat /\ unrecorded' \in Nat /\ MaxAttempts \in Nat /\ Cardinality(Posts) \in Nat
    BY AttemptAssumption, PostSets DEF AttemptInv, AttemptTypeOK
  <2> QED BY <2>1, <2>2, <2>3, <2>4
<1>4. LimitHolds'
  <2> SUFFICES ASSUME NEW s \in Times, s + Window <= LastTime
               PROVE  Cardinality(RowsIn(attempts', s, s + Window))
                        <= MaxAttempts - 1 + Cardinality(Posts) + unrecorded'
    BY DEF LimitHolds
  <2>1. CASE s + Window < clock
    BY <1>3, <2>1
  <2>2. CASE s + Window >= clock
    <3>1. RowsIn(attempts', s, s + Window) \subseteq Since(attempts', s)
      BY DEF RowsIn, Since
    <3>2. /\ IsFiniteSet(Since(attempts', s)) /\ Cardinality(Since(attempts', s)) \in Nat
          /\ Cardinality(RowsIn(attempts', s, s + Window)) \in Nat
      BY RowSets DEF RowsOk, RowsIn
    <3>3. Cardinality(RowsIn(attempts', s, s + Window)) <= Cardinality(Since(attempts', s))
      BY <3>1, <3>2, FS_Subset
    <3>4. Cardinality(Ahead') \in Nat /\ Cardinality(Posts) \in Nat
      BY PostSets DEF Ahead
    <3>5. Cardinality(Since(attempts', s)) + Cardinality(Ahead')
            <= MaxAttempts - 1 + Cardinality(Posts) + unrecorded'
      BY <2>2 DEF WindowOk
    <3>6. unrecorded' \in Nat /\ MaxAttempts \in Nat
      BY AttemptAssumption DEF AttemptTypeOK
    <3> QED BY <3>2, <3>3, <3>4, <3>5, <3>6
  <2> QED BY <1>1, <2>1, <2>2
<1> QED BY <1>2, <1>4 DEF AttemptInv

LEMMA OneFewer ==
  ASSUME NEW S \in SUBSET Posts, NEW p \in S
  PROVE  Cardinality(S \ {p}) = Cardinality(S) - 1 /\ Cardinality(S) \in Nat
         /\ Cardinality(S \ {p}) \in Nat
BY PostSets, FS_RemoveElement

(* What the sets count to, as numbers.                                     *)
LEMMA Counts ==
  ASSUME AttemptInv
  PROVE  /\ unrecorded \in Nat /\ clock \in Nat /\ Window \in Nat /\ Retention \in Nat
         /\ MaxAttempts \in Nat \ {0} /\ Cardinality(Posts) \in Nat
         /\ Cardinality(Ahead) \in Nat /\ Cardinality(Unwritten) \in Nat
         /\ Ahead \in SUBSET Posts /\ Unwritten \in SUBSET Posts
         /\ \A s \in Times : /\ s \in Nat
                             /\ Cardinality(Since(attempts, s)) \in Nat
                             /\ Cardinality(Since(events, s)) \in Nat
<1>1. Ahead \in SUBSET Posts /\ Unwritten \in SUBSET Posts
  BY DEF Ahead, Unwritten
<1> QED BY <1>1, AttemptAssumption, PostSets, RowSets DEF AttemptInv, AttemptTypeOK, RowsOk, Times

(* No attempt is later than the clock.                                     *)
LEMMA NoneAhead ==
  ASSUME AttemptInv, NEW s \in Times, ~(clock >= s)
  PROVE  Cardinality(Since(attempts, s)) = 0
<1>1. Since(attempts, s) = {}
  BY Counts DEF AttemptInv, Since, RowsOk, Row, Times
<1> QED BY <1>1, FS_EmptySet

(* At the check, those ahead and those unwritten are different posts, and  *)
(* the table holds fewer than the limit.                                   *)
LEMMA CheckStep ==
  ASSUME AttemptInv, NEW p \in Posts, NEW place \in {"form", "register"}, at[p] = "idle", ~AtLimit,
         Become(p, place), UNCHANGED <<events, attempts, unrecorded, clock>>
  PROVE  AttemptInv'
<1>1. AttemptTypeOK'
  BY DEF AttemptInv, AttemptTypeOK, Become
<1>2. Unwritten' = Unwritten /\ Unwritten' \cap Ahead' = {}
      /\ Ahead' \in SUBSET Posts /\ Unwritten' \in SUBSET Posts
  BY DEF AttemptInv, AttemptTypeOK, Become, Ahead, Unwritten
<1>3. Cardinality(Ahead') + Cardinality(Unwritten) <= Cardinality(Posts)
      /\ Cardinality(Ahead') \in Nat
  <2>1. IsFiniteSet(Ahead') /\ IsFiniteSet(Unwritten) /\ Cardinality(Ahead') \in Nat
        /\ Cardinality(Unwritten) \in Nat /\ IsFiniteSet(Posts) /\ Cardinality(Posts) \in Nat
    BY <1>2, PostSets
  <2>2. Cardinality(Ahead' \cup Unwritten) = Cardinality(Ahead') + Cardinality(Unwritten)
    <3>1. Cardinality(Ahead' \cap Unwritten) = 0
      BY <1>2, FS_EmptySet
    <3>2. Cardinality(Ahead' \cup Unwritten)
            = Cardinality(Ahead') + Cardinality(Unwritten) - Cardinality(Ahead' \cap Unwritten)
      BY <2>1, FS_Union
    <3> QED BY <2>1, <3>1, <3>2
  <2>3. Ahead' \cup Unwritten \subseteq Posts
    BY <1>2
  <2>4. Cardinality(Ahead' \cup Unwritten) <= Cardinality(Posts)
    BY <2>1, <2>3, FS_Subset
  <2> QED BY <2>1, <2>2, <2>4
<1>4. ASSUME NEW s \in Times PROVE WindowOk(s)'
  <2> SUFFICES ASSUME s + Window >= clock
               PROVE  /\ Cardinality(Since(attempts, s))
                           <= Cardinality(Since(events, s)) + Cardinality(Unwritten) + unrecorded
                      /\ Cardinality(Since(attempts, s)) + Cardinality(Ahead')
                           <= MaxAttempts - 1 + Cardinality(Posts) + unrecorded
    BY <1>2 DEF WindowOk
  <2>1. Cardinality(Since(attempts, s))
          <= Cardinality(Since(events, s)) + Cardinality(Unwritten) + unrecorded
    BY DEF AttemptInv, WindowOk
  <2>2. CountEvents(Window) \in Nat /\ Cardinality(Since(events, s)) <= CountEvents(Window)
    <3> DEFINE counted == {e \in events : clock <= e.time + Window}
    <3>1. IsFiniteSet(counted) /\ Cardinality(counted) \in Nat
      BY RowSets DEF AttemptInv, RowsOk
    <3>2. Since(events, s) \subseteq counted
      BY Counts DEF AttemptInv, Since, RowsOk, Row, Times
    <3>3. Cardinality(Since(events, s)) <= Cardinality(counted)
      BY <3>1, <3>2, FS_Subset
    <3> QED BY <3>1, <3>3 DEF CountEvents
  <2>3. CountEvents(Window) < MaxAttempts
    BY <2>2, Counts DEF AtLimit
  <2> QED BY <1>3, <2>1, <2>2, <2>3, Counts
<1>5. RowsOk(events)' /\ RowsOk(attempts)' /\ unrecorded' >= unrecorded
  BY Counts DEF AttemptInv
<1> QED BY <1>1, <1>4, <1>5, WindowsSuffice

LEMMA LeaveStep ==
  ASSUME AttemptInv, NEW p \in Posts, LeaveLogin(p)
  PROVE  AttemptInv'
<1>1. AttemptTypeOK' /\ UNCHANGED <<events, attempts, unrecorded, clock>>
  BY DEF AttemptInv, AttemptTypeOK, LeaveLogin, Become
<1>2. p \in Ahead /\ Ahead' = Ahead \ {p} /\ Unwritten' = Unwritten
  BY DEF AttemptInv, AttemptTypeOK, LeaveLogin, Become, Ahead, Unwritten
<1>3. Cardinality(Ahead') = Cardinality(Ahead) - 1
  BY <1>2, OneFewer, Counts
<1>4. \A s \in Times : WindowOk(s)'
  BY <1>1, <1>2, <1>3, Counts DEF AttemptInv, WindowOk
<1>5. RowsOk(events)' /\ RowsOk(attempts)' /\ unrecorded' >= unrecorded
  BY <1>1, Counts DEF AttemptInv
<1> QED BY <1>1, <1>4, <1>5, WindowsSuffice

(* One who was ahead is now unwritten.                                     *)
LEMMA WrongStep ==
  ASSUME AttemptInv, NEW p \in Posts, WrongPassword(p)
  PROVE  AttemptInv'
<1>1. /\ UNCHANGED <<events, unrecorded, clock>> /\ attempts' = Add(attempts)
      /\ clock \in Times /\ RowsOk(attempts) /\ RowsOk(events)
  BY DEF AttemptInv, AttemptTypeOK, WrongPassword
<1>2. /\ RowsOk(attempts') /\ attempts \subseteq attempts'
      /\ \A e \in attempts' : e \in attempts \/ e.time = clock
      /\ \A s \in Times : Cardinality(Since(attempts', s))
           = IF clock >= s THEN Cardinality(Since(attempts, s)) + 1 ELSE Cardinality(Since(attempts, s))
  BY <1>1, AddCounts
<1>3. AttemptTypeOK'
  BY <1>1, <1>2 DEF AttemptInv, AttemptTypeOK, WrongPassword, Become, RowsOk
<1>4. /\ p \in Ahead /\ Ahead' = Ahead \ {p}
      /\ p \in Unwritten' /\ Unwritten = Unwritten' \ {p} /\ Unwritten' \in SUBSET Posts
  BY DEF AttemptInv, AttemptTypeOK, WrongPassword, Become, Ahead, Unwritten
<1>5. /\ Cardinality(Ahead') = Cardinality(Ahead) - 1
      /\ Cardinality(Unwritten) = Cardinality(Unwritten') - 1
      /\ Cardinality(Unwritten') \in Nat
  BY <1>4, OneFewer, Counts
<1>6. ASSUME NEW s \in Times PROVE WindowOk(s)'
  <2>1. s + Window >= clock =>
          /\ Cardinality(Since(attempts, s))
               <= Cardinality(Since(events, s)) + Cardinality(Unwritten) + unrecorded
          /\ Cardinality(Since(attempts, s)) + Cardinality(Ahead)
               <= MaxAttempts - 1 + Cardinality(Posts) + unrecorded
    BY DEF AttemptInv, WindowOk
  <2>2. Cardinality(Since(attempts', s)) \in {Cardinality(Since(attempts, s)), Cardinality(Since(attempts, s)) + 1}
    BY <1>2
  <2> QED BY <1>1, <1>5, <2>1, <2>2, Counts DEF WindowOk
<1>7. RowsOk(events)' /\ unrecorded' >= unrecorded
  BY <1>1, Counts DEF AttemptInv
<1> QED BY <1>1, <1>2, <1>3, <1>6, <1>7, WindowsSuffice

(* A failure that was unwritten is now in the table, or lost.              *)
LEMMA RecordStep ==
  ASSUME AttemptInv, NEW p \in Posts, RecordFailure(p) \/ RecordLost(p)
  PROVE  AttemptInv'
<1>1. UNCHANGED <<attempts, clock>> /\ clock \in Times /\ RowsOk(attempts) /\ RowsOk(events)
  BY DEF AttemptInv, AttemptTypeOK, RecordFailure, RecordLost
<1>2. \/ events' = Add(events) /\ unrecorded' = unrecorded
      \/ events' = events /\ unrecorded' = unrecorded + 1
  BY DEF RecordFailure, RecordLost
<1>3. /\ RowsOk(Add(events))
      /\ \A s \in Times : Cardinality(Since(Add(events), s))
           = IF clock >= s THEN Cardinality(Since(events, s)) + 1 ELSE Cardinality(Since(events, s))
  BY <1>1, AddCounts
<1>4. RowsOk(events') /\ unrecorded' \in Nat /\ unrecorded' >= unrecorded
  BY <1>1, <1>2, <1>3, Counts
<1>5. AttemptTypeOK'
  BY <1>1, <1>4 DEF AttemptInv, AttemptTypeOK, RecordFailure, RecordLost, Become, RowsOk
<1>6. /\ p \in Unwritten /\ Unwritten' = Unwritten \ {p} /\ Ahead' = Ahead
  BY DEF AttemptInv, AttemptTypeOK, RecordFailure, RecordLost, Become, Ahead, Unwritten
<1>7. Cardinality(Unwritten') = Cardinality(Unwritten) - 1
  BY <1>6, OneFewer, Counts
<1>8. ASSUME NEW s \in Times PROVE WindowOk(s)'
  <2>1. s + Window >= clock =>
          /\ Cardinality(Since(attempts, s))
               <= Cardinality(Since(events, s)) + Cardinality(Unwritten) + unrecorded
          /\ Cardinality(Since(attempts, s)) + Cardinality(Ahead)
               <= MaxAttempts - 1 + Cardinality(Posts) + unrecorded
    BY DEF AttemptInv, WindowOk
  <2>2. CASE clock >= s /\ events' = Add(events) /\ unrecorded' = unrecorded
    <3>1. Cardinality(Since(events', s)) = Cardinality(Since(events, s)) + 1
      BY <1>3, <2>2
    <3> QED BY <1>1, <1>6, <1>7, <2>1, <2>2, <3>1, Counts DEF WindowOk
  <2>3. CASE events' = events /\ unrecorded' = unrecorded + 1
    BY <1>1, <1>6, <1>7, <2>1, <2>3, Counts DEF WindowOk
  <2>4. CASE ~(clock >= s) /\ events' = Add(events) /\ unrecorded' = unrecorded
    <3>1. Cardinality(Since(attempts, s)) = 0
      BY <2>4, NoneAhead
    <3>2. Cardinality(Since(events', s)) = Cardinality(Since(events, s))
      BY <1>3, <2>4
    <3>3. Cardinality(Unwritten') \in Nat
      BY <1>6, OneFewer, Counts
    <3> QED BY <1>1, <1>6, <2>1, <2>4, <3>1, <3>2, <3>3, Counts DEF WindowOk
  <2> QED BY <1>2, <2>2, <2>3, <2>4
<1>9. RowsOk(attempts)' /\ \A e \in attempts' : e \in attempts \/ e.time = clock
  BY <1>1 DEF AttemptInv
<1> QED BY <1>1, <1>4, <1>5, <1>8, <1>9, WindowsSuffice

(* What is let through is in the table with it.                            *)
LEMMA RegisterStep ==
  ASSUME AttemptInv, NEW p \in Posts, Register(p)
  PROVE  AttemptInv'
<1>1. UNCHANGED <<unrecorded, clock>> /\ clock \in Times /\ RowsOk(attempts) /\ RowsOk(events)
  BY DEF AttemptInv, AttemptTypeOK, Register
<1>2. \/ events' = Add(events) /\ attempts' = Add(attempts)
      \/ UNCHANGED <<events, attempts>>
  BY DEF Register
<1>3. /\ RowsOk(Add(events)) /\ RowsOk(Add(attempts)) /\ attempts \subseteq Add(attempts)
      /\ \A e \in Add(attempts) : e \in attempts \/ e.time = clock
      /\ \A s \in Times :
           /\ Cardinality(Since(Add(events), s))
                = IF clock >= s THEN Cardinality(Since(events, s)) + 1 ELSE Cardinality(Since(events, s))
           /\ Cardinality(Since(Add(attempts), s))
                = IF clock >= s THEN Cardinality(Since(attempts, s)) + 1 ELSE Cardinality(Since(attempts, s))
  BY <1>1, AddCounts
<1>4. /\ RowsOk(events') /\ RowsOk(attempts') /\ attempts \subseteq attempts'
      /\ \A e \in attempts' : e \in attempts \/ e.time = clock
  BY <1>1, <1>2, <1>3
<1>5. AttemptTypeOK'
  BY <1>1, <1>4 DEF AttemptInv, AttemptTypeOK, Register, Become, RowsOk
<1>6. p \in Ahead /\ Ahead' = Ahead \ {p} /\ Unwritten' = Unwritten
  BY DEF AttemptInv, AttemptTypeOK, Register, Become, Ahead, Unwritten
<1>7. Cardinality(Ahead') = Cardinality(Ahead) - 1
  BY <1>6, OneFewer, Counts
<1>8. ASSUME NEW s \in Times PROVE WindowOk(s)'
  <2>1. s + Window >= clock =>
          /\ Cardinality(Since(attempts, s))
               <= Cardinality(Since(events, s)) + Cardinality(Unwritten) + unrecorded
          /\ Cardinality(Since(attempts, s)) + Cardinality(Ahead)
               <= MaxAttempts - 1 + Cardinality(Posts) + unrecorded
    BY DEF AttemptInv, WindowOk
  <2>2. \/ /\ Cardinality(Since(events', s)) = Cardinality(Since(events, s)) + 1
           /\ Cardinality(Since(attempts', s)) = Cardinality(Since(attempts, s)) + 1
        \/ /\ Cardinality(Since(events', s)) = Cardinality(Since(events, s))
           /\ Cardinality(Since(attempts', s)) = Cardinality(Since(attempts, s))
    BY <1>2, <1>3
  <2> QED BY <1>1, <1>6, <1>7, <2>1, <2>2, Counts DEF WindowOk
<1>9. unrecorded' >= unrecorded
  BY <1>1, Counts
<1> QED BY <1>1, <1>4, <1>5, <1>8, <1>9, WindowsSuffice

(* The windows that are not over later were not over before.               *)
LEMMA PassTimeStep ==
  ASSUME AttemptInv, PassTime
  PROVE  AttemptInv'
<1>1. UNCHANGED <<page, at, events, attempts, unrecorded>> /\ clock' = clock + 1 /\ clock < LastTime
  BY DEF PassTime
<1>2. clock' \in Times /\ clock' >= clock /\ clock \in Nat
  BY <1>1, Counts, AttemptAssumption DEF Times
<1>3. AttemptTypeOK' /\ RowsOk(events)' /\ RowsOk(attempts)' /\ LimitHolds'
  BY <1>1, <1>2 DEF AttemptInv, AttemptTypeOK, LimitHolds
<1>4. \A e \in attempts' : e.time <= clock'
  BY <1>1, <1>2, Counts DEF AttemptInv, RowsOk, Row, Times
<1>5. Ahead' = Ahead /\ Unwritten' = Unwritten
  BY <1>1 DEF Ahead, Unwritten
<1>6. \A s \in Times : WindowOk(s)'
  BY <1>1, <1>2, <1>5, Counts DEF AttemptInv, WindowOk
<1> QED BY <1>3, <1>4, <1>6 DEF AttemptInv

(* What is pruned is older than any window that is not over; whoever was   *)
(* in flight is gone, and a failure not recorded yet is lost.              *)
LEMMA PruneStep ==
  ASSUME AttemptInv, Restart
  PROVE  AttemptInv'
<1>1. /\ UNCHANGED <<page, attempts, clock>> /\ events' = Pruned
      /\ unrecorded' = unrecorded + Cardinality(Unwritten)
      /\ at' = [p \in Posts |-> "idle"]
  BY DEF Restart, Unwritten
<1>2. unrecorded' \in Nat /\ unrecorded' >= unrecorded
  BY <1>1, Counts
<1>3. Pruned \subseteq events /\ IsFiniteSet(Pruned)
  BY RowSets DEF Pruned, AttemptInv, RowsOk
<1>4. Numbered(Pruned)
  <2> SUFFICES ASSUME NEW e \in Pruned PROVE e.nth \in 1 .. Cardinality(RowsAt(Pruned, e.time))
    BY DEF Numbered
  <2>1. RowsAt(Pruned, e.time) = RowsAt(events, e.time)
    BY DEF Pruned, RowsAt
  <2> QED BY <1>3, <2>1 DEF AttemptInv, RowsOk, Numbered
<1>5. RowsOk(events)' /\ RowsOk(attempts)' /\ AttemptTypeOK'
  BY <1>1, <1>2, <1>3, <1>4 DEF AttemptInv, AttemptTypeOK, RowsOk
<1>6. Cardinality(Ahead') = 0 /\ Cardinality(Unwritten') = 0
  <2>1. Ahead' = {} /\ Unwritten' = {}
    BY <1>1 DEF Ahead, Unwritten
  <2> QED BY <2>1, FS_EmptySet
<1>7. ASSUME NEW s \in Times PROVE WindowOk(s)'
  <2>1. s + Window >= clock =>
          /\ Cardinality(Since(attempts, s))
               <= Cardinality(Since(events, s)) + Cardinality(Unwritten) + unrecorded
          /\ Cardinality(Since(attempts, s)) + Cardinality(Ahead)
               <= MaxAttempts - 1 + Cardinality(Posts) + unrecorded
    BY DEF AttemptInv, WindowOk
  <2>2. s + Window >= clock => Since(events', s) = Since(events, s)
    BY <1>1, Counts, AttemptAssumption DEF AttemptInv, RowsOk, Row, Times, Since, Pruned
  <2> QED BY <1>1, <1>2, <1>6, <2>1, <2>2, Counts DEF WindowOk
<1>8. clock' = clock /\ attempts \subseteq attempts'
      /\ \A e \in attempts' : e \in attempts \/ e.time = clock
  BY <1>1
<1> QED BY <1>2, <1>5, <1>7, <1>8, WindowsSuffice

LEMMA AttemptBase == AttemptInit => AttemptInv
<1> SUFFICES ASSUME AttemptInit PROVE AttemptInv
  OBVIOUS
<1>1. AttemptTypeOK /\ events = {} /\ attempts = {} /\ unrecorded = 0
  BY AttemptAssumption DEF AttemptInit, AttemptTypeOK, Times
<1>2. RowsOk(events) /\ RowsOk(attempts)
  BY <1>1, FS_EmptySet DEF RowsOk, Numbered
<1>3. Ahead = {} /\ Unwritten = {}
  BY DEF AttemptInit, Ahead, Unwritten
<1>4. /\ \A s : Since(attempts, s) = {} /\ Since(events, s) = {}
      /\ \A s, t : RowsIn(attempts, s, t) = {}
  BY <1>1 DEF Since, RowsIn
<1>5. Cardinality({}) = 0 /\ Cardinality(Posts) \in Nat /\ MaxAttempts \in Nat \ {0}
  BY FS_EmptySet, PostSets, AttemptAssumption
<1>6. \A s \in Times : WindowOk(s)
  BY <1>1, <1>3, <1>4, <1>5 DEF WindowOk
<1>7. LimitHolds
  BY <1>1, <1>4, <1>5 DEF LimitHolds
<1> QED BY <1>1, <1>2, <1>6, <1>7 DEF AttemptInv

LEMMA AttemptStep == AttemptInv /\ [AttemptNext]_attemptVars => AttemptInv'
<1> SUFFICES ASSUME AttemptInv, [AttemptNext]_attemptVars PROVE AttemptInv'
  OBVIOUS
<1>1. ASSUME NEW p \in Posts, CheckLogin(p) PROVE AttemptInv'
  BY <1>1, CheckStep DEF CheckLogin
<1>2. ASSUME NEW p \in Posts, CheckRegister(p) PROVE AttemptInv'
  BY <1>2, CheckStep DEF CheckRegister
<1>3. ASSUME NEW p \in Posts, CheckLogin(p) \/ LeaveLogin(p) \/ WrongPassword(p) \/ RecordFailure(p)
                             \/ RecordLost(p) \/ CheckRegister(p) \/ Register(p)
      PROVE  AttemptInv'
  BY <1>1, <1>2, <1>3, LeaveStep, WrongStep, RecordStep, RegisterStep
<1>4. CASE PassTime
  BY <1>4, PassTimeStep
<1>5. CASE Restart
  BY <1>5, PruneStep
<1>6. CASE UNCHANGED attemptVars
  <2>1. UNCHANGED <<page, at, events, attempts, unrecorded, clock>>
    BY <1>6 DEF attemptVars
  <2>2. AttemptTypeOK' /\ RowsOk(events)' /\ RowsOk(attempts)' /\ LimitHolds'
        /\ \A e \in attempts' : e.time <= clock'
    BY <2>1 DEF AttemptInv, AttemptTypeOK, LimitHolds
  <2>3. Ahead' = Ahead /\ Unwritten' = Unwritten
    BY <2>1 DEF Ahead, Unwritten
  <2>4. \A s \in Times : WindowOk(s)'
    BY <2>1, <2>3 DEF AttemptInv, WindowOk
  <2> QED BY <2>2, <2>4 DEF AttemptInv
<1> QED BY <1>3, <1>4, <1>5, <1>6 DEF AttemptNext

(* The windows, the rows and the types of the login and registration       *)
(* limit hold in every state (oauth/_rate_limit.py, oauth/storage.py).     *)
THEOREM AttemptInvariant == AttemptSpec => []AttemptInv
BY AttemptBase, AttemptStep, PTL DEF AttemptSpec

(* In no window does an address get further than the limit and the posts   *)
(* in flight and the lost records allow: the check precedes the form and   *)
(* the password, the record follows them, and the start prunes only what   *)
(* no longer counts (oauth/forms.py, oauth/selfhost.py, oauth/storage.py). *)
THEOREM LimitKept == AttemptSpec => []LimitHolds
<1>1. AttemptInv => LimitHolds
  BY DEF AttemptInv
<1> QED BY <1>1, AttemptInvariant, PTL
==============================================================================
