--------------------------- MODULE OAuthTokens ---------------------------
(***************************************************************************)
(* The self-hosted OAuth server's codes and tokens (oauth/provider.py over *)
(* oauth/storage.py): login, redemption of codes, rotation of refresh      *)
(* tokens, revocation, clean-up at start-up, with concurrent requests that *)
(* may stop half-way.                                                      *)
(*                                                                         *)
(* Access and refresh tokens are always issued as a pair and linked by one *)
(* row of token_pairs, so a pair id stands for its two tokens and its row. *)
(* A method of OAuthStorage holds the storage's lock and commits once: it  *)
(* is one action.  What lies between two of them is a pc.                  *)
(***************************************************************************)
EXTENDS Naturals, FiniteSets

CONSTANTS Codes,       \* authorization codes: what secrets.token_urlsafe gives
          Pairs,       \* token pairs: likewise
          Requests,    \* concurrent requests to /login, /token and /revoke
          None,
          CodeTTL, AccessTTL, RefreshTTL, \* OAUTH_*_TTL_SECS
          AgeCap       \* ages above this are told apart by no guard

ASSUME TokenAssumption ==
  /\ None \notin Codes \cup Pairs \cup Nat
  /\ {CodeTTL, AccessTTL, RefreshTTL, AgeCap} \subseteq Nat
  /\ CodeTTL < AgeCap /\ RefreshTTL < AgeCap /\ AccessTTL <= RefreshTTL

VARIABLES
  codes,    \* auth_codes
  access,   \* access_tokens
  refresh,  \* refresh_tokens
  linked,   \* token_pairs
  codeAge,  \* time since each code was issued
  pair,     \* each pair's code of origin (None: not issued) and age
  req,      \* the requests in flight
  halted,   \* pairs whose revocation stopped half-way (history)
  revoked,  \* pairs whose revocation came to its end (history)
  doubled   \* codes whose family was granted twice from one token (history)

vars == <<codes, access, refresh, linked, codeAge, pair, req, halted, revoked, doubled>>

tables == <<codes, access, refresh, linked>>
history == <<halted, revoked, doubled>>

---------------------------------------------------------------------------
(* Types and initial state                                                 *)

Ages == 0 .. AgeCap
RevokePcs == {"findRefresh", "dropAccess", "unlinkAccess", "dropPairedRefresh",
              "findAccess", "revokeRefresh", "unlinkRefresh", "dropPairedAccess"}
CodePcs == {"dropCode", "redeem", "issue"}
PairPcs == {"dropExpiredAccess", "dropExpiredRefresh", "rotate"} \cup RevokePcs

Request == [pc : {"idle"} \cup CodePcs \cup PairPcs,
            code : Codes \cup {None}, pair : Pairs \cup {None}, found : BOOLEAN]
Idle == [pc |-> "idle", code |-> None, pair |-> None, found |-> FALSE]

TypeOK ==
  /\ codes \in SUBSET Codes
  /\ access \in SUBSET Pairs /\ refresh \in SUBSET Pairs /\ linked \in SUBSET Pairs
  /\ codeAge \in [Codes -> Ages \cup {None}]
  /\ pair \in [Pairs -> [origin : Codes \cup {None}, age : Ages]]
  /\ req \in [Requests -> Request]
  /\ halted \in SUBSET Pairs /\ revoked \in SUBSET Pairs /\ doubled \in SUBSET Codes

Init ==
  /\ codes = {} /\ access = {} /\ refresh = {} /\ linked = {}
  /\ codeAge = [c \in Codes |-> None]
  /\ pair = [p \in Pairs |-> [origin |-> None, age |-> 0]]
  /\ req = [r \in Requests |-> Idle]
  /\ halted = {} /\ revoked = {} /\ doubled = {}

---------------------------------------------------------------------------
(* What the actions share                                                  *)

At(r, pc) == req[r].pc = pc
Take(r, pc, c, p) ==
  req' = [req EXCEPT ![r] = [pc |-> pc, code |-> c, pair |-> p, found |-> FALSE]]
Goto(r, pc) == req' = [req EXCEPT ![r].pc = pc]
Return(r) == req' = [req EXCEPT ![r] = Idle]

(* The loaders reject at expires_at < now, so a token of age TTL passes.   *)
CodeExpired(c) == codeAge[c] > CodeTTL
AccessExpired(p) == pair[p].age > AccessTTL
RefreshExpired(p) == pair[p].age > RefreshTTL

Issued(p) == pair[p].origin # None
Fresh(p, c) == pair' = [pair EXCEPT ![p] = [origin |-> c, age |-> 0]]

---------------------------------------------------------------------------
(* POST /login with the right password: a code is issued.                  *)

Login(c) ==
  /\ codeAge[c] = None
  /\ codes' = codes \cup {c}
  /\ codeAge' = [codeAge EXCEPT ![c] = 0]
  /\ UNCHANGED <<access, refresh, linked, pair, req, halted, revoked, doubled>>

(* load_authorization_code for a client that owns the code or does not: a  *)
(* foreign or expired code is dropped, an unknown one refused.             *)
LoadCode(r, c, owned) ==
  /\ At(r, "idle") /\ c \in codes
  /\ IF owned /\ ~CodeExpired(c) THEN Take(r, "redeem", c, None)
                                 ELSE Take(r, "dropCode", c, None)
  /\ UNCHANGED tables /\ UNCHANGED <<codeAge, pair>> /\ UNCHANGED history

DropCode(r) ==
  /\ At(r, "dropCode")
  /\ codes' = codes \ {req[r].code}
  /\ Return(r)
  /\ UNCHANGED <<access, refresh, linked, codeAge, pair>> /\ UNCHANGED history

(* exchange_authorization_code: the code is deleted, whether or not it is  *)
(* still there ...                                                         *)
RedeemCode(r) ==
  LET c == req[r].code IN
  /\ At(r, "redeem")
  /\ codes' = codes \ {c}
  /\ doubled' = IF c \in codes THEN doubled ELSE doubled \cup {c}
  /\ Goto(r, "issue")
  /\ UNCHANGED <<access, refresh, linked, codeAge, pair, halted, revoked>>

(* ... and a pair is issued (save_issued_token_pair, one transaction).     *)
IssuePair(r, p) ==
  /\ At(r, "issue") /\ ~Issued(p)
  /\ access' = access \cup {p}
  /\ refresh' = refresh \cup {p}
  /\ linked' = linked \cup {p}
  /\ Fresh(p, req[r].code)
  /\ Return(r)
  /\ UNCHANGED <<codes, codeAge>> /\ UNCHANGED history

---------------------------------------------------------------------------
(* load_refresh_token, then exchange_refresh_token.  A foreign client is   *)
(* refused and changes nothing.                                            *)

LoadRefresh(r, p) ==
  /\ At(r, "idle") /\ p \in refresh
  /\ Take(r, IF RefreshExpired(p) THEN "dropExpiredRefresh" ELSE "rotate", None, p)
  /\ UNCHANGED tables /\ UNCHANGED <<codeAge, pair>> /\ UNCHANGED history

DropExpiredRefresh(r) ==
  /\ At(r, "dropExpiredRefresh")
  /\ refresh' = refresh \ {req[r].pair}
  /\ Return(r)
  /\ UNCHANGED <<codes, access, linked, codeAge, pair>> /\ UNCHANGED history

\* Mutant: the old refresh token stays.
RotateKeepingOld(r, q) ==
  LET p == req[r].pair IN
  /\ At(r, "rotate") /\ ~Issued(q)
  /\ access' = (access \ ({p} \cap linked)) \cup {q}
  /\ linked' = (linked \ {p}) \cup {q}
  /\ refresh' = refresh \cup {q}
  /\ Fresh(q, pair[p].origin)
  /\ doubled' = IF p \in refresh THEN doubled ELSE doubled \cup {pair[p].origin}
  /\ Return(r)
  /\ UNCHANGED <<codes, codeAge, halted, revoked>>

\* Mutant: the pair row goes before the access tokens are read from it.
RotateUnlinkingFirst(r, q) ==
  LET p == req[r].pair IN
  /\ At(r, "rotate") /\ ~Issued(q)
  /\ access' = access \cup {q}
  /\ linked' = (linked \ {p}) \cup {q}
  /\ refresh' = (refresh \ {p}) \cup {q}
  /\ Fresh(q, pair[p].origin)
  /\ doubled' = IF p \in refresh THEN doubled ELSE doubled \cup {pair[p].origin}
  /\ Return(r)
  /\ UNCHANGED <<codes, codeAge, halted, revoked>>

(* rotate_refresh_token, one transaction: what token_pairs links to the    *)
(* old refresh token goes with it, the new pair comes.  It does not look   *)
(* whether the old token is still there.                                   *)
Rotate(r, q) ==
  LET p == req[r].pair IN
  /\ At(r, "rotate") /\ ~Issued(q)
  /\ access' = (access \ ({p} \cap linked)) \cup {q}
  /\ linked' = (linked \ {p}) \cup {q}
  /\ refresh' = (refresh \ {p}) \cup {q}
  /\ Fresh(q, pair[p].origin)
  /\ doubled' = IF p \in refresh THEN doubled ELSE doubled \cup {pair[p].origin}
  /\ Return(r)
  /\ UNCHANGED <<codes, codeAge, halted, revoked>>

---------------------------------------------------------------------------
(* /revoke: the token is looked up among the access and the refresh tokens *)
(* and revoke_token takes four storage calls.  Requests that only present  *)
(* an access token do the same when it has expired.                        *)

LoadToken(r, p) ==
  /\ At(r, "idle")
  /\ \/ /\ p \in access
        /\ Take(r, IF AccessExpired(p) THEN "dropExpiredAccess" ELSE "findRefresh", None, p)
     \/ /\ p \in refresh
        /\ Take(r, IF RefreshExpired(p) THEN "dropExpiredRefresh" ELSE "findAccess", None, p)
  /\ UNCHANGED tables /\ UNCHANGED <<codeAge, pair>> /\ UNCHANGED history

DropExpiredAccess(r) ==
  /\ At(r, "dropExpiredAccess")
  /\ access' = access \ {req[r].pair}
  /\ Return(r)
  /\ UNCHANGED <<codes, refresh, linked, codeAge, pair>> /\ UNCHANGED history

Revoked(r) == Return(r) /\ revoked' = revoked \cup {req[r].pair}
GoingOn(r, pc) == Goto(r, pc) /\ UNCHANGED revoked
notRevoke == <<codes, codeAge, pair, halted, doubled>>

(* The pair row is read before anything is deleted.                        *)
FindPaired(r) ==
  /\ At(r, "findRefresh") \/ At(r, "findAccess")
  /\ req' = [req EXCEPT ![r] =
       [pc |-> IF At(r, "findRefresh") THEN "dropAccess" ELSE "revokeRefresh",
        code |-> None, pair |-> req[r].pair, found |-> req[r].pair \in linked]]
  /\ UNCHANGED tables /\ UNCHANGED <<codeAge, pair>> /\ UNCHANGED history

RevokeAccess(r) ==
  /\ At(r, "dropAccess")
  /\ access' = access \ {req[r].pair}
  /\ GoingOn(r, "unlinkAccess")
  /\ UNCHANGED <<refresh, linked>> /\ UNCHANGED notRevoke

RevokeRefresh(r) ==
  /\ At(r, "revokeRefresh")
  /\ refresh' = refresh \ {req[r].pair}
  /\ GoingOn(r, "unlinkRefresh")
  /\ UNCHANGED <<access, linked>> /\ UNCHANGED notRevoke

\* Mutant: the counterpart is forgotten.
UnlinkForgetting(r) ==
  /\ At(r, "unlinkAccess") \/ At(r, "unlinkRefresh")
  /\ Revoked(r)
  /\ linked' = linked \ {req[r].pair}
  /\ UNCHANGED <<access, refresh>> /\ UNCHANGED notRevoke

Unlink(r) ==
  /\ At(r, "unlinkAccess") \/ At(r, "unlinkRefresh")
  /\ IF req[r].found
       THEN GoingOn(r, IF At(r, "unlinkAccess") THEN "dropPairedRefresh" ELSE "dropPairedAccess")
       ELSE Revoked(r)
  /\ linked' = linked \ {req[r].pair}
  /\ UNCHANGED <<access, refresh>> /\ UNCHANGED notRevoke

DropPaired(r) ==
  /\ \/ /\ At(r, "dropPairedRefresh")
        /\ refresh' = refresh \ {req[r].pair} /\ UNCHANGED access
     \/ /\ At(r, "dropPairedAccess")
        /\ access' = access \ {req[r].pair} /\ UNCHANGED refresh
  /\ Revoked(r)
  /\ UNCHANGED linked /\ UNCHANGED notRevoke

---------------------------------------------------------------------------
(* Failures and time                                                       *)

\* Revocations that have deleted something and have not come to their end.
Cutting == {"unlinkAccess", "dropPairedRefresh", "unlinkRefresh", "dropPairedAccess"}
HalfRevoked(R) == {req[r].pair : r \in {s \in R : req[s].pc \in Cutting}}

(* A storage call raises: what was committed stays.                        *)
Abort(r) ==
  /\ ~At(r, "idle")
  /\ Return(r)
  /\ halted' = halted \cup HalfRevoked({r})
  /\ UNCHANGED tables /\ UNCHANGED <<codeAge, pair, revoked, doubled>>

\* Mutant: what expires now is taken for expired.
CleanupEarly ==
  LET deadAccess == {p \in access : pair[p].age >= AccessTTL}
      deadRefresh == {p \in refresh : RefreshExpired(p)}
      rows == linked \ deadAccess
  IN /\ codes' = {c \in codes : ~CodeExpired(c)}
     /\ access' = (access \ deadAccess) \ (deadRefresh \cap rows)
     /\ linked' = rows \ deadRefresh
     /\ refresh' = refresh \ deadRefresh

(* cleanup_expired, one commit: codes, then access tokens with their rows, *)
(* then what is still linked to an expired refresh token, then those.      *)
Cleanup ==
  LET deadAccess == {p \in access : AccessExpired(p)}
      deadRefresh == {p \in refresh : RefreshExpired(p)}
      rows == linked \ deadAccess
  IN /\ codes' = {c \in codes : ~CodeExpired(c)}
     /\ access' = (access \ deadAccess) \ (deadRefresh \cap rows)
     /\ linked' = rows \ deadRefresh
     /\ refresh' = refresh \ deadRefresh

(* The process is restarted; setup_oauth cleans up before it serves.       *)
Restart ==
  /\ req' = [r \in Requests |-> Idle]
  /\ halted' = halted \cup HalfRevoked(Requests)
  /\ Cleanup
  /\ UNCHANGED <<codeAge, pair, revoked, doubled>>

Older(a) == IF a < AgeCap THEN a + 1 ELSE a

Tick ==
  /\ codeAge' = [c \in Codes |-> IF codeAge[c] = None THEN None ELSE Older(codeAge[c])]
  /\ pair' = [p \in Pairs |->
               IF Issued(p) THEN [pair[p] EXCEPT !.age = Older(pair[p].age)] ELSE pair[p]]
  /\ UNCHANGED tables /\ UNCHANGED req /\ UNCHANGED history

---------------------------------------------------------------------------
(* Specification                                                           *)

Redemption(r) ==
  \/ \E c \in Codes, owned \in BOOLEAN : LoadCode(r, c, owned)
  \/ DropCode(r) \/ RedeemCode(r)
  \/ \E p \in Pairs : IssuePair(r, p)

Rotation(r) ==
  \/ \E p \in Pairs : LoadRefresh(r, p) \/ Rotate(r, p)
  \/ DropExpiredRefresh(r)

Revocation(r) ==
  \/ \E p \in Pairs : LoadToken(r, p)
  \/ DropExpiredAccess(r) \/ FindPaired(r)
  \/ RevokeAccess(r) \/ RevokeRefresh(r) \/ Unlink(r) \/ DropPaired(r)

Next ==
  \/ \E c \in Codes : Login(c)
  \/ \E r \in Requests : Redemption(r) \/ Rotation(r) \/ Revocation(r) \/ Abort(r)
  \/ Restart \/ Tick

Spec == Init /\ [][Next]_vars

---------------------------------------------------------------------------
(* Properties                                                              *)

Revoking(p) == \E r \in Requests : req[r].pair = p /\ req[r].pc \in Cutting

(* A revocation that came to its end left neither token of its pair, with  *)
(* whatever rotations and retries ran between its four calls (revoke_token *)
(* reads the pair row first and skips the counterpart when it is gone),    *)
(* unless another revocation of the pair has taken the row and is still to *)
(* delete what it links, or stopped before it did.                         *)
RevokedMeansGone ==
  \A p \in revoked : (p \in access \/ p \in refresh) => p \in halted \/ Revoking(p)

(* An access token that is still accepted has its refresh token, so that   *)
(* its holder can go on when it expires, except while the pair is being    *)
(* revoked or when that stopped half-way: neither the rotation nor the     *)
(* clean-up nor the expiry of one side leaves it alone.                    *)
AccessHasRefresh ==
  \A p \in access : ~AccessExpired(p) => p \in refresh \/ p \in halted \/ Revoking(p)

(* What one login granted is one live refresh token, handed on by each     *)
(* rotation, unless two requests had loaded the same code or the same      *)
(* refresh token before either of them used it.                            *)
OneLiveRefresh ==
  \A p, q \in refresh :
    pair[p].origin = pair[q].origin /\ pair[p].origin \notin doubled => p = q

LostUsable(p) ==
  \/ p \in access \ access' /\ ~AccessExpired(p)
  \/ p \in refresh \ refresh' /\ ~RefreshExpired(p)
Using(p) == \E r \in Requests :
  req[r].pair = p /\ req[r].pc \in {"rotate", "dropAccess", "revokeRefresh"} \cup Cutting

(* A token that has not expired is deleted only for a rotation or a        *)
(* revocation of its pair: the clean-up at start-up and the loaders take   *)
(* nothing that would still be accepted.                                   *)
UsableTokensKept == [][\A p \in Pairs : LostUsable(p) => Using(p)]_vars

---------------------------------------------------------------------------
(* The inductive invariant                                                 *)

(* Nothing is known of a pair or a code before it is issued.               *)
HoldsIssued(r) ==
  /\ req[r].pc \in PairPcs => req[r].pair # None /\ Issued(req[r].pair)
  /\ req[r].pc \in CodePcs => req[r].code # None /\ codeAge[req[r].code] # None
  /\ req[r].pc \notin PairPcs => req[r].pair = None

OnlyIssued ==
  /\ \A p \in access \cup refresh \cup linked \cup halted \cup revoked : Issued(p)
  /\ \A r \in Requests : HoldsIssued(r)
  /\ \A c \in codes : codeAge[c] # None
  /\ \A p \in Pairs : Issued(p) => codeAge[pair[p].origin] # None

(* What a loader found expired stays so.                                   *)
StaysExpired == \A r \in Requests :
  /\ At(r, "dropExpiredAccess") => AccessExpired(req[r].pair)
  /\ At(r, "dropExpiredRefresh") => RefreshExpired(req[r].pair)

(* Two live tokens of a pair have its row; an access token loses it only   *)
(* to a revocation that still has it to delete.                            *)
RowsKept ==
  /\ access \cap refresh \subseteq linked
  /\ \A p \in access \ linked :
       p \in halted \/ \E r \in Requests : req[r].pair = p /\ At(r, "dropPairedAccess")

(* How far each revocation has come.                                       *)
ProgressOf(r) ==
  /\ req[r].pc \in {"unlinkAccess", "dropPairedRefresh"} => req[r].pair \notin access
  /\ req[r].pc \in {"unlinkRefresh", "dropPairedAccess"} => req[r].pair \notin refresh
  /\ req[r].pc \in {"dropAccess", "unlinkAccess", "revokeRefresh", "unlinkRefresh"} =>
       req[r].found \/ req[r].pair \notin linked
  /\ req[r].pc \in {"findRefresh", "dropAccess", "unlinkAccess"}
       /\ req[r].pair \in refresh \ linked =>
       \/ req[r].pair \in halted
       \/ \E s \in Requests : req[s].pair = req[r].pair /\ At(s, "dropPairedRefresh")

Progress == \A r \in Requests : ProgressOf(r)

(* A code is redeemed once, or its family is counted as doubled.           *)
OneFamily ==
  /\ \A c \in codes :
       /\ \A p \in Pairs : pair[p].origin # c
       /\ \A r \in Requests : At(r, "issue") => req[r].code # c
  /\ \A r \in Requests : At(r, "issue") /\ req[r].code \notin doubled =>
       /\ \A p \in Pairs : pair[p].origin # req[r].code
       /\ \A s \in Requests : At(s, "issue") /\ req[s].code = req[r].code => s = r

IInv ==
  /\ TypeOK /\ OnlyIssued /\ StaysExpired /\ RowsKept /\ Progress /\ OneFamily
  /\ RevokedMeansGone /\ AccessHasRefresh /\ OneLiveRefresh
=============================================================================
