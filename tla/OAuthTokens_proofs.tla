----------------------- MODULE OAuthTokens_proofs -----------------------
(***************************************************************************)
(* Proofs about OAuthTokens: IInv is inductive, hence revocation, pairing  *)
(* and rotation are right for any number of codes, pairs and requests.     *)
(* There is one lemma per action and, in it, one step per named part.      *)
(***************************************************************************)
EXTENDS OAuthTokens, TLAPS

(* The parts of TypeOK that say what a request holds.                      *)
LEMMA RequestTyped ==
  ASSUME TypeOK, NEW r \in Requests
  PROVE  /\ req[r].pc \in {"idle"} \cup CodePcs \cup PairPcs
         /\ req[r].code \in Codes \cup {None} /\ req[r].pair \in Pairs \cup {None}
         /\ req[r].found \in BOOLEAN
BY DEF TypeOK, Request

(* What each way of moving a request does to the requests.                 *)
LEMMA ReturnEffect ==
  ASSUME TypeOK, NEW r \in Requests, Return(r)
  PROVE  /\ req' \in [Requests -> Request] /\ req'[r] = Idle
         /\ \A s \in Requests : s # r => req'[s] = req[s]
BY DEF TypeOK, Return, Request, Idle

LEMMA GotoEffect ==
  ASSUME TypeOK, NEW r \in Requests, NEW pc \in CodePcs \cup PairPcs, Goto(r, pc)
  PROVE  /\ req' \in [Requests -> Request]
         /\ req'[r].pc = pc /\ req'[r].code = req[r].code
         /\ req'[r].pair = req[r].pair /\ req'[r].found = req[r].found
         /\ \A s \in Requests : s # r => req'[s] = req[s]
BY DEF TypeOK, Goto, Request

LEMMA TakeEffect ==
  ASSUME TypeOK, NEW r \in Requests, NEW pc \in CodePcs \cup PairPcs,
         NEW c \in Codes \cup {None}, NEW p \in Pairs \cup {None}, Take(r, pc, c, p)
  PROVE  /\ req' \in [Requests -> Request]
         /\ req'[r].pc = pc /\ req'[r].code = c
         /\ req'[r].pair = p /\ req'[r].found = FALSE
         /\ \A s \in Requests : s # r => req'[s] = req[s]
BY DEF TypeOK, Take, Request

(* The request of a pc that holds a pair holds an issued one.              *)
LEMMA PairHeld ==
  ASSUME IInv, NEW r \in Requests, req[r].pc \in PairPcs
  PROVE  req[r].pair \in Pairs /\ Issued(req[r].pair)
BY RequestTyped DEF IInv, OnlyIssued, HoldsIssued

(* The refresh token of a pair outlives the access token.                  *)
LEMMA ExpiredTogether ==
  ASSUME TypeOK, NEW p \in Pairs, RefreshExpired(p)
  PROVE  AccessExpired(p)
<1>1. pair[p].age \in Nat
  BY TokenAssumption DEF TypeOK, Ages
<1> QED BY <1>1, TokenAssumption DEF RefreshExpired, AccessExpired

(* Nothing is issued yet.                                                  *)
LEMMA InitIInv == Init => IInv
BY TokenAssumption
   DEF Init, IInv, TypeOK, OnlyIssued, HoldsIssued, StaysExpired, RowsKept, Progress,
       ProgressOf, OneFamily, RevokedMeansGone, AccessHasRefresh, OneLiveRefresh, Idle,
       Request, Ages, At, Issued, CodePcs, PairPcs, RevokePcs

(* A new code: nobody knows of it yet.                                     *)
LEMMA LoginStep ==
  ASSUME IInv, NEW c \in Codes, Login(c)
  PROVE  IInv'
<1>1. TypeOK'
  BY TokenAssumption DEF IInv, TypeOK, Login, Ages
<1>2. OnlyIssued'
  <2>1. codeAge'[c] = 0 /\ \A d \in Codes : d # c => codeAge'[d] = codeAge[d]
    BY DEF IInv, TypeOK, Login
  <2>2. \A r \in Requests : req[r].pc \in CodePcs => req[r].code \in Codes
    BY RequestTyped DEF IInv, OnlyIssued, HoldsIssued
  <2>3. \A p \in Pairs : Issued(p) => pair[p].origin \in Codes
    BY DEF IInv, TypeOK, Issued
  <2> QED
    BY <2>1, <2>2, <2>3, TokenAssumption
       DEF IInv, TypeOK, OnlyIssued, HoldsIssued, Login, Issued
<1>3. (StaysExpired /\ RowsKept /\ Progress)'
  BY
     DEF IInv, StaysExpired, RowsKept, Progress, ProgressOf, Login, At, AccessExpired,
         RefreshExpired
<1>4. OneFamily'
  <2>1. \A p \in Pairs : pair[p].origin # c
    BY TokenAssumption DEF IInv, OnlyIssued, HoldsIssued, Login, Issued
  <2>2. \A r \in Requests : At(r, "issue") => req[r].code # c
    BY DEF IInv, OnlyIssued, HoldsIssued, Login, At, CodePcs
  <2> QED
    BY <2>1, <2>2 DEF IInv, OneFamily, Login, At
<1>5. (RevokedMeansGone /\ AccessHasRefresh /\ OneLiveRefresh)'
  BY
     DEF IInv, RevokedMeansGone, AccessHasRefresh, OneLiveRefresh, Login, Revoking,
         AccessExpired
<1> QED BY <1>1, <1>2, <1>3, <1>4, <1>5 DEF IInv

(* Loading a code only sets what the request does next.                    *)
LEMMA LoadCodeStep ==
  ASSUME IInv, NEW r \in Requests, NEW c \in Codes, NEW owned \in BOOLEAN, LoadCode(r, c, owned)
  PROVE  IInv'
<1>0. /\ req' \in [Requests -> Request]
      /\ req'[r].pc \in {"redeem", "dropCode"} /\ req'[r].code = c
      /\ req'[r].pair = None /\ req'[r].found = FALSE
      /\ \A s \in Requests : s # r => req'[s] = req[s]
  BY TakeEffect DEF IInv, LoadCode, CodePcs, PairPcs, RevokePcs
<1>1. TypeOK'
  BY <1>0 DEF IInv, TypeOK, LoadCode, tables, history
<1>2. OnlyIssued'
  BY <1>0, RequestTyped, TokenAssumption
     DEF IInv, TypeOK, OnlyIssued, HoldsIssued, LoadCode, tables, history, Idle, At, Issued,
         CodePcs, PairPcs, RevokePcs
<1>3. StaysExpired'
  BY <1>0
     DEF IInv, StaysExpired, LoadCode, tables, history, Idle, At, AccessExpired,
         RefreshExpired
<1>4. RowsKept'
  BY <1>0 DEF IInv, RowsKept, Progress, ProgressOf, LoadCode, tables, history, Idle, At
<1>5. Progress'
  BY <1>0 DEF IInv, RowsKept, Progress, ProgressOf, LoadCode, tables, history, Idle, At
<1>6. OneFamily'
  BY <1>0 DEF IInv, OneFamily, LoadCode, tables, history, Idle, At
<1>7. RevokedMeansGone'
  BY <1>0
     DEF IInv, RevokedMeansGone, Progress, ProgressOf, RowsKept, Revoking, Cutting,
         LoadCode, tables, history, Idle, At
<1>8. AccessHasRefresh'
  BY <1>0, TokenAssumption
     DEF IInv, AccessHasRefresh, StaysExpired, Progress, ProgressOf, Revoking, Cutting,
         LoadCode, tables, history, Idle, At, AccessExpired, RefreshExpired
<1>9. OneLiveRefresh'
  BY DEF IInv, OneLiveRefresh, LoadCode, tables, history
<1> QED BY <1>1, <1>2, <1>3, <1>4, <1>5, <1>6, <1>7, <1>8, <1>9 DEF IInv

(* Dropping a code ends the request.                                       *)
LEMMA DropCodeStep ==
  ASSUME IInv, NEW r \in Requests, DropCode(r)
  PROVE  IInv'
<1>0. /\ req' \in [Requests -> Request] /\ req'[r] = Idle
      /\ \A s \in Requests : s # r => req'[s] = req[s]
  BY ReturnEffect DEF IInv, DropCode
<1>1. TypeOK'
  BY <1>0 DEF IInv, TypeOK, DropCode, tables, history
<1>2. OnlyIssued'
  BY <1>0, RequestTyped
     DEF IInv, TypeOK, OnlyIssued, HoldsIssued, DropCode, tables, history, Idle, At, Issued,
         CodePcs, PairPcs, RevokePcs
<1>3. StaysExpired'
  BY <1>0
     DEF IInv, StaysExpired, DropCode, tables, history, Idle, At, AccessExpired,
         RefreshExpired
<1>4. RowsKept'
  BY <1>0 DEF IInv, RowsKept, Progress, ProgressOf, DropCode, tables, history, Idle, At
<1>5. Progress'
  BY <1>0 DEF IInv, RowsKept, Progress, ProgressOf, DropCode, tables, history, Idle, At
<1>6. OneFamily'
  BY <1>0 DEF IInv, OneFamily, DropCode, tables, history, Idle, At
<1>7. RevokedMeansGone'
  BY <1>0
     DEF IInv, RevokedMeansGone, Progress, ProgressOf, RowsKept, Revoking, Cutting,
         DropCode, tables, history, Idle, At
<1>8. AccessHasRefresh'
  BY <1>0, TokenAssumption
     DEF IInv, AccessHasRefresh, StaysExpired, Progress, ProgressOf, Revoking, Cutting,
         DropCode, tables, history, Idle, At, AccessExpired, RefreshExpired
<1>9. OneLiveRefresh'
  BY DEF IInv, OneLiveRefresh, DropCode, tables, history
<1> QED BY <1>1, <1>2, <1>3, <1>4, <1>5, <1>6, <1>7, <1>8, <1>9 DEF IInv

(* Loading a refresh token only sets what the request does next.           *)
LEMMA LoadRefreshStep ==
  ASSUME IInv, NEW r \in Requests, NEW p \in Pairs, LoadRefresh(r, p)
  PROVE  IInv'
<1>1. /\ req' \in [Requests -> Request]
      /\ req'[r].pc \in {"dropExpiredRefresh", "rotate"} /\ req'[r].code = None
      /\ req'[r].pair = p /\ req'[r].found = FALSE
      /\ req'[r].pc = "dropExpiredRefresh" => RefreshExpired(p)
      /\ \A s \in Requests : s # r => req'[s] = req[s]
  <2>1. CASE RefreshExpired(p)
    <3>1. Take(r, "dropExpiredRefresh", None, p)
      BY <2>1 DEF LoadRefresh
    <3> QED BY <2>1, <3>1, TakeEffect DEF IInv, PairPcs
  <2>2. CASE ~RefreshExpired(p)
    <3>1. Take(r, "rotate", None, p)
      BY <2>2 DEF LoadRefresh
    <3>2. /\ req' \in [Requests -> Request]
          /\ req'[r].pc = "rotate" /\ req'[r].code = None
          /\ req'[r].pair = p /\ req'[r].found = FALSE
          /\ \A s \in Requests : s # r => req'[s] = req[s]
      BY <3>1, TakeEffect DEF IInv, PairPcs
    <3> QED BY <3>2
  <2> QED BY <2>1, <2>2
<1>2. /\ UNCHANGED <<codes, access, refresh, linked, codeAge, pair, halted, revoked, doubled>>
      /\ At(r, "idle") /\ p \in refresh
  BY DEF LoadRefresh, tables, history
<1>3. p # None /\ Issued(p)
  BY <1>2, TokenAssumption DEF IInv, OnlyIssued, HoldsIssued
<1>4. TypeOK'
  BY <1>1, <1>2 DEF IInv, TypeOK
<1>5. OnlyIssued'
  BY <1>1, <1>2, <1>3 DEF IInv, OnlyIssued, HoldsIssued, Issued, CodePcs, PairPcs, RevokePcs
<1>6. StaysExpired'
  BY <1>1, <1>2 DEF IInv, StaysExpired, At, AccessExpired, RefreshExpired
<1>7. RowsKept'
  BY <1>1, <1>2 DEF IInv, RowsKept, At
<1>8. Progress'
  BY <1>1, <1>2 DEF IInv, Progress, ProgressOf, At
<1>9. OneFamily'
  BY <1>1, <1>2 DEF IInv, OneFamily, At
<1>10. RevokedMeansGone'
  BY <1>1, <1>2 DEF IInv, RevokedMeansGone, Revoking, Cutting, At
<1>11. AccessHasRefresh'
  BY <1>1, <1>2 DEF IInv, AccessHasRefresh, Revoking, Cutting, At, AccessExpired
<1>12. OneLiveRefresh'
  BY <1>2 DEF IInv, OneLiveRefresh
<1> QED BY <1>4, <1>5, <1>6, <1>7, <1>8, <1>9, <1>10, <1>11, <1>12 DEF IInv

(* The access token of the pair has expired as well.                       *)
LEMMA DropExpiredRefreshStep ==
  ASSUME IInv, NEW r \in Requests, DropExpiredRefresh(r)
  PROVE  IInv'
<1>0. /\ req' \in [Requests -> Request] /\ req'[r] = Idle
      /\ \A s \in Requests : s # r => req'[s] = req[s]
  BY ReturnEffect DEF IInv, DropExpiredRefresh
<1>1. TypeOK'
  BY <1>0 DEF IInv, TypeOK, DropExpiredRefresh, tables, history
<1>2. OnlyIssued'
  BY <1>0, RequestTyped
     DEF IInv, TypeOK, OnlyIssued, HoldsIssued, DropExpiredRefresh, tables, history,
         Idle, At, Issued, CodePcs, PairPcs, RevokePcs
<1>3. StaysExpired'
  BY <1>0
     DEF IInv, StaysExpired, DropExpiredRefresh, tables, history, Idle, At, AccessExpired,
         RefreshExpired
<1>4. RowsKept'
  BY <1>0
     DEF IInv, RowsKept, Progress, ProgressOf, DropExpiredRefresh, tables, history,
         Idle, At
<1>5. Progress'
  BY <1>0
     DEF IInv, RowsKept, Progress, ProgressOf, DropExpiredRefresh, tables, history,
         Idle, At
<1>6. OneFamily'
  BY <1>0 DEF IInv, OneFamily, DropExpiredRefresh, tables, history, Idle, At
<1>7. RevokedMeansGone'
  BY <1>0
     DEF IInv, RevokedMeansGone, Progress, ProgressOf, RowsKept, Revoking, Cutting,
         DropExpiredRefresh, tables, history, Idle, At
<1>7a. AccessExpired(req[r].pair)
  BY PairHeld, ExpiredTogether DEF IInv, StaysExpired, DropExpiredRefresh, At, PairPcs
<1>8. AccessHasRefresh'
  BY <1>0, <1>7a
     DEF IInv, AccessHasRefresh, StaysExpired, Progress, ProgressOf, Revoking, Cutting,
         DropExpiredRefresh, tables, history, Idle, At, AccessExpired, RefreshExpired
<1>9. OneLiveRefresh'
  BY DEF IInv, OneLiveRefresh, DropExpiredRefresh, tables, history
<1> QED BY <1>1, <1>2, <1>3, <1>4, <1>5, <1>6, <1>7, <1>8, <1>9 DEF IInv

(* Dropping an expired access token concerns no refresh token.             *)
LEMMA DropExpiredAccessStep ==
  ASSUME IInv, NEW r \in Requests, DropExpiredAccess(r)
  PROVE  IInv'
<1>0. /\ req' \in [Requests -> Request] /\ req'[r] = Idle
      /\ \A s \in Requests : s # r => req'[s] = req[s]
  BY ReturnEffect DEF IInv, DropExpiredAccess
<1>1. TypeOK'
  BY <1>0 DEF IInv, TypeOK, DropExpiredAccess, tables, history
<1>2. OnlyIssued'
  BY <1>0, RequestTyped
     DEF IInv, TypeOK, OnlyIssued, HoldsIssued, DropExpiredAccess, tables, history,
         Idle, At, Issued, CodePcs, PairPcs, RevokePcs
<1>3. StaysExpired'
  BY <1>0
     DEF IInv, StaysExpired, DropExpiredAccess, tables, history, Idle, At, AccessExpired,
         RefreshExpired
<1>4. RowsKept'
  BY <1>0
     DEF IInv, RowsKept, Progress, ProgressOf, DropExpiredAccess, tables, history, Idle,
         At
<1>5. Progress'
  BY <1>0
     DEF IInv, RowsKept, Progress, ProgressOf, DropExpiredAccess, tables, history, Idle,
         At
<1>6. OneFamily'
  BY <1>0 DEF IInv, OneFamily, DropExpiredAccess, tables, history, Idle, At
<1>7. RevokedMeansGone'
  BY <1>0
     DEF IInv, RevokedMeansGone, Progress, ProgressOf, RowsKept, Revoking, Cutting,
         DropExpiredAccess, tables, history, Idle, At
<1>8. AccessHasRefresh'
  BY <1>0, TokenAssumption
     DEF IInv, AccessHasRefresh, StaysExpired, Progress, ProgressOf, Revoking, Cutting,
         DropExpiredAccess, tables, history, Idle, At, AccessExpired, RefreshExpired
<1>9. OneLiveRefresh'
  BY DEF IInv, OneLiveRefresh, DropExpiredAccess, tables, history
<1> QED BY <1>1, <1>2, <1>3, <1>4, <1>5, <1>6, <1>7, <1>8, <1>9 DEF IInv

(* From here on the pair is being revoked.                                 *)
LEMMA RevokeAccessStep ==
  ASSUME IInv, NEW r \in Requests, RevokeAccess(r)
  PROVE  IInv'
<1>0. /\ req' \in [Requests -> Request]
      /\ req'[r].pc = "unlinkAccess" /\ req'[r].code = req[r].code
      /\ req'[r].pair = req[r].pair /\ req'[r].found = req[r].found
      /\ \A s \in Requests : s # r => req'[s] = req[s]
  BY GotoEffect DEF IInv, RevokeAccess, GoingOn, PairPcs, RevokePcs
<1>1. TypeOK'
  BY <1>0 DEF IInv, TypeOK, RevokeAccess, GoingOn, tables, history, notRevoke
<1>2. OnlyIssued'
  BY <1>0, RequestTyped
     DEF IInv, TypeOK, OnlyIssued, HoldsIssued, RevokeAccess, GoingOn, tables, history,
         notRevoke, Idle, At, Issued, CodePcs, PairPcs, RevokePcs
<1>3. StaysExpired'
  BY <1>0
     DEF IInv, StaysExpired, RevokeAccess, GoingOn, tables, history, notRevoke, Idle, At,
         AccessExpired, RefreshExpired
<1>4. RowsKept'
  BY <1>0
     DEF IInv, RowsKept, Progress, ProgressOf, RevokeAccess, GoingOn, tables, history,
         notRevoke, Idle, At
<1>5. Progress'
  BY <1>0
     DEF IInv, RowsKept, Progress, ProgressOf, RevokeAccess, GoingOn, tables, history,
         notRevoke, Idle, At
<1>6. OneFamily'
  BY <1>0 DEF IInv, OneFamily, RevokeAccess, GoingOn, tables, history, notRevoke, Idle, At
<1>7. RevokedMeansGone'
  BY <1>0
     DEF IInv, RevokedMeansGone, Progress, ProgressOf, RowsKept, Revoking, Cutting,
         RevokeAccess, GoingOn, tables, history, notRevoke, Idle, At
<1>8. AccessHasRefresh'
  BY <1>0, TokenAssumption
     DEF IInv, AccessHasRefresh, StaysExpired, Progress, ProgressOf, Revoking, Cutting,
         RevokeAccess, GoingOn, tables, history, notRevoke, Idle, At, AccessExpired,
         RefreshExpired
<1>9. OneLiveRefresh'
  BY DEF IInv, OneLiveRefresh, RevokeAccess, GoingOn, tables, history, notRevoke
<1> QED BY <1>1, <1>2, <1>3, <1>4, <1>5, <1>6, <1>7, <1>8, <1>9 DEF IInv

(* From here on the pair is being revoked.                                 *)
LEMMA RevokeRefreshStep ==
  ASSUME IInv, NEW r \in Requests, RevokeRefresh(r)
  PROVE  IInv'
<1>0. /\ req' \in [Requests -> Request]
      /\ req'[r].pc = "unlinkRefresh" /\ req'[r].code = req[r].code
      /\ req'[r].pair = req[r].pair /\ req'[r].found = req[r].found
      /\ \A s \in Requests : s # r => req'[s] = req[s]
  BY GotoEffect DEF IInv, RevokeRefresh, GoingOn, PairPcs, RevokePcs
<1>1. TypeOK'
  BY <1>0 DEF IInv, TypeOK, RevokeRefresh, GoingOn, tables, history, notRevoke
<1>2. OnlyIssued'
  BY <1>0, RequestTyped
     DEF IInv, TypeOK, OnlyIssued, HoldsIssued, RevokeRefresh, GoingOn, tables, history,
         notRevoke, Idle, At, Issued, CodePcs, PairPcs, RevokePcs
<1>3. StaysExpired'
  BY <1>0
     DEF IInv, StaysExpired, RevokeRefresh, GoingOn, tables, history, notRevoke, Idle, At,
         AccessExpired, RefreshExpired
<1>4. RowsKept'
  BY <1>0
     DEF IInv, RowsKept, Progress, ProgressOf, RevokeRefresh, GoingOn, tables, history,
         notRevoke, Idle, At
<1>5. Progress'
  BY <1>0
     DEF IInv, RowsKept, Progress, ProgressOf, RevokeRefresh, GoingOn, tables, history,
         notRevoke, Idle, At
<1>6. OneFamily'
  BY <1>0 DEF IInv, OneFamily, RevokeRefresh, GoingOn, tables, history, notRevoke, Idle, At
<1>7. RevokedMeansGone'
  BY <1>0
     DEF IInv, RevokedMeansGone, Progress, ProgressOf, RowsKept, Revoking, Cutting,
         RevokeRefresh, GoingOn, tables, history, notRevoke, Idle, At
<1>8. AccessHasRefresh'
  BY <1>0, TokenAssumption
     DEF IInv, AccessHasRefresh, StaysExpired, Progress, ProgressOf, Revoking, Cutting,
         RevokeRefresh, GoingOn, tables, history, notRevoke, Idle, At, AccessExpired,
         RefreshExpired
<1>9. OneLiveRefresh'
  BY DEF IInv, OneLiveRefresh, RevokeRefresh, GoingOn, tables, history, notRevoke
<1> QED BY <1>1, <1>2, <1>3, <1>4, <1>5, <1>6, <1>7, <1>8, <1>9 DEF IInv

(* The other token went in an earlier step of the same request.            *)
LEMMA DropPairedStep ==
  ASSUME IInv, NEW r \in Requests, DropPaired(r)
  PROVE  IInv'
<1>0. /\ req' \in [Requests -> Request] /\ req'[r] = Idle
      /\ \A s \in Requests : s # r => req'[s] = req[s]
  BY ReturnEffect DEF IInv, DropPaired, Revoked
<1>1. TypeOK'
  BY <1>0, PairHeld
     DEF IInv, TypeOK, DropPaired, Revoked, tables, history, notRevoke, At, PairPcs,
         RevokePcs
<1>2. OnlyIssued'
  BY <1>0, RequestTyped
     DEF IInv, TypeOK, OnlyIssued, HoldsIssued, DropPaired, Revoked, tables, history,
         notRevoke, Idle, At, Issued, CodePcs, PairPcs, RevokePcs
<1>3. StaysExpired'
  BY <1>0
     DEF IInv, StaysExpired, DropPaired, Revoked, tables, history, notRevoke, Idle, At,
         AccessExpired, RefreshExpired
<1>4. RowsKept'
  BY <1>0
     DEF IInv, RowsKept, Progress, ProgressOf, DropPaired, Revoked, tables, history,
         notRevoke, Idle, At
<1>5. Progress'
  BY <1>0
     DEF IInv, RowsKept, Progress, ProgressOf, DropPaired, Revoked, tables, history,
         notRevoke, Idle, At
<1>6. OneFamily'
  BY <1>0 DEF IInv, OneFamily, DropPaired, Revoked, tables, history, notRevoke, Idle, At
<1>7. RevokedMeansGone'
  BY <1>0
     DEF IInv, RevokedMeansGone, Progress, ProgressOf, RowsKept, Revoking, Cutting,
         DropPaired, Revoked, tables, history, notRevoke, Idle, At
<1>8. AccessHasRefresh'
  BY <1>0, TokenAssumption
     DEF IInv, AccessHasRefresh, StaysExpired, Progress, ProgressOf, Revoking, Cutting,
         DropPaired, Revoked, tables, history, notRevoke, Idle, At, AccessExpired,
         RefreshExpired
<1>9. OneLiveRefresh'
  BY DEF IInv, OneLiveRefresh, DropPaired, Revoked, tables, history, notRevoke
<1> QED BY <1>1, <1>2, <1>3, <1>4, <1>5, <1>6, <1>7, <1>8, <1>9 DEF IInv

(* A pair that was being revoked is remembered as halted.                  *)
LEMMA AbortStep ==
  ASSUME IInv, NEW r \in Requests, Abort(r)
  PROVE  IInv'
<1>1. /\ req' \in [Requests -> Request] /\ req'[r] = Idle
      /\ \A s \in Requests : s # r => req'[s] = req[s]
  BY ReturnEffect DEF IInv, Abort
<1>2. UNCHANGED <<codes, access, refresh, linked, codeAge, pair, revoked, doubled>>
  BY DEF Abort, tables
<1>3. req[r].pc \in Cutting => req[r].pair \in Pairs /\ Issued(req[r].pair)
  BY PairHeld DEF Cutting, PairPcs, RevokePcs
<1>4. \A p : p \in halted' <=> p \in halted \/ (req[r].pc \in Cutting /\ p = req[r].pair)
  BY DEF Abort, HalfRevoked
<1>5. TypeOK'
  BY <1>1, <1>2, <1>3, <1>4 DEF IInv, TypeOK
<1>6. OnlyIssued'
  BY <1>1, <1>2, <1>3, <1>4
     DEF IInv, TypeOK, OnlyIssued, HoldsIssued, Idle, Issued, CodePcs, PairPcs, RevokePcs
<1>7. StaysExpired'
  BY <1>1, <1>2 DEF IInv, StaysExpired, Idle, At, AccessExpired, RefreshExpired
<1>8. RowsKept'
  BY <1>1, <1>2, <1>4 DEF IInv, RowsKept, Idle, At, Cutting
<1>9. Progress'
  BY <1>1, <1>2, <1>4 DEF IInv, Progress, ProgressOf, Idle, At, Cutting
<1>10. OneFamily'
  BY <1>1, <1>2 DEF IInv, OneFamily, Idle, At
<1>11. RevokedMeansGone'
  BY <1>1, <1>2, <1>4 DEF IInv, RevokedMeansGone, Revoking
<1>12. AccessHasRefresh'
  BY <1>1, <1>2, <1>4 DEF IInv, AccessHasRefresh, Revoking, AccessExpired
<1>13. OneLiveRefresh'
  BY <1>2 DEF IInv, OneLiveRefresh
<1> QED BY <1>5, <1>6, <1>7, <1>8, <1>9, <1>10, <1>11, <1>12, <1>13 DEF IInv

(* A revocation starts from a token that is there.                         *)
LEMMA LoadTokenStep ==
  ASSUME IInv, NEW r \in Requests, NEW p \in Pairs, LoadToken(r, p)
  PROVE  IInv'
<1>1. /\ req' \in [Requests -> Request]
      /\ req'[r].pc \in {"dropExpiredAccess", "findRefresh", "dropExpiredRefresh", "findAccess"}
      /\ req'[r].code = None /\ req'[r].pair = p /\ req'[r].found = FALSE
      /\ req'[r].pc = "dropExpiredAccess" => AccessExpired(p)
      /\ req'[r].pc = "dropExpiredRefresh" => RefreshExpired(p)
      /\ req'[r].pc = "findRefresh" => p \in access
      /\ \A s \in Requests : s # r => req'[s] = req[s]
  <2>1. CASE p \in access /\ AccessExpired(p) /\ Take(r, "dropExpiredAccess", None, p)
    <3>1. /\ req' \in [Requests -> Request]
          /\ req'[r].pc = "dropExpiredAccess" /\ req'[r].code = None
          /\ req'[r].pair = p /\ req'[r].found = FALSE
          /\ \A s \in Requests : s # r => req'[s] = req[s]
      BY <2>1, TakeEffect DEF IInv, PairPcs, RevokePcs
    <3> QED BY <2>1, <3>1
  <2>2. CASE p \in access /\ ~AccessExpired(p) /\ Take(r, "findRefresh", None, p)
    <3>1. /\ req' \in [Requests -> Request]
          /\ req'[r].pc = "findRefresh" /\ req'[r].code = None
          /\ req'[r].pair = p /\ req'[r].found = FALSE
          /\ \A s \in Requests : s # r => req'[s] = req[s]
      BY <2>2, TakeEffect DEF IInv, PairPcs, RevokePcs
    <3> QED BY <2>2, <3>1
  <2>3. CASE p \in refresh /\ RefreshExpired(p) /\ Take(r, "dropExpiredRefresh", None, p)
    <3>1. /\ req' \in [Requests -> Request]
          /\ req'[r].pc = "dropExpiredRefresh" /\ req'[r].code = None
          /\ req'[r].pair = p /\ req'[r].found = FALSE
          /\ \A s \in Requests : s # r => req'[s] = req[s]
      BY <2>3, TakeEffect DEF IInv, PairPcs, RevokePcs
    <3> QED BY <2>3, <3>1
  <2>4. CASE p \in refresh /\ ~RefreshExpired(p) /\ Take(r, "findAccess", None, p)
    <3>1. /\ req' \in [Requests -> Request]
          /\ req'[r].pc = "findAccess" /\ req'[r].code = None
          /\ req'[r].pair = p /\ req'[r].found = FALSE
          /\ \A s \in Requests : s # r => req'[s] = req[s]
      BY <2>4, TakeEffect DEF IInv, PairPcs, RevokePcs
    <3> QED BY <2>4, <3>1
  <2> QED BY <2>1, <2>2, <2>3, <2>4 DEF LoadToken
<1>2. /\ UNCHANGED <<codes, access, refresh, linked, codeAge, pair, halted, revoked, doubled>>
      /\ At(r, "idle") /\ (p \in access \/ p \in refresh)
  BY DEF LoadToken, tables, history
<1>3. p # None /\ Issued(p)
  BY <1>2, TokenAssumption DEF IInv, OnlyIssued, HoldsIssued
<1>4. TypeOK'
  BY <1>1, <1>2 DEF IInv, TypeOK
<1>5. OnlyIssued'
  BY <1>1, <1>2, <1>3 DEF IInv, OnlyIssued, HoldsIssued, Issued, CodePcs, PairPcs, RevokePcs
<1>6. StaysExpired'
  BY <1>1, <1>2 DEF IInv, StaysExpired, At, AccessExpired, RefreshExpired
<1>7. RowsKept'
  BY <1>1, <1>2 DEF IInv, RowsKept, At
<1>8. Progress'
  BY <1>1, <1>2 DEF IInv, RowsKept, Progress, ProgressOf, At
<1>9. OneFamily'
  BY <1>1, <1>2 DEF IInv, OneFamily, At
<1>10. RevokedMeansGone'
  BY <1>1, <1>2 DEF IInv, RevokedMeansGone, Revoking, Cutting, At
<1>11. AccessHasRefresh'
  BY <1>1, <1>2 DEF IInv, AccessHasRefresh, Revoking, Cutting, At, AccessExpired
<1>12. OneLiveRefresh'
  BY <1>2 DEF IInv, OneLiveRefresh
<1> QED BY <1>4, <1>5, <1>6, <1>7, <1>8, <1>9, <1>10, <1>11, <1>12 DEF IInv

(* What the row says is known from here on.                                *)
LEMMA FindPairedStep ==
  ASSUME IInv, NEW r \in Requests, FindPaired(r)
  PROVE  IInv'
<1>1. /\ req' \in [Requests -> Request]
      /\ \/ req[r].pc = "findRefresh" /\ req'[r].pc = "dropAccess"
         \/ req[r].pc = "findAccess" /\ req'[r].pc = "revokeRefresh"
      /\ req'[r].code = None /\ req'[r].pair = req[r].pair
      /\ req'[r].found \/ req[r].pair \notin linked
      /\ \A s \in Requests : s # r => req'[s] = req[s]
  <2> DEFINE held == [pc |-> IF At(r, "findRefresh") THEN "dropAccess" ELSE "revokeRefresh",
                      code |-> None, pair |-> req[r].pair, found |-> req[r].pair \in linked]
  <2>1. req' = [req EXCEPT ![r] = held]
    BY DEF FindPaired
  <2>2. held \in Request
    BY RequestTyped DEF IInv, Request, PairPcs, RevokePcs
  <2>3. held.found \/ req[r].pair \notin linked
    OBVIOUS
  <2>4. /\ held.code = None /\ held.pair = req[r].pair
        /\ req[r].pc = "findRefresh" => held.pc = "dropAccess"
        /\ req[r].pc # "findRefresh" => held.pc = "revokeRefresh"
    BY DEF At
  <2>5. req[r].pc \in {"findRefresh", "findAccess"}
    BY DEF FindPaired, At
  <2> HIDE DEF held
  <2> QED BY <2>1, <2>2, <2>3, <2>4, <2>5 DEF IInv, TypeOK
<1>2. UNCHANGED <<codes, access, refresh, linked, codeAge, pair, halted, revoked, doubled>>
  BY DEF FindPaired, tables, history
<1>4. TypeOK'
  BY <1>1, <1>2 DEF IInv, TypeOK
<1>5. OnlyIssued'
  BY <1>1, <1>2 DEF IInv, OnlyIssued, HoldsIssued, Issued, CodePcs, PairPcs, RevokePcs
<1>6. StaysExpired'
  BY <1>1, <1>2 DEF IInv, StaysExpired, At, AccessExpired, RefreshExpired
<1>7. RowsKept'
  BY <1>1, <1>2 DEF IInv, RowsKept, At
<1>3. \A s, t \in Requests : req[s].pair = req[t].pair => req'[s].pair = req'[t].pair
  BY <1>1
<1>8. Progress'
  <2> SUFFICES ASSUME NEW s \in Requests PROVE ProgressOf(s)'
    BY DEF Progress
  <2>1. CASE s = r
    BY <1>1, <1>2, <2>1 DEF IInv, Progress, ProgressOf, At
  <2>2. CASE s # r
    BY <1>1, <1>2, <2>2 DEF IInv, Progress, ProgressOf, At
  <2> QED BY <2>1, <2>2
<1>9. OneFamily'
  BY <1>1, <1>2 DEF IInv, OneFamily, At
<1>10. RevokedMeansGone'
  BY <1>1, <1>2 DEF IInv, RevokedMeansGone, Revoking, Cutting, At
<1>11. AccessHasRefresh'
  BY <1>1, <1>2 DEF IInv, AccessHasRefresh, Revoking, Cutting, At, AccessExpired
<1>12. OneLiveRefresh'
  BY <1>2 DEF IInv, OneLiveRefresh
<1> QED BY <1>4, <1>5, <1>6, <1>7, <1>8, <1>9, <1>10, <1>11, <1>12 DEF IInv

(* Who finds no row leaves the pair to the revocation that took it.        *)
LEMMA UnlinkStep ==
  ASSUME IInv, NEW r \in Requests, Unlink(r)
  PROVE  IInv'
<1>1. /\ req[r].pc \in {"unlinkAccess", "unlinkRefresh"}
      /\ linked' = linked \ {req[r].pair}
      /\ UNCHANGED <<codes, access, refresh, codeAge, pair, halted, doubled>>
  BY DEF Unlink, At, notRevoke
<1>2. req[r].pair \in Pairs /\ Issued(req[r].pair)
  BY <1>1, PairHeld DEF PairPcs, RevokePcs
<1>3. CASE req[r].found
  <2>1. /\ req' \in [Requests -> Request]
        /\ req[r].pc = "unlinkAccess" => req'[r].pc = "dropPairedRefresh"
        /\ req[r].pc = "unlinkRefresh" => req'[r].pc = "dropPairedAccess"
        /\ req'[r].code = req[r].code /\ req'[r].pair = req[r].pair
        /\ \A s \in Requests : s # r => req'[s] = req[s]
    <3>1. CASE At(r, "unlinkAccess")
      BY <1>3, <3>1, GotoEffect DEF IInv, Unlink, GoingOn, At, PairPcs, RevokePcs
    <3>2. CASE At(r, "unlinkRefresh")
      BY <1>3, <3>2, GotoEffect DEF IInv, Unlink, GoingOn, At, PairPcs, RevokePcs
    <3> QED BY <3>1, <3>2 DEF Unlink
  <2>2. revoked' = revoked
    BY <1>3 DEF Unlink, GoingOn
  <2>4. TypeOK'
    BY <1>1, <2>1, <2>2 DEF IInv, TypeOK
  <2>5. OnlyIssued'
    BY <1>1, <1>2, <2>1, <2>2
       DEF IInv, OnlyIssued, HoldsIssued, Issued, CodePcs, PairPcs, RevokePcs
  <2>6. StaysExpired'
    BY <1>1, <2>1 DEF IInv, StaysExpired, At, AccessExpired, RefreshExpired
  <2>7. RowsKept'
    BY <1>1, <2>1 DEF IInv, RowsKept, Progress, ProgressOf, At
  <2>8. Progress'
    BY <1>1, <1>2, <2>1 DEF IInv, Progress, ProgressOf, At
  <2>9. OneFamily'
    BY <1>1, <2>1 DEF IInv, OneFamily, At
  <2>10. RevokedMeansGone'
    BY <1>1, <2>1, <2>2 DEF IInv, RevokedMeansGone, Revoking, Cutting
  <2>11. AccessHasRefresh'
    BY <1>1, <2>1 DEF IInv, AccessHasRefresh, Revoking, Cutting, AccessExpired
  <2>12. OneLiveRefresh'
    BY <1>1 DEF IInv, OneLiveRefresh
  <2> QED BY <2>4, <2>5, <2>6, <2>7, <2>8, <2>9, <2>10, <2>11, <2>12 DEF IInv
<1>4. CASE ~req[r].found
  <2>1. /\ req' \in [Requests -> Request] /\ req'[r] = Idle
        /\ \A s \in Requests : s # r => req'[s] = req[s]
    BY <1>4, ReturnEffect DEF IInv, Unlink, Revoked
  <2>2. revoked' = revoked \cup {req[r].pair}
    BY <1>4 DEF Unlink, Revoked
  <2>3. req[r].pair \notin linked /\ linked' = linked
    BY <1>1, <1>4 DEF IInv, Progress, ProgressOf
  <2>4. TypeOK'
    BY <1>1, <1>2, <2>1, <2>2 DEF IInv, TypeOK
  <2>5. OnlyIssued'
    BY <1>1, <1>2, <2>1, <2>2
       DEF IInv, OnlyIssued, HoldsIssued, Idle, Issued, CodePcs, PairPcs, RevokePcs
  <2>6. StaysExpired'
    BY <1>1, <2>1 DEF IInv, StaysExpired, Idle, At, AccessExpired, RefreshExpired
  <2>7. RowsKept'
    BY <1>1, <2>1, <2>3 DEF IInv, RowsKept, Idle, At
  <2>8. Progress'
    BY <1>1, <2>1, <2>3 DEF IInv, Progress, ProgressOf, Idle, At
  <2>9. OneFamily'
    BY <1>1, <2>1 DEF IInv, OneFamily, Idle, At
  \* What is left of the pair is another revocation's to delete.
  <2>10. (req[r].pair \in access \/ req[r].pair \in refresh) =>
           \/ req[r].pair \in halted
           \/ \E s \in Requests : /\ s # r /\ req[s].pair = req[r].pair
                                  /\ req[s].pc \in {"dropPairedAccess", "dropPairedRefresh"}
    BY <1>1, <2>3 DEF IInv, RowsKept, Progress, ProgressOf, At
  <2>11. RevokedMeansGone'
    BY <1>1, <2>1, <2>2, <2>10 DEF IInv, RevokedMeansGone, Revoking, Cutting, Idle
  <2>12. AccessHasRefresh'
    BY <1>1, <2>1, <2>10 DEF IInv, AccessHasRefresh, Revoking, Cutting, Idle, AccessExpired
  <2>13. OneLiveRefresh'
    BY <1>1 DEF IInv, OneLiveRefresh
  <2> QED BY <2>4, <2>5, <2>6, <2>7, <2>8, <2>9, <2>11, <2>12, <2>13 DEF IInv
<1> QED BY <1>3, <1>4

(* Who redeems a code that is gone doubles its family.                     *)
LEMMA RedeemCodeStep ==
  ASSUME IInv, NEW r \in Requests, RedeemCode(r)
  PROVE  IInv'
<1> DEFINE c == req[r].code
<1>1. /\ req' \in [Requests -> Request]
      /\ req'[r].pc = "issue" /\ req'[r].code = c
      /\ req'[r].pair = req[r].pair /\ req'[r].found = req[r].found
      /\ \A s \in Requests : s # r => req'[s] = req[s]
  BY GotoEffect DEF IInv, RedeemCode, CodePcs
<1>2. /\ codes' = codes \ {c} /\ req[r].pc = "redeem"
      /\ UNCHANGED <<access, refresh, linked, codeAge, pair, halted, revoked>>
  BY DEF RedeemCode, At
<1>3. doubled' = IF c \in codes THEN doubled ELSE doubled \cup {c}
  BY DEF RedeemCode
<1>4. c \in Codes
  BY <1>2, RequestTyped DEF IInv, OnlyIssued, HoldsIssued, CodePcs
<1>5. TypeOK'
  BY <1>1, <1>2, <1>3, <1>4 DEF IInv, TypeOK
<1>6. OnlyIssued'
  <2>1. c # None /\ codeAge[c] # None /\ req[r].pair = None
    BY <1>2 DEF IInv, OnlyIssued, HoldsIssued, CodePcs, PairPcs, RevokePcs
  <2>2. req'[r].pc \notin PairPcs
    BY <1>1 DEF PairPcs, RevokePcs
  <2> HIDE DEF c
  <2> QED BY <1>1, <1>2, <2>1, <2>2 DEF IInv, OnlyIssued, HoldsIssued, Issued
<1>7. StaysExpired'
  BY <1>1, <1>2 DEF IInv, StaysExpired, At, AccessExpired, RefreshExpired
<1>8. RowsKept'
  BY <1>1, <1>2 DEF IInv, RowsKept, At
<1>9. Progress'
  BY <1>1, <1>2 DEF IInv, Progress, ProgressOf, At
<1>10. OneFamily'
  <2> HIDE DEF c
  <2>1. CASE c \in codes
    <3>1. doubled' = doubled
      BY <1>3, <2>1
    <3>2. /\ \A p \in Pairs : pair[p].origin # c
          /\ \A s \in Requests : At(s, "issue") => req[s].code # c
      BY <1>4, <2>1 DEF IInv, OneFamily, At
    <3> QED BY <1>1, <1>2, <3>1, <3>2 DEF IInv, OneFamily, At
  <2>2. CASE c \notin codes
    <3>1. c \in doubled' /\ doubled \subseteq doubled'
      BY <1>3, <2>2
    <3> QED BY <1>1, <1>2, <3>1 DEF IInv, OneFamily, At
  <2> QED BY <2>1, <2>2
<1>11. RevokedMeansGone'
  BY <1>1, <1>2 DEF IInv, RevokedMeansGone, Revoking, Cutting
<1>12. AccessHasRefresh'
  BY <1>1, <1>2 DEF IInv, AccessHasRefresh, Revoking, Cutting, AccessExpired
<1>13. OneLiveRefresh'
  BY <1>2, <1>3 DEF IInv, OneLiveRefresh
<1> QED BY <1>5, <1>6, <1>7, <1>8, <1>9, <1>10, <1>11, <1>12, <1>13 DEF IInv

(* What issuing pair p for code c does to the ages and origins.            *)
LEMMA FreshEffect ==
  ASSUME TypeOK, NEW p \in Pairs, NEW c \in Codes, Fresh(p, c)
  PROVE  /\ pair' \in [Pairs -> [origin : Codes \cup {None}, age : Ages]]
         /\ pair'[p].origin = c /\ pair'[p].age = 0
         /\ \A q \in Pairs : q # p => pair'[q] = pair[q]
BY TokenAssumption DEF TypeOK, Fresh, Ages

(* The first pair of a family.                                             *)
LEMMA IssuePairStep ==
  ASSUME IInv, NEW r \in Requests, NEW p \in Pairs, IssuePair(r, p)
  PROVE  IInv'
<1> DEFINE c == req[r].code
<1>1. /\ req' \in [Requests -> Request] /\ req'[r] = Idle
      /\ \A s \in Requests : s # r => req'[s] = req[s]
  BY ReturnEffect DEF IInv, IssuePair
<1>2. /\ req[r].pc = "issue" /\ ~Issued(p)
      /\ access' = access \cup {p} /\ refresh' = refresh \cup {p} /\ linked' = linked \cup {p}
      /\ UNCHANGED <<codes, codeAge, halted, revoked, doubled>>
  BY DEF IssuePair, At, history
<1>3. c \in Codes /\ codeAge[c] # None
  BY <1>2, RequestTyped DEF IInv, OnlyIssued, HoldsIssued, CodePcs
<1>4. /\ pair' \in [Pairs -> [origin : Codes \cup {None}, age : Ages]]
      /\ pair'[p].origin = c /\ pair'[p].age = 0
      /\ \A q \in Pairs : q # p => pair'[q] = pair[q]
  BY <1>3, FreshEffect DEF IInv, IssuePair
<1>5. /\ p \notin access \cup refresh \cup linked \cup halted \cup revoked
      /\ \A s \in Requests : req[s].pair # p
  BY <1>2, RequestTyped, TokenAssumption DEF IInv, OnlyIssued, HoldsIssued
<1>6. TypeOK'
  BY <1>1, <1>2, <1>4 DEF IInv, TypeOK
<1>7. OnlyIssued'
  <2>1. \A k \in access' \cup refresh' \cup linked' \cup halted' \cup revoked' : Issued(k)'
    BY <1>2, <1>3, <1>4, TokenAssumption DEF IInv, TypeOK, OnlyIssued, HoldsIssued, Issued
  <2>2. ASSUME NEW s \in Requests PROVE HoldsIssued(s)'
    <3>1. CASE s = r
      BY <1>1, <3>1 DEF HoldsIssued, Idle, CodePcs, PairPcs, RevokePcs
    <3>2. CASE s # r
      BY <1>1, <1>2, <1>4, <1>5, <3>2, RequestTyped
         DEF IInv, OnlyIssued, HoldsIssued, Issued
    <3> QED BY <3>1, <3>2
  <2>3. \A d \in codes' : codeAge'[d] # None
    BY <1>2 DEF IInv, OnlyIssued, HoldsIssued
  <2>4. \A k \in Pairs : Issued(k)' => codeAge'[pair'[k].origin] # None
    BY <1>2, <1>3, <1>4 DEF IInv, OnlyIssued, HoldsIssued, Issued
  <2> QED BY <2>1, <2>2, <2>3, <2>4 DEF OnlyIssued
<1>8. StaysExpired'
  BY <1>1, <1>2, <1>4, <1>5, PairHeld
     DEF IInv, StaysExpired, Idle, At, AccessExpired, RefreshExpired, PairPcs
<1>9. RowsKept'
  BY <1>1, <1>2, <1>5 DEF IInv, RowsKept, Idle, At
<1>10. Progress'
  BY <1>1, <1>2, <1>5 DEF IInv, Progress, ProgressOf, Idle, At
<1>11. OneFamily'
  BY <1>1, <1>2, <1>4 DEF IInv, OneFamily, Idle, At
<1>12. RevokedMeansGone'
  BY <1>1, <1>2, <1>5 DEF IInv, RevokedMeansGone, Revoking, Cutting, Idle
<1>13. AccessHasRefresh'
  BY <1>1, <1>2, <1>4, <1>5
     DEF IInv, TypeOK, AccessHasRefresh, Revoking, Cutting, Idle, AccessExpired
<1>14. OneLiveRefresh'
  BY <1>2, <1>4 DEF IInv, TypeOK, OneLiveRefresh, OneFamily, At
<1> QED BY <1>6, <1>7, <1>8, <1>9, <1>10, <1>11, <1>12, <1>13, <1>14 DEF IInv

(* A pair of the family takes the place of another.                        *)
LEMMA RotateStep ==
  ASSUME IInv, NEW r \in Requests, NEW q \in Pairs, Rotate(r, q)
  PROVE  IInv'
<1> DEFINE p == req[r].pair
           c == pair[p].origin
<1>1. /\ req' \in [Requests -> Request] /\ req'[r] = Idle
      /\ \A s \in Requests : s # r => req'[s] = req[s]
  BY ReturnEffect DEF IInv, Rotate
<1>2. /\ req[r].pc = "rotate" /\ ~Issued(q)
      /\ access' = (access \ ({p} \cap linked)) \cup {q}
      /\ linked' = (linked \ {p}) \cup {q}
      /\ refresh' = (refresh \ {p}) \cup {q}
      /\ doubled' = IF p \in refresh THEN doubled ELSE doubled \cup {c}
      /\ UNCHANGED <<codes, codeAge, halted, revoked>>
  BY DEF Rotate, At
<1>3. p \in Pairs /\ Issued(p) /\ p # q
  BY <1>2, PairHeld DEF PairPcs
<1>4. c \in Codes /\ codeAge[c] # None
  BY <1>3 DEF IInv, TypeOK, OnlyIssued, HoldsIssued, Issued
<1>5. /\ pair' \in [Pairs -> [origin : Codes \cup {None}, age : Ages]]
      /\ pair'[q].origin = c /\ pair'[q].age = 0
      /\ \A k \in Pairs : k # q => pair'[k] = pair[k]
  BY <1>4, FreshEffect DEF IInv, Rotate
<1>6. /\ q \notin access \cup refresh \cup linked \cup halted \cup revoked
      /\ \A s \in Requests : req[s].pair # q
  BY <1>2, RequestTyped, TokenAssumption DEF IInv, OnlyIssued, HoldsIssued
<1> HIDE DEF p, c
<1>7. TypeOK'
  BY <1>1, <1>2, <1>4, <1>5 DEF IInv, TypeOK
<1>8. OnlyIssued'
  <2>1. \A k \in access' \cup refresh' \cup linked' \cup halted' \cup revoked' : Issued(k)'
    BY <1>2, <1>4, <1>5, TokenAssumption DEF IInv, TypeOK, OnlyIssued, HoldsIssued, Issued
  <2>2. ASSUME NEW s \in Requests PROVE HoldsIssued(s)'
    <3>1. CASE s = r
      BY <1>1, <3>1 DEF HoldsIssued, Idle, CodePcs, PairPcs, RevokePcs
    <3>2. CASE s # r
      BY <1>1, <1>2, <1>5, <1>6, <3>2, RequestTyped
         DEF IInv, OnlyIssued, HoldsIssued, Issued
    <3> QED BY <3>1, <3>2
  <2>3. \A d \in codes' : codeAge'[d] # None
    BY <1>2 DEF IInv, OnlyIssued, HoldsIssued
  <2>4. \A k \in Pairs : Issued(k)' => codeAge'[pair'[k].origin] # None
    BY <1>2, <1>4, <1>5 DEF IInv, OnlyIssued, HoldsIssued, Issued
  <2> QED BY <2>1, <2>2, <2>3, <2>4 DEF OnlyIssued
<1>9. StaysExpired'
  BY <1>1, <1>2, <1>5, <1>6, PairHeld
     DEF IInv, StaysExpired, Idle, At, AccessExpired, RefreshExpired, PairPcs
<1>10. RowsKept'
  BY <1>1, <1>2, <1>6 DEF IInv, RowsKept, Idle, At
<1>11. Progress'
  BY <1>1, <1>2, <1>6 DEF IInv, Progress, ProgressOf, Idle, At
<1>12. OneFamily'
  <2>1. doubled \subseteq doubled'
    BY <1>2
  <2>2. \A d : pair[p].origin # d => c # d
    BY DEF c
  <2>3. \A d \in codes : c # d
    BY <1>3, <2>2 DEF IInv, OneFamily
  <2>4. \A s \in Requests : At(s, "issue") /\ req[s].code \notin doubled => c # req[s].code
    BY <1>3, <2>2 DEF IInv, OneFamily
  <2> QED BY <1>1, <1>2, <1>5, <2>1, <2>3, <2>4 DEF IInv, OneFamily, Idle, At
<1>13. RevokedMeansGone'
  BY <1>1, <1>2, <1>6 DEF IInv, RevokedMeansGone, Revoking, Cutting, Idle
<1>14. AccessHasRefresh'
  BY <1>1, <1>2, <1>5, <1>6
     DEF IInv, TypeOK, AccessHasRefresh, RowsKept, Revoking, Cutting, Idle, At,
         AccessExpired
<1>15. OneLiveRefresh'
  BY <1>2, <1>3, <1>5 DEF IInv, TypeOK, OneLiveRefresh, c
<1> QED BY <1>7, <1>8, <1>9, <1>10, <1>11, <1>12, <1>13, <1>14, <1>15 DEF IInv

(* Clean-up takes expired tokens only, so live pairs keep their rows.      *)
LEMMA RestartStep ==
  ASSUME IInv, Restart
  PROVE  IInv'
<1>1. /\ req' \in [Requests -> Request]
      /\ \A s \in Requests : req'[s] = Idle
  BY DEF Restart, Request, Idle
<1>2. UNCHANGED <<codeAge, pair, revoked, doubled>>
  BY DEF Restart
<1>3. \A p : p \in halted' <=>
             p \in halted \/ \E s \in Requests : req[s].pc \in Cutting /\ p = req[s].pair
  BY DEF Restart, HalfRevoked
<1>4. \A s \in Requests : req[s].pc \in Cutting => req[s].pair \in Pairs /\ Issued(req[s].pair)
  BY PairHeld DEF Cutting, PairPcs, RevokePcs
<1>5. \A p \in Pairs : RefreshExpired(p) => AccessExpired(p)
  BY ExpiredTogether DEF IInv
<1>6. /\ \A c \in codes' : c \in codes
      /\ \A p \in Pairs :
           /\ p \in access' => p \in access /\ ~AccessExpired(p)
           /\ p \in refresh' => p \in refresh
           /\ p \in linked' => p \in linked
           /\ p \in access' /\ p \in linked => p \in linked'
           /\ p \in access' /\ p \in refresh => p \in refresh'
      /\ codes' \subseteq codes /\ access' \subseteq access
      /\ refresh' \subseteq refresh /\ linked' \subseteq linked
  BY <1>5 DEF IInv, TypeOK, Restart, Cleanup
<1>7. TypeOK'
  BY <1>1, <1>2, <1>3, <1>4, <1>6 DEF IInv, TypeOK
<1>8. OnlyIssued'
  BY <1>1, <1>2, <1>3, <1>4, <1>6
     DEF IInv, TypeOK, OnlyIssued, HoldsIssued, Issued, Idle, CodePcs, PairPcs, RevokePcs
<1>9. StaysExpired'
  BY <1>1 DEF StaysExpired, Idle, At
<1>10. RowsKept'
  BY <1>1, <1>3, <1>6 DEF IInv, TypeOK, RowsKept, Idle, At, Cutting
<1>11. Progress'
  BY <1>1 DEF Progress, ProgressOf, Idle
<1>12. OneFamily'
  BY <1>1, <1>2, <1>6 DEF IInv, OneFamily, Idle, At
<1>13. RevokedMeansGone'
  BY <1>2, <1>3, <1>6 DEF IInv, TypeOK, RevokedMeansGone, Revoking
<1>14. AccessHasRefresh'
  BY <1>2, <1>3, <1>6 DEF IInv, TypeOK, AccessHasRefresh, Revoking, AccessExpired
<1>15. OneLiveRefresh'
  BY <1>2, <1>6 DEF IInv, OneLiveRefresh
<1> QED BY <1>7, <1>8, <1>9, <1>10, <1>11, <1>12, <1>13, <1>14, <1>15 DEF IInv

(* What has expired stays so.                                              *)
LEMMA TickStep ==
  ASSUME IInv, Tick
  PROVE  IInv'
<1>1. UNCHANGED <<codes, access, refresh, linked, req, halted, revoked, doubled>>
  BY DEF Tick, tables, history
<1>2. \A a \in Ages : Older(a) \in Ages /\ Older(a) # None
  BY TokenAssumption DEF Ages, Older
<1>3. /\ codeAge' \in [Codes -> Ages \cup {None}]
      /\ \A c \in Codes : codeAge[c] # None => codeAge'[c] # None
  BY <1>2 DEF IInv, TypeOK, Tick
<1>4. /\ pair' \in [Pairs -> [origin : Codes \cup {None}, age : Ages]]
      /\ \A p \in Pairs : /\ pair'[p].origin = pair[p].origin
                           /\ pair'[p].age \in {pair[p].age, Older(pair[p].age)}
  BY <1>2 DEF IInv, TypeOK, Tick
<1>5. \A p \in Pairs : /\ AccessExpired(p) => AccessExpired(p)'
                       /\ RefreshExpired(p) => RefreshExpired(p)'
  <2> SUFFICES ASSUME NEW p \in Pairs
               PROVE  /\ AccessExpired(p) => AccessExpired(p)'
                      /\ RefreshExpired(p) => RefreshExpired(p)'
    OBVIOUS
  <2>1. pair[p].age \in Nat
    BY TokenAssumption DEF IInv, TypeOK, Ages
  <2> QED
    BY <1>4, <2>1, TokenAssumption DEF AccessExpired, RefreshExpired, Older
<1>6. TypeOK'
  BY <1>1, <1>3, <1>4 DEF IInv, TypeOK
<1>7. OnlyIssued'
  BY <1>1, <1>3, <1>4, RequestTyped, TokenAssumption
     DEF IInv, TypeOK, OnlyIssued, HoldsIssued, Issued, CodePcs
<1>8. StaysExpired'
  BY <1>1, <1>5, PairHeld DEF IInv, StaysExpired, At, PairPcs
<1>9. RowsKept' /\ Progress'
  BY <1>1 DEF IInv, RowsKept, Progress, ProgressOf, At
<1>10. OneFamily' /\ OneLiveRefresh'
  BY <1>1, <1>4 DEF IInv, TypeOK, OneFamily, OneLiveRefresh, At
<1>11. RevokedMeansGone'
  BY <1>1 DEF IInv, RevokedMeansGone, Revoking
<1>12. AccessHasRefresh'
  BY <1>1, <1>5 DEF IInv, TypeOK, AccessHasRefresh, Revoking
<1> QED BY <1>6, <1>7, <1>8, <1>9, <1>10, <1>11, <1>12 DEF IInv

(* Every step keeps the inductive invariant.                               *)
LEMMA NextStep ==
  ASSUME IInv, [Next]_vars
  PROVE  IInv'
<1>1. CASE UNCHANGED vars
  BY <1>1
     DEF vars, IInv, TypeOK, OnlyIssued, HoldsIssued, StaysExpired, RowsKept, Progress,
         ProgressOf, OneFamily, RevokedMeansGone, AccessHasRefresh, OneLiveRefresh,
         Revoking, At, Issued, AccessExpired, RefreshExpired
<1>2. ASSUME NEW c \in Codes, Login(c) PROVE IInv'
  BY <1>2, LoginStep
<1>3. ASSUME NEW r \in Requests, Redemption(r) PROVE IInv'
  BY <1>3, LoadCodeStep, DropCodeStep, RedeemCodeStep, IssuePairStep DEF Redemption
<1>4. ASSUME NEW r \in Requests, Rotation(r) PROVE IInv'
  BY <1>4, LoadRefreshStep, RotateStep, DropExpiredRefreshStep DEF Rotation
<1>5. ASSUME NEW r \in Requests, Revocation(r) PROVE IInv'
  BY <1>5, LoadTokenStep, DropExpiredAccessStep, FindPairedStep, RevokeAccessStep,
     RevokeRefreshStep, UnlinkStep, DropPairedStep DEF Revocation
<1>6. ASSUME NEW r \in Requests, Abort(r) PROVE IInv'
  BY <1>6, AbortStep
<1>7. CASE Restart
  BY <1>7, RestartStep
<1>8. CASE Tick
  BY <1>8, TickStep
<1> QED BY <1>1, <1>2, <1>3, <1>4, <1>5, <1>6, <1>7, <1>8 DEF Next

---------------------------------------------------------------------------
(* Theorems                                                                *)

(* The inductive invariant holds in every reachable state: rows, requests  *)
(* and histories stay consistent whatever interleaves, fails or restarts.  *)
THEOREM TokensInvariant == Spec => []IInv
BY InitIInv, NextStep, PTL DEF Spec

(* Every variable of the token server keeps its type.                      *)
THEOREM TokensTypeCorrect == Spec => []TypeOK
BY TokensInvariant, PTL DEF IInv

(* revoke_token leaves neither token of the pair when it returns, unless   *)
(* another revocation still has the pair's row to follow.                  *)
THEOREM RevocationIsComplete == Spec => []RevokedMeansGone
BY TokensInvariant, PTL DEF IInv

(* A token that load_access_token accepts has its refresh token, but for   *)
(* revocations under way or stopped half-way.                              *)
THEOREM AccessStaysPaired == Spec => []AccessHasRefresh
BY TokensInvariant, PTL DEF IInv

(* rotate_refresh_token hands on the one refresh token of a login, unless  *)
(* a code or token was used by two requests that had both loaded it.       *)
THEOREM RotationKeepsOne == Spec => []OneLiveRefresh
BY TokensInvariant, PTL DEF IInv

(* A step deletes an unexpired token only on behalf of a user of its pair. *)
LEMMA OnlyUsersDelete ==
  ASSUME IInv, [Next]_vars, NEW p \in Pairs, LostUsable(p)
  PROVE  Using(p)
<1>1. CASE UNCHANGED <<access, refresh>>
  BY <1>1 DEF LostUsable
<1>2. ASSUME NEW r \in Requests, NEW q \in Pairs, Rotate(r, q)
      PROVE  Using(p)
  BY <1>2 DEF Rotate, Using, LostUsable, At
<1>3. ASSUME NEW r \in Requests, RevokeAccess(r) \/ RevokeRefresh(r) \/ DropPaired(r)
      PROVE  Using(p)
  BY <1>3 DEF RevokeAccess, RevokeRefresh, DropPaired, Using, LostUsable, At, Cutting
<1>4. ASSUME NEW r \in Requests, DropExpiredAccess(r) \/ DropExpiredRefresh(r)
      PROVE  FALSE
  BY <1>4 DEF IInv, StaysExpired, DropExpiredAccess, DropExpiredRefresh, LostUsable, At
<1>5. ASSUME Restart PROVE FALSE
  <2>1. RefreshExpired(p) => AccessExpired(p)
    BY ExpiredTogether DEF IInv
  <2> QED BY <1>5, <2>1 DEF Restart, Cleanup, LostUsable
<1>6. ASSUME NEW r \in Requests, NEW q \in Pairs, IssuePair(r, q)
      PROVE  FALSE
  BY <1>6 DEF IssuePair, LostUsable
<1>7. \/ UNCHANGED <<access, refresh>>
      \/ Restart
      \/ \E r \in Requests :
           \/ \E q \in Pairs : IssuePair(r, q) \/ Rotate(r, q)
           \/ DropExpiredAccess(r) \/ DropExpiredRefresh(r)
           \/ RevokeAccess(r) \/ RevokeRefresh(r) \/ DropPaired(r)
  <2>1. CASE UNCHANGED vars
    BY <2>1 DEF vars
  <2>2. ASSUME NEW c \in Codes, Login(c) PROVE UNCHANGED <<access, refresh>>
    BY <2>2 DEF Login
  <2>3. ASSUME NEW r \in Requests,
               \/ \E c \in Codes, b \in BOOLEAN : LoadCode(r, c, b)
               \/ DropCode(r) \/ RedeemCode(r)
        PROVE  UNCHANGED <<access, refresh>>
    BY <2>3 DEF LoadCode, DropCode, RedeemCode, tables
  <2>4. ASSUME NEW r \in Requests,
               \/ \E q \in Pairs : LoadRefresh(r, q) \/ LoadToken(r, q)
               \/ FindPaired(r) \/ Unlink(r) \/ Abort(r)
        PROVE  UNCHANGED <<access, refresh>>
    BY <2>4 DEF LoadRefresh, LoadToken, FindPaired, Unlink, Abort, tables
  <2>5. CASE Tick
    BY <2>5 DEF Tick, tables
  <2> QED
    BY <2>1, <2>2, <2>3, <2>4, <2>5 DEF Next, Redemption, Rotation, Revocation
<1> QED BY <1>1, <1>2, <1>3, <1>4, <1>5, <1>6, <1>7

(* Neither cleanup_expired nor a loader deletes a token that would still   *)
(* be accepted: only a rotation or a revocation of its pair does.          *)
THEOREM TokensLastTheirTime == Spec => UsableTokensKept
<1>1. ASSUME IInv, [Next]_vars
      PROVE  [\A p \in Pairs : LostUsable(p) => Using(p)]_vars
  BY <1>1, OnlyUsersDelete
<1> QED BY <1>1, TokensInvariant, PTL DEF Spec, UsableTokensKept
=============================================================================
