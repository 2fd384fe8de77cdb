---------------------------- MODULE DeployShapes ----------------------------
(***************************************************************************)
(* From the environment to an authenticated request: the settings that are *)
(* accepted (config.py), the boot of several replicas that share one users *)
(* table (bootstrap/, users/bootstrap.py, main.py), the strategies each of *)
(* them builds (auth/strategies.py, oauth/router.py) and what their chain  *)
(* answers (middleware/auth.py, api/v1/auth.py, auth/scope.py).            *)
(***************************************************************************)
EXTENDS Integers, Sequences

CONSTANTS
  Replicas,  \* server processes started with the same environment
  UserIds,   \* ids the database can give to a user row
  Nobody     \* the operator is unbound

ASSUME DeployAssumption == Nobody \notin UserIds

Subject == "subject"  \* the user whom a Hydra token or a gateway envelope names

VARIABLES
  settings,  \* what the environment says
  booting,   \* the step of each replica's lifespan
  bound,     \* the operator id that each replica has resolved
  users,     \* the active user rows with the operator's address
  deleted    \* those that were soft-deleted

deployVars == <<settings, booting, bound, users, deleted>>

---------------------------------------------------------------------------
(* Settings.  A flag says that a variable is set; "signed" is              *)
(* gateway_require_signature, "secret" a secret that decodes to 32 bytes,  *)
(* "public" a bind address that is routable.                               *)
Flags == {"hydra", "issuer", "public_url", "password", "api_key", "operator_email",
          "trust_gateway", "signed", "secret", "deployed", "public"}

On(flag) == flag \in settings

DeployShape ==
  /\ ~(On("hydra") /\ On("password"))
  /\ On("issuer") = On("hydra")
  /\ On("public_url") = On("hydra")
  /\ On("operator_email") = ~On("hydra")
  /\ On("hydra") \/ On("api_key")

GatewaySignature == On("trust_gateway") /\ On("deployed") => On("signed")

BindAddress == ~(On("trust_gateway") /\ On("public"))

EffectiveApiKey == On("api_key") /\ ~On("hydra")

---------------------------------------------------------------------------
(* The strategies of a deployment, and what each makes of a request: it    *)
(* accepts as somebody, defers to the next one, or rejects.                *)
Strategies ==
  IF On("trust_gateway")
    THEN <<"trust_gateway">>
    ELSE (IF EffectiveApiKey THEN <<"api_key">> ELSE <<>>)
           \o (IF On("hydra") THEN <<"hydra">> ELSE <<>>)
           \o (IF On("password") /\ ~On("hydra") THEN <<"selfhost">> ELSE <<>>)

BearerTokens == {"none", "key", "ory_live", "ory_dead", "ory_unreachable", "grant", "other"}
Envelopes == {"none", "bad_user", "unsigned", "signed", "missigned", "old_contract"}
Callers == [bearer : BearerTokens, envelope : Envelopes]

Accept(who) == [verdict |-> "accept", who |-> who]
Defer == [verdict |-> "defer", who |-> Nobody]
Reject == [verdict |-> "reject", who |-> Nobody]

AsOperator(r) == IF bound[r] = Nobody THEN Reject ELSE Accept(bound[r])

TrustGateway(r, q) ==
  IF \/ q.envelope = "signed" /\ On("secret")
     \/ q.envelope = "unsigned" /\ ~On("signed")
    THEN Accept(Subject) ELSE Reject

\* Mutant: a token that is not the key is rejected instead of passed on.
ApiKeyStrict(r, q) == IF q.bearer = "key" THEN AsOperator(r) ELSE Reject
ApiKey(r, q) ==
  CASE q.bearer = "none" -> Reject
    [] q.bearer = "key"  -> AsOperator(r)
    [] OTHER             -> Defer

Hydra(r, q) ==
  CASE q.bearer = "ory_live" -> Accept(Subject)
    [] q.bearer \in {"none", "ory_dead", "ory_unreachable"} -> Reject
    [] OTHER -> Defer

SelfHost(r, q) ==
  CASE q.bearer = "none"  -> Reject
    [] q.bearer = "grant" -> AsOperator(r)
    [] OTHER              -> Defer

Verdict(strategy, r, q) ==
  CASE strategy = "trust_gateway" -> TrustGateway(r, q)
    [] strategy = "api_key"       -> ApiKey(r, q)
    [] strategy = "hydra"         -> Hydra(r, q)
    [] strategy = "selfhost"      -> SelfHost(r, q)

\* The first strategy that does not defer decides; nobody accepting is a 401.
AnswerCall(r, q) ==
  LET deciding == {i \in DOMAIN Strategies : Verdict(Strategies[i], r, q) # Defer}
  IN IF deciding = {}
       THEN Reject
       ELSE Verdict(Strategies[CHOOSE i \in deciding : \A j \in deciding : i <= j], r, q)

---------------------------------------------------------------------------
(* Scopes.                                                                 *)
Permissions == {"journal:read", "journal:write"}
Scopes == Permissions \cup {"journal", "openid"}
Grants(scope) ==
  CASE scope = "journal"     -> Permissions
    [] scope \in Permissions -> {scope}
    [] OTHER                 -> {}

\* An envelope without scopes stands for the default ones.
Carried(scopes) == IF On("trust_gateway") /\ scopes = {} THEN Permissions ELSE scopes

CheckScope(held, required) ==
  \/ required \in held
  \/ required \in Permissions /\ \E scope \in held : required \in Grants(scope)

HasScope(held, required) ==
  CheckScope(held, required) \/ (Grants(required) # {} /\ Grants(required) \subseteq held)

\* The permissions whose tools tools/list shows to a token.
VisibleTools(held) == {permission \in Permissions : \E scope \in held : permission \in Grants(scope)}

---------------------------------------------------------------------------
(* Boot.                                                                   *)
Steps == {"down", "scaffold", "verify", "resolve", "wire", "up"}

DeployTypeOK ==
  /\ settings \in SUBSET Flags
  /\ booting \in [Replicas -> Steps]
  /\ bound \in [Replicas -> UserIds \cup {Nobody}]
  /\ users \in SUBSET UserIds /\ deleted \in SUBSET UserIds /\ users \cap deleted = {}

DeployInit ==
  /\ settings \in SUBSET Flags
  /\ booting = [r \in Replicas |-> "down"]
  /\ bound = [r \in Replicas |-> Nobody]
  /\ users = {} /\ deleted = {}

Reach(r, place) == booting' = [booting EXCEPT ![r] = place]

\* get_settings validates; the bind address is probed before any resource.
Start(r) ==
  /\ booting[r] = "down"
  /\ DeployShape /\ GatewaySignature /\ BindAddress
  /\ Reach(r, IF On("hydra") THEN "resolve" ELSE "scaffold")
  /\ bound' = [bound EXCEPT ![r] = Nobody]
  /\ UNCHANGED <<settings, users, deleted>>

\* INSERT .. ON CONFLICT (email) WHERE deleted_at IS NULL DO NOTHING.
\* Mutant: without the conflict clause and its index.
ScaffoldAlways(r) ==
  /\ booting[r] = "scaffold"
  /\ \E id \in UserIds \ (users \cup deleted) : users' = users \cup {id}
  /\ Reach(r, "verify")
  /\ UNCHANGED <<settings, bound, deleted>>
\* Mutant: the row of a deleted operator is taken again.
ScaffoldRevives(r) ==
  /\ booting[r] = "scaffold"
  /\ \E id \in UserIds : users' = users \cup {id}
  /\ Reach(r, "verify")
  /\ UNCHANGED <<settings, bound, deleted>>
Scaffold(r) ==
  /\ booting[r] = "scaffold"
  /\ \/ users # {} /\ users' = users
     \/ users = {} /\ \E id \in UserIds \ deleted : users' = {id}
  /\ Reach(r, "verify")
  /\ UNCHANGED <<settings, bound, deleted>>

Verify(r) ==
  /\ booting[r] = "verify"
  /\ Reach(r, IF users = {} THEN "down" ELSE "resolve")
  /\ UNCHANGED <<settings, bound, users, deleted>>

\* The look-up only warns when the row is deleted by now.
ResolveOperator(r) ==
  /\ booting[r] = "resolve"
  /\ \/ On("operator_email") /\ \E id \in users : bound' = [bound EXCEPT ![r] = id]
     \/ ~(On("operator_email") /\ users # {}) /\ bound' = bound
  /\ Reach(r, "wire")
  /\ UNCHANGED <<settings, users, deleted>>

Wire(r) ==
  /\ booting[r] = "wire"
  /\ Reach(r, IF On("trust_gateway") /\ EffectiveApiKey THEN "down" ELSE "up")
  /\ UNCHANGED <<settings, bound, users, deleted>>

\* A failed step, a failed probe, a stop or a crash.
GoDown(r) ==
  /\ booting[r] # "down"
  /\ Reach(r, "down")
  /\ UNCHANGED <<settings, bound, users, deleted>>

\* Nothing in the repository deletes a user; its owner may.
RemoveOperator ==
  /\ users # {}
  /\ users' = {} /\ deleted' = deleted \cup users
  /\ UNCHANGED <<settings, booting, bound>>

DeployNext ==
  \/ \E r \in Replicas :
       Start(r) \/ Scaffold(r) \/ Verify(r) \/ ResolveOperator(r) \/ Wire(r) \/ GoDown(r)
  \/ RemoveOperator

DeploySpec == DeployInit /\ [][DeployNext]_deployVars

---------------------------------------------------------------------------
Up(r) == booting[r] = "up"

(* As long as no operator row is deleted, every replica of a single-owner  *)
(* deployment is bound to the same operator row (users/bootstrap.py:101,   *)
(* main.py:139): none comes up unbound, and no two write to two journals.  *)
OperatorAgreed ==
  deleted = {} /\ ~On("hydra") =>
    \A r, s \in Replicas : Up(r) /\ Up(s) => bound[r] \in users /\ bound[r] = bound[s]

(* In every deployment that comes up, the order of the strategies does not *)
(* matter (what one accepts, no earlier one rejects), a caller becomes the *)
(* user its shape provides (auth/strategies.py), and a deployed gateway    *)
(* server takes nothing but signed envelopes (config.py:526).              *)
ChainFitsShape ==
  \A r \in Replicas : Up(r) => \A q \in Callers :
    /\ \A i \in DOMAIN Strategies :
         LET alone == Verdict(Strategies[i], r, q)
         IN alone.verdict = "accept" => AnswerCall(r, q) = alone
    /\ AnswerCall(r, q).verdict = "accept" =>
         /\ AnswerCall(r, q).who = IF On("hydra") THEN Subject ELSE bound[r]
         /\ On("trust_gateway") /\ On("deployed") => q.envelope = "signed"

(* A token that passes the gate of the MCP endpoint passes the check of    *)
(* every tool behind it (auth/scope.py:188); the REST gate, the tools'     *)
(* check and the list of tools agree on each permission                    *)
(* (api/v1/auth.py:25, tools/registry.py:92).                              *)
GateCoversTools ==
  \A r \in Replicas : Up(r) =>
    \A scopes \in SUBSET Scopes : \A permission \in Permissions :
      LET held == Carried(scopes)
      IN /\ HasScope(held, "journal") => CheckScope(held, permission)
         /\ HasScope(held, permission) = CheckScope(held, permission)
         /\ permission \in VisibleTools(held) <=> CheckScope(held, permission)

(* Who a caller becomes and what it may then do follow from the shape of   *)
(* the deployment alone, at whichever endpoint it calls.                   *)
AnswersFitShape == ChainFitsShape /\ GateCoversTools
=============================================================================
