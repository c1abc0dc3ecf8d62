------------------------------- MODULE Identity -------------------------------
(***************************************************************************)
(* People and their access: OIDC login and sessions, SCIM provisioning of  *)
(* users and groups, API keys, role bindings and access policy rules       *)
(* (internal/app/enterprise_identity.go, auth.go and                       *)
(* internal/adapters/postgres/enterprise_identity.go, store.go), for one   *)
(* tenant, one identity provider and one user.  A login is three steps,    *)
(* the callback, the read of the membership and the commit of the session, *)
(* and everything that ends sessions interleaves with them.                *)
(***************************************************************************)
EXTENDS ControlPlane

CONSTANTS MaxLogins, MaxBindings, MaxRules     \* bounds on the rows

VARIABLES
  idp,        \* "none" or the provider's state
  login,      \* sequence of login states: "open", "expired" or "consumed"
  member,     \* "none" or the state of the user's membership
  scimUser,   \* "none" or the state SCIM holds of the user
  asess,      \* sequence of sessions [login, state]
  apikey,     \* "none" or the state of the user's API key
  idtx,       \* session -> its request in progress
  ended,      \* sessions that a logout, disable or deactivation met (history)
  scimToken,  \* "none" or the state of the SCIM bearer token
  group,      \* [state, member]: a SCIM group, and whether the user is in it
  binding,    \* sequence of [of, role, state], oldest first
  rule        \* sequence of [action, effect, state], oldest first, of those
              \* whose resource family and environment match the request

sessionVars == <<idp, login, member, scimUser, asess, apikey, ended>>
accessVars == <<scimToken, group, binding, rule>>
identityVars == <<sessionVars, accessVars, idtx>>

(* An update writes whatever state is given; for bindings and rules, which *)
(* are only asked whether they are active, "disabled" stands for any other. *)
AnyState == ActiveOrDisabled \cup {"other"}

IdentityTypeOK ==
  /\ idp \in AnyState \cup {"none"}
  /\ {member, scimUser} \subseteq ActiveOrDisabled \cup {"none"}
  /\ login \in Seq({"open", "expired", "consumed"})
  /\ asess \in Seq([login : DOMAIN login, state : {"active", "expired", "revoked"}])
  /\ {apikey, scimToken} \subseteq {"none", "active", "revoked"}
  /\ ended \subseteq DOMAIN asess
  /\ group \in [state : ActiveOrDisabled \cup {"none"}, member : BOOLEAN]
  /\ binding \in Seq([of : {"user", "group"}, role : Roles, state : ActiveOrDisabled])
  /\ rule \in Seq([action : AllScopes \cup {"*"}, effect : {"allow", "deny"}, state : ActiveOrDisabled])
  /\ \A s \in Sessions :
       idtx[s].at \in {"idle", "provider", "patch", "callback", "login", "binding", "rule"}

IdentityInit ==
  /\ idp = "none" /\ login = <<>> /\ member = "none" /\ scimUser = "none"
  /\ asess = <<>> /\ apikey = "none" /\ ended = {}
  /\ scimToken \in {"none", "active"} /\ group = [state |-> "none", member |-> FALSE]
  /\ binding = <<>> /\ rule = <<>>
  /\ idtx = [s \in Sessions |-> Idle]

Given(new, old) == IF new = "" THEN old ELSE new

Step(s, t) == idtx' = [idtx EXCEPT ![s] = t]

ActiveSessions == {i \in DOMAIN asess : asess[i].state = "active"}

EndSessions(S) ==
  /\ asess' = [i \in DOMAIN asess |-> IF i \in S THEN [asess[i] EXCEPT !.state = "revoked"] ELSE asess[i]]
  /\ ended' = ended \cup S

-----------------------------------------------------------------------------
(* Identity providers. *)

ValidateIdentityProviderRequest(q) == q.type \in {"", "oidc"} /\ q.fields /\ q.urls

CreateIdentityProviderRequests ==
  {q \in [type : {"", "oidc", "saml"}, fields : BOOLEAN, urls : BOOLEAN] :
     Allowed("security:write") /\ ValidateIdentityProviderRequest(q)}

UpdateIdentityProviderRequests ==
  {q \in [state : AnyState \cup {""}, reason : BOOLEAN] : Allowed("security:write") /\ q.reason}

DisableIdentityProviderRequests == {q \in StateChanges : Allowed("security:write") /\ q.reason}

CreateIdentityProvider ==
  /\ idp = "none" /\ CreateIdentityProviderRequests # {}
  /\ idp' = "active"
  /\ UNCHANGED <<login, member, scimUser, asess, apikey, ended, accessVars, idtx>>

(* The row is read without a lock; the whole row is written back.  Disable *)
(* is an update to "disabled".                                             *)
UpdateIdentityProvider(s) ==
  /\ idtx[s] = Idle /\ idp # "none"
  /\ \E st \in {q.state : q \in UpdateIdentityProviderRequests \cup DisableIdentityProviderRequests} :
       Step(s, [at |-> "provider", state |-> Given(st, idp)])
  /\ UNCHANGED <<sessionVars, accessVars>>

WriteIdentityProvider_KeepsSessions(s) ==
  /\ idtx[s].at = "provider"
  /\ idp' = idtx[s].state
  /\ Step(s, Idle)
  /\ ended' = IF idp' = "disabled" THEN ended \cup ActiveSessions ELSE ended
  /\ UNCHANGED <<login, member, scimUser, apikey, accessVars, asess>>

WriteIdentityProvider(s) ==
  /\ idtx[s].at = "provider"
  /\ idp' = idtx[s].state
  /\ IF idp' = "disabled" THEN EndSessions(ActiveSessions) ELSE UNCHANGED <<asess, ended>>
  /\ Step(s, Idle)
  /\ UNCHANGED <<login, member, scimUser, apikey, accessVars>>

-----------------------------------------------------------------------------
(* Login. *)

(* A provider is usable when discovery works or both endpoints are given. *)
OidcProviderEndpoint(discovery, endpointsGiven) == discovery \/ endpointsGiven

OidcVerifier(discovery, jwksGiven) == discovery \/ jwksGiven

EmailDomainAllowed(domain, allowed) == allowed = {} \/ domain \in allowed

BeginOIDCLogin ==
  /\ idp = "active" /\ Len(login) < MaxLogins
  /\ \E discovery, endpoints \in BOOLEAN : OidcProviderEndpoint(discovery, endpoints)
  /\ login' = Append(login, "open")
  /\ UNCHANGED <<idp, member, scimUser, asess, apikey, ended, accessVars, idtx>>

LoginExpires ==
  /\ \E l \in DOMAIN login : login[l] = "open" /\ login' = [login EXCEPT ![l] = "expired"]
  /\ UNCHANGED <<idp, member, scimUser, asess, apikey, ended, accessVars, idtx>>

(* A callback whose exchange, token, nonce and email domain are in order. *)
CallbackAccepted(c) ==
  /\ c.exchanged /\ OidcProviderEndpoint(c.discovery, c.endpoints) /\ OidcVerifier(c.discovery, c.jwks)
  /\ c.tokenVerified /\ c.nonceMatches /\ EmailDomainAllowed(c.domain, c.allowedDomains)

AcceptedCallbacks ==
  {c \in [exchanged : BOOLEAN, discovery : BOOLEAN, endpoints : BOOLEAN, jwks : BOOLEAN,
          tokenVerified : BOOLEAN, nonceMatches : BOOLEAN,
          domain : {"corp", "other"}, allowedDomains : {{}, {"corp"}}] : CallbackAccepted(c)}

(* ConsumeOIDCLoginState locks the row, refuses a consumed one and marks   *)
(* it; the expiry is looked at afterwards, the provider's state not again. *)
ConsumeOIDCLoginState(s) ==
  /\ idtx[s] = Idle
  /\ \E l \in DOMAIN login :
       /\ login[l] # "consumed"
       /\ login' = [login EXCEPT ![l] = "consumed"]
       /\ Step(s, IF login[l] = "open" /\ AcceptedCallbacks # {} THEN [at |-> "callback", login |-> l] ELSE Idle)
  /\ UNCHANGED <<idp, member, scimUser, asess, apikey, ended, accessVars>>

(* upsertOIDCIdentityTx: a disabled membership is refused. *)
UpsertOIDCIdentity(s) ==
  /\ idtx[s].at = "callback"
  /\ Step(s, IF member = "disabled" THEN Idle ELSE [at |-> "login", login |-> idtx[s].login, new |-> member = "none"])
  /\ UNCHANGED <<sessionVars, accessVars>>

(* The membership's unique key fails the second of two first logins. *)
CreateOIDCSession(s) ==
  /\ idtx[s].at = "login"
  /\ idtx[s].new => member = "none"
  /\ member' = IF idtx[s].new THEN "active" ELSE member
  /\ asess' = Append(asess, [login |-> idtx[s].login, state |-> "active"])
  /\ Step(s, Idle)
  /\ UNCHANGED <<idp, login, scimUser, apikey, ended, accessVars>>

LoginFails(s) ==
  /\ idtx[s] # Idle /\ Step(s, Idle)
  /\ UNCHANGED <<sessionVars, accessVars>>

(* The sessions AuthenticateSession accepts. *)
AuthenticateSession ==
  IF member = "active" /\ idp = "active" THEN ActiveSessions ELSE {}

SessionExpires ==
  /\ \E i \in ActiveSessions : asess' = [asess EXCEPT ![i].state = "expired"]
  /\ UNCHANGED <<idp, login, member, scimUser, apikey, ended, accessVars, idtx>>

LogoutSession ==
  /\ \E i \in AuthenticateSession : EndSessions({i})
  /\ UNCHANGED <<idp, login, member, scimUser, apikey, accessVars, idtx>>

RevokeAuthSessionByIDRequests == {q \in [reason : BOOLEAN] : Allowed("security:write") /\ q.reason}

RevokeAuthSessionByID ==
  /\ RevokeAuthSessionByIDRequests # {}
  /\ \E i \in ActiveSessions : EndSessions({i})
  /\ UNCHANGED <<idp, login, member, scimUser, apikey, accessVars, idtx>>

-----------------------------------------------------------------------------
(* API keys: creating one writes the membership of its user as active. *)

CreateAPIKeyRequests ==
  {q \in [name : BOOLEAN, role : Roles \cup {"other"}, scopes : BOOLEAN] :
     Allowed("api_keys:write") /\ q.name /\ q.role \in Roles /\ q.scopes}

RevokeAPIKeyRequests == {q \in [reason : BOOLEAN] : Allowed("api_keys:write") /\ q.reason}

CreateAPIKey ==
  /\ apikey = "none" /\ CreateAPIKeyRequests # {}
  /\ apikey' = "active" /\ member' = "active"
  /\ UNCHANGED <<idp, login, scimUser, asess, ended, accessVars, idtx>>

RevokeAPIKey ==
  /\ apikey = "active" /\ RevokeAPIKeyRequests # {}
  /\ apikey' = "revoked"
  /\ UNCHANGED <<idp, login, member, scimUser, asess, ended, accessVars, idtx>>

-----------------------------------------------------------------------------
(* SCIM: every operation carries the tenant's bearer token. *)

CreateSCIMTokenRequests == {q \in [name : BOOLEAN] : Allowed("security:write") /\ q.name}

RevokeSCIMTokenRequests == {q \in [reason : BOOLEAN] : Allowed("security:write") /\ q.reason}

AuthenticateSCIMToken == scimToken = "active"

CreateSCIMToken ==
  /\ scimToken = "none" /\ CreateSCIMTokenRequests # {} /\ scimToken' = "active"
  /\ UNCHANGED <<sessionVars, group, binding, rule, idtx>>

RevokeSCIMToken ==
  /\ scimToken = "active" /\ RevokeSCIMTokenRequests # {} /\ scimToken' = "revoked"
  /\ UNCHANGED <<sessionVars, group, binding, rule, idtx>>

ReplaceUser(state) ==
  /\ member' = state /\ scimUser' = state
  /\ IF state = "disabled" THEN EndSessions(ActiveSessions) ELSE UNCHANGED <<asess, ended>>
  /\ UNCHANGED <<idp, login, apikey, accessVars>>

SCIMCreateOrReplaceUser ==
  /\ AuthenticateSCIMToken
  /\ \E state \in ActiveOrDisabled : ReplaceUser(state)
  /\ UNCHANGED idtx

SCIMDeactivateUser ==
  /\ AuthenticateSCIMToken /\ scimUser # "none" /\ ReplaceUser("disabled") /\ UNCHANGED idtx

(* A patch reads the SCIM row; the replace that follows writes it back. *)
SCIMPatchUser(s) ==
  /\ AuthenticateSCIMToken /\ idtx[s] = Idle /\ scimUser # "none"
  /\ \E state \in {scimUser} \cup ActiveOrDisabled : Step(s, [at |-> "patch", state |-> state])
  /\ UNCHANGED <<sessionVars, accessVars>>

WritePatchedUser(s) ==
  idtx[s].at = "patch" /\ ReplaceUser(idtx[s].state) /\ Step(s, Idle)

SessionNext ==
  \/ CreateIdentityProvider \/ BeginOIDCLogin \/ LoginExpires \/ SessionExpires
  \/ LogoutSession \/ RevokeAuthSessionByID \/ CreateAPIKey \/ RevokeAPIKey
  \/ SCIMCreateOrReplaceUser \/ SCIMDeactivateUser
  \/ \E s \in Sessions :
       \/ UpdateIdentityProvider(s) \/ WriteIdentityProvider(s)
       \/ ConsumeOIDCLoginState(s) \/ UpsertOIDCIdentity(s) \/ CreateOIDCSession(s) \/ LoginFails(s)
       \/ SCIMPatchUser(s) \/ WritePatchedUser(s)

-----------------------------------------------------------------------------
(* Groups, role bindings and access policy rules. *)

SCIMCreateOrReplaceGroup ==
  /\ AuthenticateSCIMToken
  /\ \E replace, in \in BOOLEAN :
       group' = [state |-> "active", member |-> in \/ (~replace /\ group.member)]
  /\ UNCHANGED <<sessionVars, scimToken, binding, rule, idtx>>

SCIMPatchGroup ==
  /\ AuthenticateSCIMToken /\ group.state # "none"
  /\ \E in \in BOOLEAN : group' = [state |-> "active", member |-> in]
  /\ UNCHANGED <<sessionVars, scimToken, binding, rule, idtx>>

SCIMDeactivateGroup ==
  /\ AuthenticateSCIMToken /\ group.state # "none"
  /\ group' = [group EXCEPT !.state = "disabled"]
  /\ UNCHANGED <<sessionVars, scimToken, binding, rule, idtx>>

ValidateRoleBinding(q) == q.of \in {"user", "group"} /\ q.principal /\ q.reason

CreateRoleBindingRequests ==
  {q \in [of : {"user", "group", "other"}, principal : BOOLEAN, role : {"support", "developer", "other"}, reason : BOOLEAN] :
     Allowed("security:write") /\ ValidateRoleBinding(q) /\ q.role \in Roles}

UpdateRoleBindingRequests ==
  {q \in [role : {"", "developer"}, state : ActiveOrDisabled \cup {""}, reason : BOOLEAN] :
     Allowed("security:write") /\ q.reason}

NewBindings == {[of |-> q.of, role |-> q.role, state |-> "active"] : q \in CreateRoleBindingRequests}

CreateRoleBinding ==
  /\ Len(binding) < MaxBindings
  /\ \E b \in NewBindings : binding' = Append(binding, b)
  /\ UNCHANGED <<sessionVars, scimToken, group, rule, idtx>>

UpdateRoleBinding(s) ==
  /\ idtx[s] = Idle
  /\ \E i \in DOMAIN binding, q \in UpdateRoleBindingRequests :
       Step(s, [at |-> "binding", row |-> i,
                new |-> [of |-> binding[i].of, role |-> Given(q.role, binding[i].role),
                         state |-> Given(q.state, binding[i].state)]])
  /\ UNCHANGED <<sessionVars, accessVars>>

WriteRoleBinding(s) ==
  /\ idtx[s].at = "binding"
  /\ binding' = [binding EXCEPT ![idtx[s].row] = idtx[s].new]
  /\ Step(s, Idle)
  /\ UNCHANGED <<sessionVars, scimToken, group, rule>>

ValidateAccessPolicy(q) == q.named /\ q.effect \in {"allow", "deny"} /\ q.reason

(* A rule of every resource and environment that denies security:write is refused. *)
WouldDenySecurityWrite(q) == q.effect = "deny" /\ q.action \in {"*", "security:write"}

CreateAccessPolicyRuleRequests ==
  {q \in [named : BOOLEAN, action : {"*", "events:read"}, effect : {"allow", "deny", "other"}, reason : BOOLEAN] :
     Allowed("security:write") /\ ValidateAccessPolicy(q) /\ ~WouldDenySecurityWrite(q)}

NewRules == {[action |-> q.action, effect |-> q.effect, state |-> "active"] : q \in CreateAccessPolicyRuleRequests}

(* The refusal looks at the fields the update gives, not at the row. *)
UpdateAccessPolicyRuleRequests ==
  {q \in [action : {"", "*", "events:read"}, effect : {"", "allow", "deny"},
          state : ActiveOrDisabled \cup {""}, reason : BOOLEAN] :
     Allowed("security:write") /\ q.reason /\ ~WouldDenySecurityWrite(q)}

CreateAccessPolicyRule ==
  /\ Len(rule) < MaxRules
  /\ \E r \in NewRules : rule' = Append(rule, r)
  /\ UNCHANGED <<sessionVars, scimToken, group, binding, idtx>>

UpdateAccessPolicyRule(s) ==
  /\ idtx[s] = Idle
  /\ \E i \in DOMAIN rule, q \in UpdateAccessPolicyRuleRequests :
       Step(s, [at |-> "rule", row |-> i,
                new |-> [action |-> Given(q.action, rule[i].action), effect |-> Given(q.effect, rule[i].effect),
                         state |-> Given(q.state, rule[i].state)]])
  /\ UNCHANGED <<sessionVars, accessVars>>

WriteAccessPolicyRule(s) ==
  /\ idtx[s].at = "rule"
  /\ rule' = [rule EXCEPT ![idtx[s].row] = idtx[s].new]
  /\ Step(s, Idle)
  /\ UNCHANGED <<sessionVars, scimToken, group, binding>>

AccessNext ==
  \/ CreateSCIMToken \/ RevokeSCIMToken
  \/ SCIMCreateOrReplaceGroup \/ SCIMPatchGroup \/ SCIMDeactivateGroup
  \/ CreateRoleBinding
  \/ \E s \in Sessions : UpdateRoleBinding(s) \/ WriteRoleBinding(s)

RuleNext ==
  \/ CreateAccessPolicyRule
  \/ \E s \in Sessions : UpdateAccessPolicyRule(s) \/ WriteAccessPolicyRule(s)

IdentityNext == SessionNext \/ AccessNext \/ RuleNext

IdentitySpec == IdentityInit /\ [][IdentityNext]_identityVars

-----------------------------------------------------------------------------
(* The role of the newest active binding of the user, or of their group;   *)
(* a group grants what its bindings do whatever its own state.             *)
NewestBinding(of) ==
  LET matching == {i \in DOMAIN binding : /\ binding[i].of = of /\ binding[i].state = "active"
                                          /\ of = "group" => group.member}
  IN IF matching = {} THEN "none" ELSE binding[Max(matching)].role

MatchingRules(scope) == {i \in DOMAIN rule : rule[i].state = "active" /\ rule[i].action \in {scope, "*"}}

MatchedEffect(scope) ==
  IF MatchingRules(scope) = {} THEN "none"
  ELSE IF \E i \in MatchingRules(scope) : rule[i].effect = "deny" THEN "deny" ELSE "allow"

(* The decision on a request of the user with that role and those scopes. *)
ExplainAuthorization(actor, scope) ==
  Decide(actor, scope, actor.role, NewestBinding("user"), NewestBinding("group"), MatchedEffect(scope))

(* What was withdrawn stays withdrawn.  A login state opens at most one    *)
(* session, however many callbacks carry it at once.  A session that a     *)
(* logout, the disabling of its provider or a SCIM deactivation found      *)
(* active never authenticates again, also after the provider is enabled    *)
(* (or a stale update writes it back enabled), the user is provisioned     *)
(* again, or an API key makes the membership active.  A deny rule decides  *)
(* every request it matches, whatever allow rule was created after it and  *)
(* whatever role the user has.                                             *)
WithdrawnStaysWithdrawn ==
  /\ \A i, j \in DOMAIN asess : asess[i].login = asess[j].login => i = j
  /\ ended \cap AuthenticateSession = {}
  /\ \A i \in DOMAIN rule, a \in Actors :
       rule[i].state = "active" /\ rule[i].effect = "deny" =>
         \A scope \in AllScopes :
           rule[i].action \in {scope, "*"} => ~ExplainAuthorization(a, scope)
=============================================================================
