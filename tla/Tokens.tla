------------------------------- MODULE Tokens -------------------------------
(* What an access token says and who gets past which gate with it: the claims that a
   sign-in, a hook's answer (hooks/claims.go) and an API key grant put into a token, how
   Sign and Verify (auth/jwt.go) write and read them, and the routes that look at them
   (API keys, users, the own account, /validate). Each project has one account here.

   A claims map is a function from claim names to values; a name that is absent reads
   as None. Role names are Ordinary or Reserved ones (auth/role.go).               *)
EXTENDS Naturals, FiniteSets, TLC

CONSTANTS
  Req, Project, Key, None,
  Legacy,      \* secret keys made by an end user, before only operators made keys
  Ordinary, Reserved,    \* role names an account may hold, and may not
  RoleLists,   \* allowed_roles that are tried, None among them
  Answers,     \* what a custom_access_token hook may answer
  MaxAllowedRoles, MaxCustomClaims, MaxKeyAdminLifetime,
  TTL,         \* JWTService.expSeconds
  MaxFlight,   \* bound: a grant is signed this soon after it was read
  MaxEdits,    \* bound: changes of roles
  MaxTokens,   \* bound: tokens signed
  MaxTime      \* bound: the clock stops there

VARIABLES
  now,
  account,     \* project -> role and allowed_roles (None: NULL) of its account
  dropped,     \* history: project -> role -> when the account last lost it
  edits,       \* changes of roles so far
  keys,        \* key -> None, or its row
  tokens,      \* tokens signed: the claims and, as history, where they come from
  req

vars == <<now, account, dropped, edits, keys, tokens, req>>

Role == Ordinary \cup Reserved

\* Roles a hook may never pick.
ForbiddenRoles == {"service", "anon"}

Idle == [pc |-> "idle", project |-> None, own |-> None, key |-> None, at |-> None, since |-> None]

Become(r, q) == req' = [req EXCEPT ![r] = q]

-----------------------------------------------------------------------------
(* Roles.                                                                  *)

\* Variant: only the role itself is looked at.
NormalizeRoleOnly(role, allowed) ==
  IF role \notin Ordinary THEN None
  ELSE IF allowed = None THEN {role}
  ELSE IF role \in allowed /\ Cardinality(allowed) <= MaxAllowedRoles THEN allowed
  ELSE None

\* NormalizeAllowedRoles and AccountAllowedRoles: the allowed roles, or None for an error.
NormalizeAllowedRoles(role, allowed) ==
  IF role \notin Ordinary THEN None
  ELSE IF allowed = None THEN {role}
  ELSE IF /\ allowed \subseteq Ordinary
          /\ Cardinality(allowed) <= MaxAllowedRoles
          /\ role \in allowed
       THEN allowed
  ELSE None

\* What a token of this account may act as.
AllowedOf(a) == NormalizeAllowedRoles(a.role, a.allowed)

-----------------------------------------------------------------------------
(* Claims.                                                                 *)

Get(c, name) == IF name \in DOMAIN c THEN c[name] ELSE None

\* endUserClaims, as claimsMap shows them: no times yet.
EndUserClaims(p, a) ==
  [userId |-> 1, projectId |-> p, role |-> a.role, allowed_roles |-> AllowedOf(a),
   scope |-> "authenticated", aud |-> <<"excalibase", p>>, token_use |-> "access"]

\* apiKeyClaims: a publishable key signs in as anon, a secret one as service.
ApiKeyClaims(k) ==
  LET role == IF keys[k].type = "secret" THEN "service" ELSE "anon" IN
  [projectId |-> keys[k].project, role |-> role, allowed_roles |-> {role},
   scope |-> IF keys[k].type = "secret" THEN "service" ELSE "public", keyId |-> k,
   aud |-> <<"excalibase", keys[k].project>>, token_use |-> "access"]

\* Variant: the list of names a hook may not add was not extended for auth_time.
TimelessClaims == {"aud", "exp", "iat", "token_use", "scope", "projectId", "userId", "role",
                   "allowed_roles", "keyId", "actor"}

\* reservedClaims, the ones some gate reads.
ReservedClaims == {"aud", "exp", "iat", "token_use", "scope", "projectId", "userId", "role",
                   "allowed_roles", "keyId", "actor", "auth_time"}

\* ApplyAccessClaims: whether an answer to the sent claims is accepted.
Acceptable(sent, answer) ==
  /\ "role" \in DOMAIN answer =>
       answer["role"] \notin ForbiddenRoles /\ answer["role"] \in sent.allowed_roles
  /\ \A n \in (DOMAIN answer \cap DOMAIN sent) \ {"role"} : answer[n] = sent[n]
  /\ \A n \in DOMAIN answer \ (DOMAIN sent \cup {"role"}) : n \notin ReservedClaims
  /\ Cardinality(DOMAIN answer \ DOMAIN sent) <= MaxCustomClaims

\* withAccessHook's result: the role picked, and the claims added.
WithRole(sent, answer) ==
  IF "role" \in DOMAIN answer THEN [sent EXCEPT !.role = answer["role"]] ELSE sent
Custom(sent, answer) == [n \in DOMAIN answer \ DOMAIN sent |-> answer[n]]

\* Sign: the times, then what the hook added and auth did not set itself.
Sign(own, at, custom) ==
  own @@ [iat |-> now, exp |-> now + TTL]
      @@ (IF at = None THEN <<>> ELSE "auth_time" :> at)
      @@ custom

\* Verify: only a token that has not expired is read.
Verifies(c) == now < c.exp

-----------------------------------------------------------------------------
(* Gates. Each is asked about a verified token and the project in the path. *)

ForProject(c, p) == Get(c, "projectId") = p

IsAccess(c) == Get(c, "token_use") \in {None, "access"}

\* isPlatformTokenFor
IsPlatformTokenFor(c, p) ==
  /\ Get(c, "iat") # None /\ c.exp > c.iat /\ c.exp - c.iat <= MaxKeyAdminLifetime
  /\ Get(c, "aud") = <<"excalibase-auth", p>>

\* Variant: any token of the control plane will do.
AnyAdmin(c, p) ==
  \/ IsPlatformTokenFor(c, p)
  \/ IsAccess(c) /\ Get(c, "scope") = "service"

\* canManageAPIKeys
CanManageAPIKeys(c, p) ==
  IF Get(c, "token_use") = "key_admin" THEN IsPlatformTokenFor(c, p)
  ELSE IsAccess(c) /\ Get(c, "scope") = "service"

\* userManagerActor
IsUserManager(c, p) ==
  IF Get(c, "token_use") = "user_admin" THEN IsPlatformTokenFor(c, p) /\ Get(c, "actor") # None
  ELSE /\ IsAccess(c) /\ Get(c, "role") = "service" /\ Get(c, "scope") = "service"
       /\ Get(c, "keyId") # None

\* CreateAPIKey, ListAPIKeys and RevokeAPIKey; requireUserManager; requireEndUser; Validate.
Passes(gate, c, p) ==
  /\ Verifies(c) /\ ForProject(c, p)
  /\ CASE gate = "keys" -> CanManageAPIKeys(c, p)
       [] gate = "users" -> IsUserManager(c, p)
       [] gate = "own" -> IsAccess(c) /\ Get(c, "userId") # None /\ Get(c, "scope") = "authenticated"
       [] gate = "validate" -> IsAccess(c)

-----------------------------------------------------------------------------
(* Signing tokens.                                                         *)

Signed(c, from) ==
  /\ Cardinality(tokens) < MaxTokens
  /\ tokens' = tokens \cup {[claims |-> c, from |-> from]}

\* A sign-in or a refresh has read the account and validated its roles. at is when the
\* session's owner signed in, None for a session older than that column.
ReadAccount(r, p, at) ==
  /\ req[r].pc = "idle" /\ AllowedOf(account[p]) # None
  /\ Become(r, [Idle EXCEPT !.pc = "claims", !.project = p, !.at = at, !.since = now,
                            !.own = EndUserClaims(p, account[p])])
  /\ UNCHANGED <<now, account, dropped, edits, keys, tokens>>

\* accessClaims and signSession; without a hook the answer adds nothing.
SignSession(r, answer) ==
  LET own == req[r].own IN
  /\ req[r].pc = "claims" /\ Acceptable(own, answer)
  /\ Signed(Sign(WithRole(own, answer), req[r].at, Custom(own, answer)),
            [kind |-> "user", project |-> req[r].project, key |-> None, own |-> own, at |-> req[r].at])
  /\ Become(r, Idle)
  /\ UNCHANGED <<now, account, dropped, edits, keys>>

\* The hook's answer is refused, or the hook fails: errHookFailed.
HookFails(r) ==
  /\ req[r].pc = "claims"
  /\ Become(r, Idle)
  /\ UNCHANGED <<now, account, dropped, edits, keys, tokens>>

\* Variant: a revoked key is found as well.
FoundAnyway(k, p) == keys[k] # None /\ keys[k].project = p

\* APIKeyByHash
Found(k, p) == keys[k] # None /\ keys[k].project = p /\ keys[k].revoked = None

\* Variant: whoever made the key.
Usable(k) == TRUE

\* A secret key owned by an end user never yields a service token.
MayGrant(k) == ~(keys[k].type = "secret" /\ keys[k].owned)

\* exchangeAPIKey up to TouchAPIKey.
FindKey(r, p, k) ==
  /\ req[r].pc = "idle" /\ Found(k, p) /\ MayGrant(k)
  /\ Become(r, [Idle EXCEPT !.pc = "key", !.project = p, !.key = k, !.since = now])
  /\ UNCHANGED <<now, account, dropped, edits, keys, tokens>>

\* generateAPIKeyAuthResponse
SignKey(r) ==
  LET k == req[r].key IN
  /\ req[r].pc = "key"
  /\ Signed(Sign(ApiKeyClaims(k), None, <<>>),
            [kind |-> "key", project |-> req[r].project, key |-> k, own |-> None, at |-> None])
  /\ Become(r, Idle)
  /\ UNCHANGED <<now, account, dropped, edits, keys>>

\* The control plane signs a short token with the same key, for this service alone.
PlatformToken(p, use) ==
  /\ Signed([projectId |-> p, token_use |-> use, aud |-> <<"excalibase-auth", p>>,
             iat |-> now, exp |-> now + MaxKeyAdminLifetime]
              @@ (IF use = "user_admin" THEN "actor" :> "operator" ELSE <<>>),
            [kind |-> use, project |-> p, key |-> None, own |-> None, at |-> None])
  /\ UNCHANGED <<now, account, dropped, edits, keys, req>>

-----------------------------------------------------------------------------
(* Managing keys and roles.                                                *)

Holds(gate, p) == \E t \in tokens : Passes(gate, t.claims, p)

CreateAPIKey(p, k, type) ==
  /\ Holds("keys", p) /\ keys[k] = None
  /\ keys' = [keys EXCEPT ![k] = [project |-> p, type |-> type, owned |-> FALSE, revoked |-> None]]
  /\ UNCHANGED <<now, account, dropped, edits, tokens, req>>

RevokeAPIKey(p, k) ==
  /\ Holds("keys", p) /\ Found(k, p)
  /\ keys' = [keys EXCEPT ![k].revoked = now]
  /\ UNCHANGED <<now, account, dropped, edits, tokens, req>>

\* The account's roles change, and those it lost are noted.
Assign(p, role, allowed) ==
  LET a == [role |-> role, allowed |-> allowed]
      lost == (IF AllowedOf(account[p]) = None THEN {} ELSE AllowedOf(account[p]))
              \ (IF AllowedOf(a) = None THEN {} ELSE AllowedOf(a))
  IN
  /\ a # account[p] /\ edits < MaxEdits
  /\ edits' = edits + 1
  /\ account' = [account EXCEPT ![p] = a]
  /\ dropped' = [dropped EXCEPT ![p] = [x \in Ordinary |-> IF x \in lost THEN now ELSE @[x]]]

\* SetUserRole and ApplyRoleChange; an omitted list is stored as NULL.
SetUserRole(p, role, allowed) ==
  /\ Holds("users", p) /\ NormalizeAllowedRoles(role, allowed) # None
  /\ Assign(p, role, allowed)
  /\ UNCHANGED <<now, keys, tokens, req>>

\* The project's own SQL may write any roles.
EditRoles(p, role, allowed) ==
  /\ Assign(p, role, allowed)
  /\ UNCHANGED <<now, keys, tokens, req>>

Tick ==
  /\ now < MaxTime
  /\ \A r \in Req : req[r].since # None => now - req[r].since < MaxFlight
  /\ now' = now + 1
  /\ UNCHANGED <<account, dropped, edits, keys, tokens, req>>

Init ==
  /\ now = 0
  /\ account = [p \in Project |-> [role |-> CHOOSE x \in Ordinary : TRUE, allowed |-> None]]
  /\ dropped = [p \in Project |-> [x \in Ordinary |-> None]]
  /\ edits = 0
  /\ keys = [k \in Key |-> IF k \in Legacy
                           THEN [project |-> CHOOSE p \in Project : TRUE, type |-> "secret",
                                 owned |-> TRUE, revoked |-> None]
                           ELSE None]
  /\ tokens = {}
  /\ req = [r \in Req |-> Idle]

Next ==
  \/ \E r \in Req, p \in Project, at \in {now, None} : ReadAccount(r, p, at)
  \/ \E r \in Req, answer \in Answers : SignSession(r, answer)
  \/ \E r \in Req : HookFails(r) \/ SignKey(r)
  \/ \E r \in Req, p \in Project, k \in Key : FindKey(r, p, k)
  \/ \E p \in Project, use \in {"key_admin", "user_admin"} : PlatformToken(p, use)
  \/ \E p \in Project, k \in Key, type \in {"publishable", "secret"} : CreateAPIKey(p, k, type)
  \/ \E p \in Project, k \in Key : RevokeAPIKey(p, k)
  \/ \E p \in Project, role \in Role, allowed \in RoleLists :
       SetUserRole(p, role, allowed) \/ EditRoles(p, role, allowed)
  \/ Tick

Spec == Init /\ [][Next]_vars

-----------------------------------------------------------------------------
(* Properties.                                                             *)

\* Each gate admits the tokens it is for and no other, in their own project only: an
\* end-user token never manages anything whatever roles the account has and whatever a
\* hook answered, a key-admin token never manages users, no user-owned key does either.
EachGateItsToken ==
  \A t \in tokens, p \in Project :
    LET c == t.claims
        from == t.from
        operator == from.kind = "key" /\ keys[from.key].type = "secret" /\ ~keys[from.key].owned
    IN
    /\ \A gate \in {"keys", "users", "own", "validate"} : Passes(gate, c, p) => from.project = p
    /\ Passes("keys", c, p) => from.kind = "key_admin" \/ operator
    /\ Passes("users", c, p) => from.kind = "user_admin" \/ operator
    /\ Passes("own", c, p) => from.kind = "user"
    /\ Passes("validate", c, p) => from.kind \in {"user", "key"}

\* "every claim auth set stays as it was, the role may move within allowedRoles": after
\* Sign and Verify an end-user token reads as auth meant it, with a role the account had
\* and no reserved one, and what it does not say (a sign-in time, a key) nobody added.
HookOnlyPicksARole ==
  \A t \in tokens :
    t.from.kind = "user" =>
      LET c == t.claims
          own == t.from.own
      IN
      /\ \A n \in DOMAIN own \ {"role"} : c[n] = own[n]
      /\ c.role \in own.allowed_roles /\ own.allowed_roles \subseteq Ordinary
      /\ Get(c, "auth_time") = t.from.at
      /\ \A n \in {"keyId", "actor"} : Get(c, n) = None
      /\ c.exp = c.iat + TTL

\* A grant that was taken back is used up within one token lifetime and one request:
\* no token still verifies longer than that after its key was revoked, or with a role
\* the account lost, although a grant is read before the hook answers and signed after.
TakenBackGrantsExpire ==
  \A t \in tokens :
    Verifies(t.claims) =>
      CASE t.from.kind = "key" ->
             keys[t.from.key].revoked # None => now < keys[t.from.key].revoked + MaxFlight + TTL
        [] t.from.kind = "user" ->
             LET lost == dropped[t.from.project][t.claims.role]
                 allowed == AllowedOf(account[t.from.project])
             IN lost # None /\ (allowed = None \/ t.claims.role \notin allowed)
                  => now < lost + MaxFlight + TTL
        [] OTHER -> TRUE

=============================================================================
