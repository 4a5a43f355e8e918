--------------------------- MODULE NativeDelegation ---------------------------
(***************************************************************************)
(* Native TinyCloud delegation, second half: code exchange, grants,        *)
(* rotating refresh tokens, renewal, revocation and consent withdrawal,    *)
(* composed with the requests of NativeRequests.                           *)
(*                                                                         *)
(* A code exchange is four database steps of the provider and its hooks:   *)
(* redeem the request and create the grant, link the hash of the refresh   *)
(* token, insert the refresh row, insert the access row.  Anything may     *)
(* happen between two of them, a crash included.                           *)
(*                                                                         *)
(* Refresh tokens are numbered in the order they are generated; a hash     *)
(* stands for its token, 0 for a null hash.  An access token is named by   *)
(* the refresh row it hangs from.                                          *)
(***************************************************************************)
EXTENDS NativeRequests

CONSTANTS
  Code,            \* authorization codes
  Grant,           \* ids of grants, never reused
  Renewer,         \* renew and revoke calls in flight
  NoGrant,
  ConflictWindow,  \* 30 s after a rotation
  RenewInterval,   \* 60 s between renewals
  RenewalCutoff,   \* 300 s before the grant ends
  AccessTtl,       \* 300 s
  RefreshTtl,      \* 7 days
  MaxTokens        \* bound on the refresh tokens generated

ASSUME DelegationAssumption ==
  /\ NoGrant \notin Grant
  /\ ConflictWindow \in Nat /\ RenewInterval \in Nat /\ RenewalCutoff \in Nat
  /\ AccessTtl \in Nat /\ RefreshTtl \in Nat /\ MaxTokens \in Nat

Token == 1 .. MaxTokens
NoToken == 0

VARIABLES
  blocked,    \* the user refuses new signatures (key-control mode or app preference)
  code,       \* authorization codes, and how far the exchange of each has come
  grant,      \* tinycloud_native_grant
  refresh,    \* oauth_refresh_token
  access,     \* oauth_access_token: expiry of the row on each refresh token, 0 for none
  renewer,    \* renew and revoke handlers
  nextToken,  \* the next refresh token to be generated
  owner,      \* history: the grant each token was generated for
  uses        \* history: how many renewals each token was accepted for

tokenVars == <<blocked, code, grant, refresh, access, renewer, nextToken, owner, uses>>
vars == <<requestVars, tokenVars>>

-------------------------------------------------------------------------------
CodeRow ==
  [stage: {"none", "issued", "spent", "redeemed", "linked", "refreshed", "done", "failed"},
   user: User \cup {NoUser}, req: Request \cup {NoRequest},
   grant: Grant \cup {NoGrant}, token: Nat]

\* rotatedAt also stands for lastRenewedAt: renewal writes both with the same value, and
\* both are null exactly while previousRefreshTokenHash (prev) is.
GrantRow ==
  [status: {"NONE", "ACTIVE", "REVOKED"}, req: Request \cup {NoRequest},
   user: User \cup {NoUser}, consentId: Nat, consentGeneration: Nat,
   key: Key \cup {NoKey}, host: Host \cup {NoHost}, perms: SUBSET Perm, ttl: Nat,
   absoluteExpiresAt: Nat, cur: Nat, prev: Nat, rotatedAt: Nat, delegationExpiresAt: Nat]

RefreshRow == [state: {"none", "live", "revoked"}, expiresAt: Nat]

RenewerState ==
  [stage: {"idle", "loaded"}, op: {"renew", "revoke"}, token: Nat,
   grant: Grant \cup {NoGrant}, preKey: Key \cup {NoKey}, retried: BOOLEAN]

TokenTypeOK ==
  /\ blocked \in [User -> BOOLEAN]
  /\ code \in [Code -> CodeRow]
  /\ grant \in [Grant -> GrantRow]
  /\ refresh \in [Token -> RefreshRow]
  /\ access \in [Token -> Nat]
  /\ renewer \in [Renewer -> RenewerState]
  /\ nextToken \in Nat \ {0}
  /\ owner \in [Token -> Grant \cup {NoGrant}]
  /\ uses \in [Token -> Nat]

TypeOK == RequestTypeOK /\ TokenTypeOK

NoCode == [stage |-> "none", user |-> NoUser, req |-> NoRequest, grant |-> NoGrant, token |-> 0]
EmptyGrant ==
  [status |-> "NONE", req |-> NoRequest, user |-> NoUser, consentId |-> 0,
   consentGeneration |-> 0, key |-> NoKey, host |-> NoHost, perms |-> {}, ttl |-> 0,
   absoluteExpiresAt |-> 0, cur |-> NoToken, prev |-> NoToken, rotatedAt |-> 0,
   delegationExpiresAt |-> 0]
NoRow == [state |-> "none", expiresAt |-> 0]
IdleRenewer ==
  [stage |-> "idle", op |-> "renew", token |-> 0, grant |-> NoGrant, preKey |-> NoKey,
   retried |-> FALSE]

Init ==
  /\ RequestInit
  /\ blocked = [u \in User |-> FALSE]
  /\ code = [c \in Code |-> NoCode]
  /\ grant = [g \in Grant |-> EmptyGrant]
  /\ refresh = [t \in Token |-> NoRow]
  /\ access = [t \in Token |-> 0]
  /\ renewer = [n \in Renewer |-> IdleRenewer]
  /\ nextToken = 1
  /\ owner = [t \in Token |-> NoGrant]
  /\ uses = [t \in Token |-> 0]

-------------------------------------------------------------------------------
(* The token tables.                                                       *)

\* The hashes a grant names: what withdrawal and revocation delete.
Hashes(g) == {grant[g].cur, grant[g].prev} \ {NoToken}

WithoutRows(ts) == [t \in Token |-> IF t \in ts THEN NoRow ELSE refresh[t]]
WithoutAccess(ts) == [t \in Token |-> IF t \in ts THEN 0 ELSE access[t]]

\* Mutant of GuardPasses: no guard trigger.
NoGuard(t) == TRUE

\* tinycloud_native_assert_grant_live: the grant that names the hash as its current one,
\* if there is one, must be ACTIVE and of the current generation.
GuardPasses(t) ==
  \A g \in Grant : grant[g].cur = t =>
    grant[g].status = "ACTIVE" /\ generation[grant[g].user] = grant[g].consentGeneration

-------------------------------------------------------------------------------
(* Consent and code exchange.                                              *)

\* The provider's consent endpoint accepts the scopes and issues a code for a request
\* that was resolved once; approval is not its concern.
IssueCode(c, u, r) ==
  /\ code[c].stage = "none"
  /\ req[r].status \notin {"ABSENT", "PENDING", "SWEPT"}
  /\ AcceptConsent(u)
  /\ code' = [code EXCEPT ![c] = [NoCode EXCEPT !.stage = "issued", !.user = u, !.req = r]]
  /\ UNCHANGED <<now, generation, key, ceiling, req, prep, tab, sweeping>>
  /\ UNCHANGED <<blocked, grant, refresh, access, renewer, nextToken, owner, uses>>

\* The provider deletes the code before the hook runs; one exchange wins it.
SpendCode(c) ==
  /\ code[c].stage = "issued"
  /\ code' = [code EXCEPT ![c].stage = "spent"]
  /\ UNCHANGED requestVars
  /\ UNCHANGED <<blocked, grant, refresh, access, renewer, nextToken, owner, uses>>

\* exchangeNativeCode: redeem the request and create its grant, in one transaction.
Redeem(c) ==
  LET u == code[c].user
      r == code[c].req
      rev == prep[r][req[r].approvedRevision]
  IN
  /\ code[c].stage = "spent"
  /\ RedeemRequest(u, r)
  /\ \E g \in Grant :
       /\ grant[g].status = "NONE"
       /\ grant' = [grant EXCEPT ![g] =
            [EmptyGrant EXCEPT !.status = "ACTIVE", !.req = r, !.user = u,
               !.consentId = consent[u].id, !.consentGeneration = generation[u],
               !.key = rev.key, !.host = rev.host, !.perms = rev.perms, !.ttl = rev.ttl,
               !.absoluteExpiresAt = now + ceiling.lifetime,
               !.delegationExpiresAt = req[r].delegationExpiresAt]]
       /\ code' = [code EXCEPT ![c].stage = "redeemed", ![c].grant = g]
  /\ UNCHANGED <<now, consent, generation, key, ceiling, prep, tab, sweeping>>
  /\ UNCHANGED <<blocked, refresh, access, renewer, nextToken, owner, uses>>

\* generateNativeRefreshToken: link the new token's hash to the grant, once, if ACTIVE.
LinkToken(c) ==
  LET g == code[c].grant
  IN
  /\ code[c].stage = "redeemed"
  /\ grant[g].status = "ACTIVE"
  /\ grant[g].cur = NoToken
  /\ nextToken \in Token
  /\ grant' = [grant EXCEPT ![g].cur = nextToken]
  /\ code' = [code EXCEPT ![c].stage = "linked", ![c].token = nextToken]
  /\ owner' = [owner EXCEPT ![nextToken] = g]
  /\ nextToken' = nextToken + 1
  /\ UNCHANGED requestVars
  /\ UNCHANGED <<blocked, refresh, access, renewer, uses>>

\* The provider inserts the refresh row; the guard trigger lets it or raises TC773.
InsertRefresh(c) ==
  LET t == code[c].token
  IN
  /\ code[c].stage = "linked"
  /\ GuardPasses(t)
  /\ refresh' = [refresh EXCEPT ![t] = [state |-> "live", expiresAt |-> now + RefreshTtl]]
  /\ code' = [code EXCEPT ![c].stage = "refreshed"]
  /\ UNCHANGED requestVars
  /\ UNCHANGED <<blocked, grant, access, renewer, nextToken, owner, uses>>

\* The provider inserts the access row, for a refresh row that must still be there, and
\* the response hands both tokens to the client.
InsertAccess(c) ==
  LET t == code[c].token
  IN
  /\ code[c].stage = "refreshed"
  /\ refresh[t].state # "none"
  /\ GuardPasses(t)
  /\ access' = [access EXCEPT ![t] = now + AccessTtl]
  /\ code' = [code EXCEPT ![c].stage = "done"]
  /\ UNCHANGED requestVars
  /\ UNCHANGED <<blocked, grant, refresh, renewer, nextToken, owner, uses>>

\* Any refusal, lock timeout or crash is final for the code and undoes nothing that an
\* earlier step committed.
FailExchange(c) ==
  /\ code[c].stage \in {"spent", "redeemed", "linked", "refreshed"}
  /\ code' = [code EXCEPT ![c].stage = "failed"]
  /\ UNCHANGED requestVars
  /\ UNCHANGED <<blocked, grant, refresh, access, renewer, nextToken, owner, uses>>

\* The provider's revoke endpoint deletes one access row of the client.
RevokeAccess(t) ==
  /\ access[t] # 0
  /\ access' = [access EXCEPT ![t] = 0]
  /\ UNCHANGED requestVars
  /\ UNCHANGED <<blocked, code, grant, refresh, renewer, nextToken, owner, uses>>

-------------------------------------------------------------------------------
(* Renewal and revocation.                                                 *)

\* The client has been handed the token: by the end of a code exchange, or by a renewal.
Held(t) == \A c \in Code : code[c].token = t => code[c].stage = "done"

\* lastRenewedAt + min(60 s, ttl / 4) is still ahead.
TooSoon(g) ==
  grant[g].prev # NoToken /\
  4 * now < 4 * grant[g].rotatedAt + MinOf(4 * RenewInterval, grant[g].ttl)

InConflict(g, t) == t = grant[g].prev /\ now <= grant[g].rotatedAt + ConflictWindow

\* The key unsealed before the locks: none when the call is likely to be refused, or when
\* the primary key is no longer the grant's.
Unsealed(g) == LET u == grant[g].user IN IF key[u] = grant[g].key THEN key[u] ELSE NoKey

\* The handler finds the grant by hash with no lock and, for a renewal, unseals the key.
LoadRenewal(n, op, t) ==
  /\ renewer[n].stage = "idle"
  /\ Held(t)
  /\ \E g \in Grant :
       /\ t \in Hashes(g)
       /\ renewer' = [renewer EXCEPT ![n] =
            [stage |-> "loaded", op |-> op, token |-> t, grant |-> g, retried |-> FALSE,
             preKey |-> IF \/ op = "revoke" \/ grant[g].status # "ACTIVE"
                           \/ InConflict(g, t) \/ TooSoon(g)
                          THEN NoKey ELSE Unsealed(g)]]
  /\ UNCHANGED requestVars
  /\ UNCHANGED <<blocked, code, grant, refresh, access, nextToken, owner, uses>>

\* What the renewing transaction requires, in the order it checks.
RenewalAllowed(g, t) ==
  LET u == grant[g].user
      cur == grant[g].cur
  IN
  /\ t \in Hashes(g)
  /\ consent[u].present /\ consent[u].scoped /\ consent[u].id = grant[g].consentId
  /\ generation[u] = grant[g].consentGeneration
  /\ grant[g].status = "ACTIVE"
  /\ ~InConflict(g, t)
  /\ refresh[cur].state = "live" /\ refresh[cur].expiresAt > now
  /\ t = cur \/ (refresh[t].state = "revoked" /\ refresh[t].expiresAt > now)
  /\ now + RenewalCutoff < grant[g].absoluteExpiresAt
  /\ ceiling.host = grant[g].host
  /\ InCeiling(grant[g].perms)
  /\ key[u] = grant[g].key
  /\ ~blocked[u]
  /\ ~TooSoon(g)

\* A call that looked refusable and is not unseals now and runs its transaction again.
UnsealAndRetry(n) ==
  LET g == renewer[n].grant
  IN
  /\ renewer[n].stage = "loaded" /\ renewer[n].op = "renew"
  /\ ~renewer[n].retried
  /\ renewer[n].preKey = NoKey
  /\ RenewalAllowed(g, renewer[n].token)
  /\ renewer' = [renewer EXCEPT ![n].retried = TRUE, ![n].preKey = Unsealed(g)]
  /\ UNCHANGED requestVars
  /\ UNCHANGED <<blocked, code, grant, refresh, access, nextToken, owner, uses>>

RenewedTtl(g) ==
  MinOf(grant[g].ttl, MinOf(ceiling.maxTtl, grant[g].absoluteExpiresAt - now))

\* What every successful renewal writes, but for the rows of the old tokens.
Renewal(n) ==
  LET g == renewer[n].grant
      t == renewer[n].token
  IN
  /\ renewer[n].stage = "loaded" /\ renewer[n].op = "renew"
  /\ RenewalAllowed(g, t)
  /\ renewer[n].preKey = key[grant[g].user]
  /\ RenewedTtl(g) > 0
  /\ nextToken \in Token
  /\ grant' = [grant EXCEPT ![g].prev = t, ![g].cur = nextToken, ![g].rotatedAt = now,
                            ![g].delegationExpiresAt = now + RenewedTtl(g)]
  /\ renewer' = [renewer EXCEPT ![n] = IdleRenewer]
  /\ owner' = [owner EXCEPT ![nextToken] = g]
  /\ uses' = [uses EXCEPT ![t] = @ + 1]
  /\ nextToken' = nextToken + 1
  /\ UNCHANGED requestVars
  /\ UNCHANGED <<blocked, code>>

LiveRow == [state |-> "live", expiresAt |-> now + RefreshTtl]

\* Mutant of Rotate: the old row stays live.
RotateKeepsLive(n) ==
  /\ Renewal(n)
  /\ renewer[n].token = grant[renewer[n].grant].cur
  /\ refresh' = [refresh EXCEPT ![nextToken] = LiveRow]
  /\ UNCHANGED access

\* Mutant of Rotate: the old row is deleted at once.
RotateDeletes(n) ==
  LET t == renewer[n].token
  IN
  /\ Renewal(n)
  /\ t = grant[renewer[n].grant].cur
  /\ refresh' = [WithoutRows({t}) EXCEPT ![nextToken] = LiveRow]
  /\ access' = WithoutAccess({t})

\* The current token rotates: its row is kept, revoked.
Rotate(n) ==
  LET t == renewer[n].token
  IN
  /\ Renewal(n)
  /\ t = grant[renewer[n].grant].cur
  /\ refresh' = [refresh EXCEPT ![t].state = "revoked", ![nextToken] = LiveRow]
  /\ UNCHANGED access

\* Mutant of Recover: the row of the previous token stays.
RecoverKeepsRow(n) ==
  LET g == renewer[n].grant
  IN
  /\ Renewal(n)
  /\ renewer[n].token = grant[g].prev
  /\ refresh' = [WithoutRows({grant[g].cur}) EXCEPT ![nextToken] = LiveRow]
  /\ access' = WithoutAccess({grant[g].cur})

\* The previous token recovers from a lost response: its row and the row of the token
\* that never arrived are deleted with their access tokens, so it recovers only once.
Recover(n) ==
  LET g == renewer[n].grant
  IN
  /\ Renewal(n)
  /\ renewer[n].token = grant[g].prev
  /\ refresh' = [WithoutRows(Hashes(g)) EXCEPT ![nextToken] = LiveRow]
  /\ access' = WithoutAccess(Hashes(g))

\* Native revoke accepts the current and the previous token.
Revoke(n) ==
  LET g == renewer[n].grant
  IN
  /\ renewer[n].stage = "loaded" /\ renewer[n].op = "revoke"
  /\ renewer[n].token \in Hashes(g)
  /\ grant' = [grant EXCEPT ![g].status = "REVOKED"]
  /\ refresh' = WithoutRows(Hashes(g))
  /\ access' = WithoutAccess(Hashes(g))
  /\ renewer' = [renewer EXCEPT ![n] = IdleRenewer]
  /\ UNCHANGED requestVars
  /\ UNCHANGED <<blocked, code, nextToken, owner, uses>>

\* A refusal, an unseal or lock timeout or a crash: no row changes.
RefuseRenewal(n) ==
  /\ renewer[n].stage = "loaded"
  /\ renewer' = [renewer EXCEPT ![n] = IdleRenewer]
  /\ UNCHANGED requestVars
  /\ UNCHANGED <<blocked, code, grant, refresh, access, nextToken, owner, uses>>

-------------------------------------------------------------------------------
(* Withdrawal, and the user's block on new signatures.                     *)

GrantsOf(u) == {g \in Grant : grant[g].status # "NONE" /\ grant[g].user = u}

\* The consent row goes or loses the scope; the trigger does the rest in one transaction.
Withdraw(u) ==
  LET hashes == UNION {Hashes(g) : g \in GrantsOf(u)}
  IN
  /\ ConsentLost(u)
  /\ WithdrawRequests(u)
  /\ grant' = [g \in Grant |-> IF g \in GrantsOf(u) THEN [grant[g] EXCEPT !.status = "REVOKED"]
                                                    ELSE grant[g]]
  /\ refresh' = WithoutRows(hashes)
  /\ access' = WithoutAccess(hashes)
  /\ UNCHANGED <<now, key, ceiling, prep, tab, sweeping>>
  /\ UNCHANGED <<blocked, code, renewer, nextToken, owner, uses>>

SetBlock(u) ==
  /\ blocked' = [blocked EXCEPT ![u] = ~@]
  /\ UNCHANGED requestVars
  /\ UNCHANGED <<code, grant, refresh, access, renewer, nextToken, owner, uses>>

-------------------------------------------------------------------------------
Next ==
  \/ RequestStep /\ UNCHANGED tokenVars
  \/ \E c \in Code, u \in User, r \in Request : IssueCode(c, u, r)
  \/ \E c \in Code : \/ SpendCode(c) \/ Redeem(c) \/ LinkToken(c)
                     \/ InsertRefresh(c) \/ InsertAccess(c) \/ FailExchange(c)
  \/ \E t \in Token : RevokeAccess(t)
  \/ \E n \in Renewer, op \in {"renew", "revoke"}, t \in Token : LoadRenewal(n, op, t)
  \/ \E n \in Renewer : \/ UnsealAndRetry(n) \/ Rotate(n) \/ Recover(n)
                        \/ Revoke(n) \/ RefuseRenewal(n)
  \/ \E u \in User : Withdraw(u) \/ SetBlock(u)

Spec == Init /\ [][Next]_vars

-------------------------------------------------------------------------------
(* Properties.                                                             *)

\* Every refresh token that could still be renewed is the current token of an ACTIVE
\* grant of the current consent generation, whatever a withdrawal, a revocation or a
\* crash did between the steps of the exchange or of a renewal.  A grant therefore has
\* one usable refresh token at most, and a revoked one has none.
LiveTokenOfActiveGrant ==
  \A t \in Token : refresh[t].state = "live" =>
    \E g \in Grant : /\ grant[g].cur = t
                     /\ grant[g].status = "ACTIVE"
                     /\ grant[g].consentGeneration = generation[grant[g].user]

\* An ACTIVE grant rests on a consent that is there now, with the scope, and is the very
\* consent it was redeemed under: a later consent never revives an earlier grant.
ActiveGrantConsented ==
  \A g \in Grant : grant[g].status = "ACTIVE" =>
    LET u == grant[g].user IN
    /\ consent[u].present /\ consent[u].scoped
    /\ consent[u].id = grant[g].consentId
    /\ generation[u] = grant[g].consentGeneration

\* Two codes issued for one request never become two grants.
OneGrantPerRequest ==
  \A g, h \in Grant : grant[g].status # "NONE" /\ grant[g].req = grant[h].req => g = h

\* Nothing usable hangs from the two tokens a revoked grant still names: the provider's
\* late inserts cannot put a row back.
RevokedTokensGone ==
  \A g \in Grant : grant[g].status = "REVOKED" =>
    \A t \in Hashes(g) : refresh[t].state = "none" /\ access[t] = 0

\* A token is accepted for renewal twice at most: once as the current token and once to
\* recover from a lost response.
RenewedTwiceAtMost == \A t \in Token : uses[t] <= 2

\* A rotation whose response is lost can be made up for: until it was used to recover,
\* the previous token of an ACTIVE grant keeps the revoked row that recovery needs, and
\* the token that never arrived keeps the row that recovery replaces.
LostResponseRecoverable ==
  \A g \in Grant : grant[g].status = "ACTIVE" /\ grant[g].prev # NoToken =>
    /\ refresh[grant[g].cur].state = "live"
    /\ uses[grant[g].prev] = 1 => refresh[grant[g].prev].state = "revoked"

\* No delegation signed under a grant outlives it, whatever the administrator did to the
\* ceiling between approval, exchange and renewal.
DelegationWithinGrant ==
  \A g \in Grant : grant[g].status # "NONE" =>
    grant[g].delegationExpiresAt <= grant[g].absoluteExpiresAt

\* What the comment on the token guard triggers says: "no live OAuth token can exist for a
\* native grant that is not ACTIVE", access tokens included.
NoLiveTokenOfDeadGrant ==
  \A t \in Token : owner[t] \in Grant /\ grant[owner[t]].status = "REVOKED" =>
    refresh[t].state # "live" /\ access[t] <= now

\* What limits that: an access row that outlived its grant only ages.  No step writes or
\* prolongs the row of a token whose grant is revoked, not the last insert of an exchange
\* that was overtaken by renewals and a withdrawal either, and no row is ever dated further
\* ahead than one access lifetime, so a stray token is dead one lifetime after its grant.
StraysOnlyAge ==
  [][\A t \in Token :
       owner'[t] \in Grant /\ grant'[owner'[t]].status = "REVOKED" => access'[t] <= access[t]]_vars

AccessWithinTtl == \A t \in Token : access[t] <= now + AccessTtl
=============================================================================
