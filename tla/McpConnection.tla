----------------------------- MODULE McpConnection -----------------------------
(***************************************************************************)
(* The connection of one MCP client to one user: the web session it was    *)
(* approved on, the consent, and the chain of refresh tokens, of which the *)
(* client presents one to get the next.  A guard judges a refresh before   *)
(* the OAuth provider sees it and extends the session; the provider then   *)
(* reads the row, marks it spent and inserts the next one, each in a       *)
(* statement of its own.  Access tokens are JWTs without a row: a resource *)
(* server asks whether one is active.                                      *)
(*                                                                         *)
(* The clock counts whole seconds, in which tokens and consents are dated. *)
(* An access token is named by the refresh token that was issued with it.  *)
(***************************************************************************)
EXTENDS Naturals

CONSTANTS
  Session,      \* sign-ins of the user
  NoSession,
  Token,        \* refresh tokens, each issued at most once
  NoToken,
  Code,         \* authorization codes, each issued at most once
  Scope,
  Mcp,          \* tinycloud:mcp
  Refresher,    \* token requests in progress
  WebUse,       \* renewals of a session by the web application in progress
  ExpiresIn,    \* a session from sign-in or renewal: 7 days
  UpdateAge,    \* 1 day
  Cap,          \* the most a session may last: 30 days
  AccessTtl,    \* 12 h
  RefreshTtl,   \* 7 days
  MaxTime       \* bound on the clock

ASSUME McpAssumption ==
  /\ NoSession \notin Session /\ NoToken \notin Token /\ Mcp \in Scope
  /\ ExpiresIn \in Nat /\ UpdateAge \in 0..ExpiresIn /\ Cap \in Nat /\ ExpiresIn <= Cap
  /\ AccessTtl \in Nat /\ RefreshTtl \in Nat /\ MaxTime \in Nat

VARIABLES
  now,
  session,   \* the session table
  consent,   \* the row of oauth_consent, if there is one
  disabled,  \* oauth_client.disabled
  code,      \* authorization codes
  refresh,   \* oauth_refresh_token
  denied,    \* revoked_access_token
  call,      \* what each token request is in the middle of
  web,       \* what each renewal by the web application is in the middle of
  revoked,   \* history: the access tokens whose revocation was answered
  steady     \* history: requests whose connection has stood since they came

vars == <<now, session, consent, disabled, code, refresh, denied, call, web, revoked, steady>>

-------------------------------------------------------------------------------
SessionRow == [state: {"none", "live", "gone"}, createdAt: Nat, expiresAt: Nat]

NoSessionRow == [state |-> "none", createdAt |-> 0, expiresAt |-> 0]

\* again: the first second in which the user could consent anew after the row was deleted;
\* cut: the first second after the last disconnection (history).
ConsentRow == [granted: BOOLEAN, scopes: SUBSET Scope, createdAt: Nat, again: Nat, cut: Nat]

NoConsent == [granted |-> FALSE, scopes |-> {}, createdAt |-> 0, again |-> 0, cut |-> 0]

CodeRow ==
  [state: {"none", "live", "spent"}, session: Session \cup {NoSession}, scopes: SUBSET Scope,
   issuedAt: Nat]

NoCode == [state |-> "none", session |-> NoSession, scopes |-> {}, issuedAt |-> 0]

\* since: when the code was exchanged with which the chain of this token began; crossed: a
\* request of the chain was in progress when the provider deleted the consent (history).
TokenRow ==
  [state: {"none", "live", "revoked", "gone"}, session: Session \cup {NoSession},
   scopes: SUBSET Scope, issuedAt: Nat, expiresAt: Nat, since: Nat, crossed: BOOLEAN]

NoTokenRow ==
  [state |-> "none", session |-> NoSession, scopes |-> {}, issuedAt |-> 0, expiresAt |-> 0,
   since |-> 0, crossed |-> FALSE]

CallState ==
  [stage: {"idle", "judged", "unextended", "passed", "read", "minting", "refused"},
   token: Token \cup {NoToken}, session: Session \cup {NoSession}, scopes: SUBSET Scope,
   at: Nat, since: Nat, crossed: BOOLEAN]

IdleCall ==
  [stage |-> "idle", token |-> NoToken, session |-> NoSession, scopes |-> {}, at |-> 0,
   since |-> 0, crossed |-> FALSE]

WebState == [stage: {"idle", "renewing"}, session: Session \cup {NoSession}, expiresAt: Nat]

IdleWeb == [stage |-> "idle", session |-> NoSession, expiresAt |-> 0]

McpTypeOK ==
  /\ now \in Nat
  /\ session \in [Session -> SessionRow]
  /\ consent \in ConsentRow
  /\ disabled \in BOOLEAN
  /\ code \in [Code -> CodeRow]
  /\ refresh \in [Token -> TokenRow]
  /\ denied \subseteq Token
  /\ call \in [Refresher -> CallState]
  /\ web \in [WebUse -> WebState]
  /\ revoked \subseteq Token
  /\ steady \in [Refresher -> BOOLEAN]

Init ==
  /\ now = 0
  /\ session = [s \in Session |-> NoSessionRow]
  /\ consent = NoConsent
  /\ disabled = FALSE
  /\ code = [c \in Code |-> NoCode]
  /\ refresh = [t \in Token |-> NoTokenRow]
  /\ denied = {}
  /\ call = [r \in Refresher |-> IdleCall]
  /\ web = [w \in WebUse |-> IdleWeb]
  /\ revoked = {}
  /\ steady = [r \in Refresher |-> FALSE]

-------------------------------------------------------------------------------
(* Sessions.                                                               *)

Smaller(a, b) == IF a < b THEN a ELSE b

Larger(a, b) == IF a > b THEN a ELSE b

SignedIn(s) == session[s].state = "live" /\ session[s].expiresAt > now

SignIn(s) ==
  /\ session[s].state = "none"
  /\ session' = [session EXCEPT ![s] =
       [state |-> "live", createdAt |-> now, expiresAt |-> now + ExpiresIn]]
  /\ UNCHANGED <<now, consent, disabled, code, refresh, denied, call, web, revoked>>

\* The row is deleted.
SignOut(s) ==
  /\ session[s].state = "live"
  /\ session' = [session EXCEPT ![s].state = "gone"]
  /\ UNCHANGED <<now, consent, disabled, code, refresh, denied, call, web, revoked>>

\* Mutant of WebExpiry: the hook is not installed.
WebExpiryUncapped(s) == now + ExpiresIn

\* capSessionRefresh.
WebExpiry(s) == Smaller(now + ExpiresIn, session[s].createdAt + Cap)

\* A use of the web application renews a session that has aged enough.
WebRead(w, s) ==
  /\ web[w].stage = "idle"
  /\ SignedIn(s) /\ session[s].expiresAt + UpdateAge <= now + ExpiresIn
  /\ web' = [web EXCEPT ![w] =
       [stage |-> "renewing", session |-> s, expiresAt |-> WebExpiry(s)]]
  /\ UNCHANGED <<now, session, consent, disabled, code, refresh, denied, call, revoked>>

\* The update names the row alone: it may have been extended, have expired or be gone.
WebWrite(w) ==
  /\ web[w].stage = "renewing"
  /\ session' = IF session[web[w].session].state = "live"
       THEN [session EXCEPT ![web[w].session].expiresAt = web[w].expiresAt]
       ELSE session
  /\ web' = [web EXCEPT ![w] = IdleWeb]
  /\ UNCHANGED <<now, consent, disabled, code, refresh, denied, call, revoked>>

-------------------------------------------------------------------------------
(* Connecting and disconnecting.                                           *)

\* The provider keeps the date of a consent it changes.  A user who connects again needs a
\* second for it.
AcceptConsent(s, scopes) ==
  /\ SignedIn(s)
  /\ \/ /\ consent.granted
        /\ consent' = [consent EXCEPT !.scopes = scopes]
     \/ /\ ~ consent.granted
        /\ now >= consent.again
        /\ consent' = [consent EXCEPT !.granted = TRUE, !.scopes = scopes, !.createdAt = now]
  /\ UNCHANGED <<now, session, disabled, code, refresh, denied, call, web, revoked>>

\* An authorize request may be resumed on whatever session the browser holds.
IssueCode(c, s) ==
  /\ code[c].state = "none"
  /\ SignedIn(s) /\ consent.granted
  /\ code' = [code EXCEPT ![c] =
       [state |-> "live", session |-> s, scopes |-> consent.scopes, issuedAt |-> now]]
  /\ UNCHANGED <<now, session, consent, disabled, refresh, denied, call, web, revoked>>

\* The sign-in had less than a full session length left to its cap.
TooOld(c) == session[code[c].session].createdAt + (Cap - ExpiresIn) <= code[c].issuedAt

\* The guard spends a code of a sign-in that was too old; otherwise the provider takes it.
TakeCode(r, c) ==
  /\ call[r].stage = "idle"
  /\ code[c].state = "live"
  /\ code' = [code EXCEPT ![c] = [NoCode EXCEPT !.state = "spent"]]
  /\ call' = [call EXCEPT ![r] =
       IF Mcp \in code[c].scopes /\ TooOld(c) THEN [IdleCall EXCEPT !.stage = "refused"]
       ELSE [stage |-> "minting", token |-> NoToken, session |-> code[c].session,
             scopes |-> code[c].scopes, at |-> now, since |-> now, crossed |-> FALSE]]
  /\ UNCHANGED <<now, session, consent, disabled, refresh, denied, web, revoked>>

\* All rows of the user and the client.
AllGone == [t \in Token |-> IF refresh[t].state = "none" THEN refresh[t]
                            ELSE [refresh[t] EXCEPT !.state = "gone"]]

UserSignedIn == \E s \in Session : SignedIn(s)

\* Mutant of Disconnect: the rows of the tokens stay.
DisconnectConsentOnly ==
  /\ UserSignedIn /\ consent.granted /\ Mcp \in consent.scopes
  /\ consent' = [consent EXCEPT !.granted = FALSE, !.scopes = {}, !.again = now + 1,
                                !.cut = now + 1]
  /\ UNCHANGED <<now, session, disabled, code, refresh, denied, call, web, revoked>>

\* One transaction deletes the consent and the rows of the tokens.
Disconnect ==
  /\ UserSignedIn /\ consent.granted /\ Mcp \in consent.scopes
  /\ consent' = [consent EXCEPT !.granted = FALSE, !.scopes = {}, !.again = now + 1,
                                !.cut = now + 1]
  /\ refresh' = AllGone
  /\ UNCHANGED <<now, session, disabled, code, denied, call, web, revoked>>

\* The provider's endpoint deletes the consent and none of these rows, and a token request
\* that is in progress goes on.
DeleteConsent ==
  /\ UserSignedIn /\ consent.granted
  /\ consent' = [consent EXCEPT !.granted = FALSE, !.scopes = {}, !.again = now + 1]
  /\ call' = [r \in Refresher |->
       IF call[r].stage = "idle" THEN call[r] ELSE [call[r] EXCEPT !.crossed = TRUE]]
  /\ UNCHANGED <<now, session, disabled, code, refresh, denied, web, revoked>>

SetDisabled ==
  /\ disabled' = ~ disabled
  /\ UNCHANGED <<now, session, consent, code, refresh, denied, call, web, revoked>>

-------------------------------------------------------------------------------
(* Refreshing.                                                             *)

\* mcpTokenStatus: the connection a token belongs to still stands.
Stands(s, scopes, issuedAt) ==
  /\ ~ disabled /\ consent.granted
  /\ SignedIn(s)
  /\ scopes \subseteq consent.scopes
  /\ issuedAt >= consent.createdAt

Usable(t) == refresh[t].state = "live" /\ refresh[t].expiresAt > now

\* A request is judged when it presents a usable MCP token; the rest is the provider's.
Judge(r, t) ==
  /\ call[r].stage = "idle"
  /\ refresh[t].state # "none"
  /\ \E asked \in SUBSET refresh[t].scopes :
       call' = [call EXCEPT ![r] =
         [stage |-> IF ~ Usable(t) \/ Mcp \notin refresh[t].scopes THEN "passed"
                    ELSE IF Stands(refresh[t].session, asked, refresh[t].issuedAt) THEN "judged"
                    ELSE "refused",
          token |-> t, session |-> refresh[t].session, scopes |-> asked, at |-> now,
          since |-> refresh[t].since, crossed |-> refresh[t].crossed]]
  /\ UNCHANGED <<now, session, consent, disabled, code, refresh, denied, web, revoked>>

\* Mutant of Extendable: an extension that would pass the cap is refused.
ExtendableInFull(t, at) ==
  /\ session[refresh[t].session].state = "live"
  /\ session[refresh[t].session].expiresAt > at
  /\ session[refresh[t].session].createdAt + Cap > at + (ExpiresIn - UpdateAge)
  /\ refresh[t].state = "live" /\ refresh[t].expiresAt > at /\ Mcp \in refresh[t].scopes
  /\ consent.granted /\ Mcp \in consent.scopes
  /\ ~ disabled

\* What the statement that extends the session compares, with the time the guard began.
Extendable(t, at) ==
  /\ session[refresh[t].session].state = "live"
  /\ session[refresh[t].session].expiresAt > at
  /\ session[refresh[t].session].createdAt + Cap > at
  /\ refresh[t].state = "live" /\ refresh[t].expiresAt > at /\ Mcp \in refresh[t].scopes
  /\ consent.granted /\ Mcp \in consent.scopes
  /\ ~ disabled

\* The web renewal point, at most the cap and never earlier than it was.
Extended(s, at) ==
  Larger(session[s].expiresAt,
         Smaller(at + (ExpiresIn - UpdateAge), session[s].createdAt + Cap))

Extend(r) ==
  /\ call[r].stage = "judged"
  /\ LET t == call[r].token
         s == call[r].session
         at == call[r].at
     IN  \/ /\ Extendable(t, at)
            /\ session' = [session EXCEPT ![s].expiresAt = Extended(s, at)]
            /\ call' = [call EXCEPT ![r].stage = "passed"]
         \/ /\ ~ Extendable(t, at)
            /\ call' = [call EXCEPT ![r].stage = "unextended"]
            /\ UNCHANGED session
  /\ UNCHANGED <<now, consent, disabled, code, refresh, denied, web, revoked>>

\* A token that was spent meanwhile is the provider's; otherwise the connection has ended.
Reread(r) ==
  /\ call[r].stage = "unextended"
  /\ call' = [call EXCEPT ![r].stage =
       IF refresh[call[r].token].state = "revoked" THEN "passed" ELSE "refused"]
  /\ UNCHANGED <<now, session, consent, disabled, code, refresh, denied, web, revoked>>

\* A spent token that is presented again ends every chain of the client.
ProviderRead(r) ==
  /\ call[r].stage = "passed"
  /\ LET t == call[r].token
     IN  /\ refresh' = IF refresh[t].state = "revoked" THEN AllGone ELSE refresh
         /\ call' = [call EXCEPT ![r].stage = IF Usable(t) THEN "read" ELSE "refused",
                                 ![r].at = now]
  /\ UNCHANGED <<now, session, consent, disabled, code, denied, web, revoked>>

\* The token is spent if nobody else has spent it; the next one is dated before that.
ProviderRotate(r) ==
  /\ call[r].stage = "read"
  /\ LET t == call[r].token
     IN  \/ /\ refresh[t].state = "live"
            /\ refresh' = [refresh EXCEPT ![t].state = "revoked"]
            /\ \E at \in call[r].at..now :
                 call' = [call EXCEPT ![r].stage = "minting", ![r].at = at]
         \/ /\ refresh[t].state # "live"
            /\ refresh' = IF refresh[t].state = "revoked" THEN AllGone ELSE refresh
            /\ call' = [call EXCEPT ![r].stage = "refused"]
  /\ UNCHANGED <<now, session, consent, disabled, code, denied, web, revoked>>

\* The next row, and with it the access token.
ProviderInsert(r, t) ==
  /\ call[r].stage = "minting"
  /\ refresh[t].state = "none"
  /\ refresh' = [refresh EXCEPT ![t] =
       [state |-> "live", session |-> call[r].session, scopes |-> call[r].scopes,
        issuedAt |-> call[r].at, expiresAt |-> call[r].at + RefreshTtl, since |-> call[r].since,
        crossed |-> call[r].crossed]]
  /\ call' = [call EXCEPT ![r] = IdleCall]
  /\ UNCHANGED <<now, session, consent, disabled, code, denied, web, revoked>>

\* The refusal is sent; or the request fails, wherever it had come to: a lookup answers 503,
\* the client does not authenticate, the process dies.
CallEnds(r) ==
  /\ call[r].stage # "idle"
  /\ call' = [call EXCEPT ![r] = IdleCall]
  /\ UNCHANGED <<now, session, consent, disabled, code, refresh, denied, web, revoked>>

-------------------------------------------------------------------------------
(* Access tokens.                                                          *)

\* The verifier refuses a token at its expiry.
Expired(t) == refresh[t].issuedAt + AccessTtl <= now

\* Rows of tokens that are over; within the second a row may be deleted that expires in it.
Swept == {t \in denied : ~ Expired(t)}

\* The token's key is recorded once the provider has answered, and old rows are swept now
\* and then.
RevokeAccess(t) ==
  /\ refresh[t].state # "none" /\ ~ Expired(t)
  /\ denied' \in {denied \cup {t}, Swept \cup {t}}
  /\ revoked' = revoked \cup {t}
  /\ UNCHANGED <<now, session, consent, disabled, code, refresh, call, web>>

\* The token status check, and the guard of userinfo.
ActiveAccess(t) ==
  /\ refresh[t].state # "none" /\ ~ Expired(t)
  /\ t \notin denied
  /\ Stands(refresh[t].session, refresh[t].scopes, refresh[t].issuedAt)

Tick ==
  /\ now < MaxTime
  /\ now' = now + 1
  /\ UNCHANGED <<session, consent, disabled, code, refresh, denied, call, web, revoked>>

-------------------------------------------------------------------------------
\* The request's connection stands: the user is signed in and has consented to what is asked
\* since before the token was issued, and the token has not expired and was not spent, but
\* by the request itself.
Standing(r) ==
  \/ call[r].stage = "minting"
  \/ /\ call[r].token # NoToken /\ Usable(call[r].token)
     /\ ~ disabled /\ SignedIn(call[r].session)
     /\ consent.granted /\ call[r].scopes \cup {Mcp} \subseteq consent.scopes
     /\ refresh[call[r].token].issuedAt >= consent.createdAt

\* History: whether it has stood in every state since the request came.
Watch ==
  steady' = [r \in Refresher |-> Standing(r)' /\ (call[r].stage = "idle" \/ steady[r])]

SessionStep ==
  \/ \E s \in Session : SignIn(s) \/ SignOut(s)
  \/ \E w \in WebUse, s \in Session : WebRead(w, s)
  \/ \E w \in WebUse : WebWrite(w)

ConnectionStep ==
  \/ \E s \in Session, scopes \in SUBSET Scope : AcceptConsent(s, scopes)
  \/ \E c \in Code, s \in Session : IssueCode(c, s)
  \/ \E r \in Refresher, c \in Code : TakeCode(r, c)
  \/ Disconnect
  \/ DeleteConsent
  \/ SetDisabled

RefreshStep ==
  \/ \E r \in Refresher, t \in Token : Judge(r, t) \/ ProviderInsert(r, t)
  \/ \E r \in Refresher :
       Extend(r) \/ Reread(r) \/ ProviderRead(r) \/ ProviderRotate(r) \/ CallEnds(r)
  \/ \E t \in Token : RevokeAccess(t)

Next == (SessionStep \/ ConnectionStep \/ RefreshStep \/ Tick) /\ Watch

Spec == Init /\ [][Next]_vars

-------------------------------------------------------------------------------
(* Properties.                                                             *)

\* No session lasts past the cap, whoever renews it, and no MCP token of it is active then.
SessionWithinCap ==
  /\ \A s \in Session :
       session[s].state = "live" => session[s].expiresAt <= session[s].createdAt + Cap
  /\ \A t \in Token :
       ActiveAccess(t) => now < session[refresh[t].session].createdAt + Cap

\* What was ended stays ended.  An MCP access token that is active was not revoked, and its
\* chain began with a code exchanged since the user last disconnected.  The chain began since
\* the consent there is now was given, too, or it has outlived a consent the provider deleted
\* by a request that was in progress then.
NoneComesBack ==
  \A t \in Token :
    ActiveAccess(t) /\ Mcp \in refresh[t].scopes =>
      /\ t \notin revoked
      /\ refresh[t].since >= consent.cut
      /\ refresh[t].since >= consent.createdAt \/ refresh[t].crossed

\* A client is told to connect again only if its connection did not stand all the time, or
\* if it presented a token that was spent or had expired.
SteadyRefreshSucceeds ==
  \A r \in Refresher : call[r].stage = "refused" => ~ steady[r]
===============================================================================
