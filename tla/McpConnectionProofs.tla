-------------------------- MODULE McpConnectionProofs --------------------------
(***************************************************************************)
(* McpConnection for any sessions, tokens, codes, scopes, requests and     *)
(* lifetimes: no renewal passes the cap, the date of a token tells whether *)
(* its chain began under the consent there is, and a refused request was   *)
(* not steady.                                                             *)
(***************************************************************************)
EXTENDS McpConnection, TLAPS

-------------------------------------------------------------------------------
(* The inductive invariant.                                                *)

\* A session, and a renewal on its way to it, keep to the cap.
SessionBound ==
  /\ \A s \in Session :
       session[s].state = "live" => session[s].expiresAt <= session[s].createdAt + Cap
  /\ \A w \in WebUse : web[w].stage = "renewing" =>
       /\ web[w].session \in Session
       /\ session[web[w].session].state # "none"
       /\ web[w].expiresAt <= session[web[w].session].createdAt + Cap

\* A request that presents a token, between the guard and the provider.
Presents(r) == call[r].stage \in {"judged", "unextended", "passed", "read"}

\* What codes, tokens and requests were made from.
Origin ==
  /\ \A c \in Code : code[c].state = "live" => code[c].session \in Session
  /\ \A t \in Token : refresh[t].state # "none" =>
       refresh[t].session \in Session /\ refresh[t].issuedAt <= now
  /\ \A r \in Refresher :
       /\ call[r].stage = "minting" => call[r].session \in Session
       /\ call[r].stage \in {"minting", "judged", "read"} => call[r].at <= now
       /\ Presents(r) =>
            /\ call[r].token \in Token
            /\ refresh[call[r].token].state # "none"
            /\ call[r].session = refresh[call[r].token].session
            /\ call[r].scopes \subseteq refresh[call[r].token].scopes
       /\ call[r].stage \in {"judged", "unextended"} => Mcp \in refresh[call[r].token].scopes
  /\ consent.cut <= consent.again
  /\ consent.granted => consent.cut <= consent.createdAt /\ consent.createdAt <= now

\* A token dated since the last disconnection belongs to a chain begun since then.  If no
\* request of its chain crossed a deletion of the consent, the same holds of the consent
\* there is; while there is none, the token is older than any consent to come, or the first
\* of its chain.
Fresh(at, since, crossed) ==
  /\ since >= consent.cut \/ at < consent.cut
  /\ \/ crossed
     \/ IF consent.granted THEN since >= consent.createdAt \/ at < consent.createdAt
        ELSE at < consent.again \/ since = at

\* A chain of the consent there is, or of one that the provider deleted.
OfConsent(since, crossed) ==
  /\ since >= consent.cut
  /\ crossed \/ (consent.granted /\ since >= consent.createdAt)

\* A token that can still be exchanged, once it is judged, is of such a chain.
ChainBound ==
  /\ \A t \in Token : refresh[t].state # "none" /\ Mcp \in refresh[t].scopes =>
       Fresh(refresh[t].issuedAt, refresh[t].since, refresh[t].crossed)
  /\ \A r \in Refresher : Mcp \in call[r].scopes =>
       /\ call[r].stage = "minting" => Fresh(call[r].at, call[r].since, call[r].crossed)
       /\ \/ call[r].stage \in {"judged", "passed"} /\ Usable(call[r].token)
          \/ call[r].stage = "read" /\ refresh[call[r].token].state = "live"
          => OfConsent(call[r].since, call[r].crossed)

RevokedBound ==
  \A t \in revoked : t \in Token /\ refresh[t].state # "none" /\ (t \in denied \/ Expired(t))

RefusedBound ==
  \A r \in Refresher : call[r].stage \in {"unextended", "refused"} => ~ steady[r]

McpInv ==
  /\ McpTypeOK
  /\ SessionBound
  /\ Origin
  /\ ChainBound
  /\ RevokedBound
  /\ RefusedBound

-------------------------------------------------------------------------------
(* What the pieces return.                                                 *)

LEMMA Constants ==
  /\ ExpiresIn \in Nat /\ UpdateAge \in Nat /\ UpdateAge <= ExpiresIn
  /\ ExpiresIn - UpdateAge \in Nat
  /\ Cap \in Nat /\ ExpiresIn <= Cap /\ AccessTtl \in Nat /\ RefreshTtl \in Nat
  /\ Mcp \in Scope /\ NoSession \notin Session /\ NoToken \notin Token
BY McpAssumption

LEMMA EmptyRows ==
  /\ NoSessionRow \in SessionRow /\ NoConsent \in ConsentRow /\ NoCode \in CodeRow
  /\ NoTokenRow \in TokenRow /\ IdleCall \in CallState /\ IdleWeb \in WebState
BY DEF NoSessionRow, SessionRow, NoConsent, ConsentRow, NoCode, CodeRow, NoTokenRow, TokenRow,
       IdleCall, CallState, IdleWeb, WebState

LEMMA AllGoneFacts ==
  ASSUME McpTypeOK
  PROVE  /\ AllGone \in [Token -> TokenRow]
         /\ \A t \in Token :
              /\ AllGone[t].state \in {"none", "gone"}
              /\ refresh[t].state # "none" => AllGone[t].state = "gone"
              /\ AllGone[t].session = refresh[t].session
              /\ AllGone[t].scopes = refresh[t].scopes
              /\ AllGone[t].issuedAt = refresh[t].issuedAt
              /\ AllGone[t].expiresAt = refresh[t].expiresAt
              /\ AllGone[t].since = refresh[t].since
              /\ AllGone[t].crossed = refresh[t].crossed
              /\ refresh[t].state = "none" => AllGone[t] = refresh[t]
BY DEF McpTypeOK, AllGone, TokenRow

LEMMA WebExpiryFacts ==
  ASSUME McpTypeOK, NEW s \in Session
  PROVE  WebExpiry(s) \in Nat /\ WebExpiry(s) <= session[s].createdAt + Cap
BY Constants DEF McpTypeOK, SessionRow, WebExpiry, Smaller

LEMMA ExtendedFacts ==
  ASSUME McpTypeOK, NEW s \in Session, NEW at \in Nat,
         session[s].expiresAt <= session[s].createdAt + Cap
  PROVE  Extended(s, at) \in Nat /\ Extended(s, at) <= session[s].createdAt + Cap
BY Constants DEF McpTypeOK, SessionRow, Extended, Smaller, Larger

LEMMA CallEdits ==
  ASSUME McpTypeOK, NEW r \in Refresher
  PROVE  /\ \A g \in {"judged", "unextended", "passed", "read", "minting", "refused"}, at \in Nat :
              /\ [call[r] EXCEPT !.stage = g] \in CallState
              /\ [call[r] EXCEPT !.stage = g, !.at = at] \in CallState
         /\ [call[r] EXCEPT !.crossed = TRUE] \in CallState
<1>1. PICK c \in CallState : c = call[r]
  BY DEF McpTypeOK
<1> QED BY <1>1 DEF CallState

-------------------------------------------------------------------------------
(* Types.                                                                  *)

\* All but the history that Next adds to every step.
TableTypes ==
  /\ now \in Nat
  /\ session \in [Session -> SessionRow]
  /\ consent \in ConsentRow
  /\ disabled \in BOOLEAN
  /\ code \in [Code -> CodeRow]
  /\ refresh \in [Token -> TokenRow]
  /\ denied \subseteq Token
  /\ call \in [Refresher -> CallState]
  /\ web \in [WebUse -> WebState]
  /\ revoked \subseteq Token

LEMMA InitInv == Init => McpInv
<1> SUFFICES ASSUME Init PROVE McpInv
  OBVIOUS
<1>1. McpTypeOK
  BY EmptyRows DEF Init, McpTypeOK
<1>2. SessionBound /\ Origin /\ ChainBound /\ RevokedBound /\ RefusedBound
  BY DEF Init, SessionBound, Origin, Presents, ChainBound, RevokedBound, RefusedBound,
         NoSessionRow, NoConsent, NoCode, NoTokenRow, IdleCall, IdleWeb
<1> QED BY <1>1, <1>2 DEF McpInv

LEMMA SessionTypes ==
  ASSUME McpInv, SessionStep
  PROVE  TableTypes'
<1> USE Constants, EmptyRows DEF McpInv, TableTypes, McpTypeOK
<1>1. ASSUME NEW s \in Session, SignIn(s)
      PROVE  TableTypes'
  BY <1>1 DEF SignIn, McpTypeOK, SessionRow
<1>2. ASSUME NEW s \in Session, SignOut(s)
      PROVE  TableTypes'
  BY <1>2 DEF SignOut, McpTypeOK, SessionRow
<1>3. ASSUME NEW w \in WebUse, NEW s \in Session, WebRead(w, s)
      PROVE  TableTypes'
  BY <1>3, WebExpiryFacts DEF WebRead, McpTypeOK, WebState
<1>4. ASSUME NEW w \in WebUse, WebWrite(w)
      PROVE  TableTypes'
  BY <1>4 DEF WebWrite, McpTypeOK, WebState, SessionRow
<1> QED BY <1>1, <1>2, <1>3, <1>4 DEF SessionStep

LEMMA ConnectionTypes ==
  ASSUME McpInv, ConnectionStep
  PROVE  TableTypes'
<1> USE Constants, EmptyRows DEF McpInv, TableTypes, McpTypeOK
<1>1. ASSUME NEW s \in Session, NEW scopes \in SUBSET Scope, AcceptConsent(s, scopes)
      PROVE  TableTypes'
  BY <1>1 DEF AcceptConsent, McpTypeOK, ConsentRow
<1>2. ASSUME NEW c \in Code, NEW s \in Session, IssueCode(c, s)
      PROVE  TableTypes'
  BY <1>2 DEF IssueCode, McpTypeOK, CodeRow, ConsentRow
<1>3. ASSUME NEW r \in Refresher, NEW c \in Code, TakeCode(r, c)
      PROVE  TableTypes'
  BY <1>3 DEF TakeCode, McpTypeOK, CodeRow, CallState, NoCode, IdleCall
<1>4. ASSUME Disconnect
      PROVE  TableTypes'
  <2>1. consent' \in ConsentRow
    <3>1. consent' = [granted |-> FALSE, scopes |-> {}, createdAt |-> consent.createdAt,
                      again |-> now + 1, cut |-> now + 1]
      BY <1>4 DEF Disconnect, ConsentRow
    <3> QED BY <3>1 DEF ConsentRow
  <2> QED BY <1>4, <2>1, AllGoneFacts DEF Disconnect
<1>5. ASSUME SetDisabled
      PROVE  TableTypes'
  BY <1>5 DEF SetDisabled, McpTypeOK
<1>6. ASSUME DeleteConsent
      PROVE  TableTypes'
  <2>1. consent' \in ConsentRow
    <3>1. consent' = [granted |-> FALSE, scopes |-> {}, createdAt |-> consent.createdAt,
                      again |-> now + 1, cut |-> consent.cut]
      BY <1>6 DEF DeleteConsent, ConsentRow
    <3> QED BY <3>1 DEF ConsentRow
  <2>2. call' \in [Refresher -> CallState]
    BY <1>6, CallEdits DEF DeleteConsent
  <2> QED BY <1>6, <2>1, <2>2 DEF DeleteConsent
<1> QED BY <1>1, <1>2, <1>3, <1>4, <1>5, <1>6 DEF ConnectionStep

LEMMA RefreshTypes ==
  ASSUME McpInv, RefreshStep
  PROVE  TableTypes'
<1> USE Constants, EmptyRows DEF McpInv, TableTypes, McpTypeOK
<1>1. ASSUME NEW r \in Refresher, NEW t \in Token, Judge(r, t)
      PROVE  TableTypes'
  BY <1>1 DEF Judge, McpTypeOK, TokenRow, CallState
<1>2. ASSUME NEW r \in Refresher, NEW t \in Token, ProviderInsert(r, t)
      PROVE  TableTypes'
  BY <1>2 DEF ProviderInsert, McpTypeOK, TokenRow, CallState
<1>3. ASSUME NEW r \in Refresher, Extend(r)
      PROVE  TableTypes'
  <2>1. call[r].session \in Session
    BY <1>3 DEF Extend, Origin, Presents, McpTypeOK, TokenRow
  <2>2. Extendable(call[r].token, call[r].at) =>
          session[call[r].session].expiresAt <= session[call[r].session].createdAt + Cap
    BY <1>3, <2>1 DEF Extendable, SignedIn, SessionBound, Extend, Origin, Presents
  <2>3. Extendable(call[r].token, call[r].at) => Extended(call[r].session, call[r].at) \in Nat
    BY <2>1, <2>2, ExtendedFacts DEF CallState
  <2>4. session' \in [Session -> SessionRow]
    BY <1>3, <2>1, <2>3 DEF Extend, SessionRow
  <2>5. call' \in [Refresher -> CallState]
    BY <1>3, CallEdits DEF Extend
  <2> QED BY <1>3, <2>4, <2>5 DEF Extend
<1>4. ASSUME NEW r \in Refresher, Reread(r)
      PROVE  TableTypes'
  BY <1>4 DEF Reread, McpTypeOK, CallState
<1>5. ASSUME NEW r \in Refresher, ProviderRead(r)
      PROVE  TableTypes'
  <2>1. call' \in [Refresher -> CallState]
    BY <1>5, CallEdits DEF ProviderRead
  <2>2. refresh' \in [Token -> TokenRow]
    BY <1>5, AllGoneFacts DEF ProviderRead
  <2> QED BY <1>5, <2>1, <2>2 DEF ProviderRead
<1>6. ASSUME NEW r \in Refresher, ProviderRotate(r)
      PROVE  TableTypes'
  <2>1. call' \in [Refresher -> CallState]
    <3>1. call[r].at \in Nat
      BY DEF CallState
    <3>2. \A at \in call[r].at..now : at \in Nat
      BY <3>1
    <3>3. ASSUME NEW at \in call[r].at..now,
                 call' = [call EXCEPT ![r].stage = "minting", ![r].at = at]
          PROVE  call' \in [Refresher -> CallState]
      BY <3>2, <3>3, CallEdits
    <3>4. ASSUME call' = [call EXCEPT ![r].stage = "refused"]
          PROVE  call' \in [Refresher -> CallState]
      BY <3>4, CallEdits
    <3> QED BY <1>6, <3>3, <3>4 DEF ProviderRotate
  <2>2. refresh' \in [Token -> TokenRow]
    <3>1. CASE refresh' = [refresh EXCEPT ![call[r].token].state = "revoked"]
      BY <3>1 DEF TokenRow
    <3>2. CASE refresh' \in {refresh, AllGone}
      BY <3>2, AllGoneFacts
    <3> QED BY <1>6, <3>1, <3>2 DEF ProviderRotate
  <2> QED BY <1>6, <2>1, <2>2 DEF ProviderRotate
<1>7. ASSUME NEW r \in Refresher, CallEnds(r)
      PROVE  TableTypes'
  BY <1>7 DEF CallEnds, McpTypeOK, CallState
<1>8. ASSUME NEW t \in Token, RevokeAccess(t)
      PROVE  TableTypes'
  BY <1>8 DEF RevokeAccess, Swept, McpTypeOK
<1> QED BY <1>1, <1>2, <1>3, <1>4, <1>5, <1>6, <1>7, <1>8 DEF RefreshStep

LEMMA TypesKept == McpInv /\ Next => McpTypeOK'
<1> SUFFICES ASSUME McpInv, Next PROVE McpTypeOK'
  OBVIOUS
<1>1. steady' \in [Refresher -> BOOLEAN]
  BY DEF Next, Watch
<1>2. CASE SessionStep
  BY <1>1, <1>2, SessionTypes DEF McpTypeOK, TableTypes
<1>3. CASE ConnectionStep
  BY <1>1, <1>3, ConnectionTypes DEF McpTypeOK, TableTypes
<1>4. CASE RefreshStep
  BY <1>1, <1>4, RefreshTypes DEF McpTypeOK, TableTypes
<1>5. CASE Tick
  BY <1>1, <1>5 DEF Tick, McpInv, McpTypeOK, TableTypes
<1> QED BY <1>2, <1>3, <1>4, <1>5 DEF Next

-------------------------------------------------------------------------------
(* Steps.                                                                  *)

\* Which steps there are: those that leave tokens, consent and requests alone first.
LEMMA Steps ==
  ASSUME Next
  PROVE  \/ \E s \in Session : SignIn(s) \/ SignOut(s)
         \/ \E w \in WebUse, s \in Session : WebRead(w, s)
         \/ \E w \in WebUse : WebWrite(w)
         \/ \E c \in Code, s \in Session : IssueCode(c, s)
         \/ SetDisabled
         \/ Tick
         \/ \E s \in Session, scopes \in SUBSET Scope : AcceptConsent(s, scopes)
         \/ Disconnect
         \/ DeleteConsent
         \/ \E t \in Token : RevokeAccess(t)
         \/ \E r \in Refresher : Extend(r) \/ Reread(r) \/ CallEnds(r)
         \/ \E r \in Refresher : ProviderRead(r) \/ ProviderRotate(r)
         \/ \E r \in Refresher, c \in Code : TakeCode(r, c)
         \/ \E r \in Refresher, t \in Token : Judge(r, t)
         \/ \E r \in Refresher, t \in Token : ProviderInsert(r, t)
BY DEF Next, SessionStep, ConnectionStep, RefreshStep

\* A row that was inserted changes its state alone, and is not usable again.
LEMMA RowsKept ==
  ASSUME McpInv, Next, NEW t \in Token, refresh[t].state # "none"
  PROVE  /\ refresh'[t].session = refresh[t].session
         /\ refresh'[t].scopes = refresh[t].scopes
         /\ refresh'[t].issuedAt = refresh[t].issuedAt
         /\ refresh'[t].expiresAt = refresh[t].expiresAt
         /\ refresh'[t].since = refresh[t].since
         /\ refresh'[t].crossed = refresh[t].crossed
         /\ refresh'[t].state # "none"
         /\ refresh'[t].state = "live" => refresh[t].state = "live"
<1> USE DEF McpInv
<1>1. CASE refresh' = refresh
  BY <1>1
<1>2. CASE refresh' = AllGone
  BY <1>2, AllGoneFacts
<1>3. ASSUME NEW r \in Refresher, refresh' = [refresh EXCEPT ![call[r].token].state = "revoked"]
      PROVE  /\ refresh'[t] = refresh[t]
             \/ refresh'[t] = [refresh[t] EXCEPT !.state = "revoked"]
  BY <1>3 DEF McpTypeOK
<1>4. ASSUME NEW r \in Refresher, NEW n \in Token, ProviderInsert(r, n)
      PROVE  refresh'[t] = refresh[t]
  BY <1>4 DEF ProviderInsert, McpTypeOK
<1>5. \/ refresh' \in {refresh, AllGone}
      \/ \E r \in Refresher : refresh' = [refresh EXCEPT ![call[r].token].state = "revoked"]
      \/ \E r \in Refresher, n \in Token : ProviderInsert(r, n)
  BY Steps DEF SignIn, SignOut, WebRead, WebWrite, IssueCode, SetDisabled, Tick, AcceptConsent,
       Disconnect, DeleteConsent, RevokeAccess, Extend, Reread, CallEnds, ProviderRead, ProviderRotate,
       TakeCode, Judge
<1>6. refresh[t] \in TokenRow
  BY DEF McpTypeOK
<1> QED BY <1>1, <1>2, <1>3, <1>4, <1>5, <1>6 DEF TokenRow

LEMMA ClockRuns ==
  ASSUME McpInv, Next
  PROVE  now \in Nat /\ now' \in Nat /\ now <= now'
<1>1. now' \in {now, now + 1}
  BY Steps DEF SignIn, SignOut, WebRead, WebWrite, IssueCode, SetDisabled, Tick, AcceptConsent,
       Disconnect, DeleteConsent, RevokeAccess, Extend, Reread, CallEnds, ProviderRead, ProviderRotate,
       TakeCode, Judge, ProviderInsert
<1> QED BY <1>1 DEF McpInv, McpTypeOK

-------------------------------------------------------------------------------
(* The cap.                                                                *)

LEMMA SessionBoundKept == McpInv /\ Next => SessionBound'
<1> SUFFICES ASSUME McpInv, Next PROVE SessionBound'
  OBVIOUS
<1> USE DEF McpInv
<1>1. CASE UNCHANGED <<session, web>>
  BY <1>1 DEF SessionBound
<1>2. ASSUME NEW s \in Session, SignIn(s)
      PROVE  SessionBound'
  BY <1>2, Constants DEF SignIn, SessionBound, McpTypeOK
<1>3. ASSUME NEW s \in Session, SignOut(s)
      PROVE  SessionBound'
  BY <1>3 DEF SignOut, SessionBound, McpTypeOK, SessionRow
<1>4. ASSUME NEW w \in WebUse, NEW s \in Session, WebRead(w, s)
      PROVE  SessionBound'
  BY <1>4, WebExpiryFacts DEF WebRead, SignedIn, SessionBound, McpTypeOK
<1>5. ASSUME NEW w \in WebUse, WebWrite(w)
      PROVE  SessionBound'
  BY <1>5 DEF WebWrite, SessionBound, McpTypeOK, SessionRow, IdleWeb
<1>6. ASSUME NEW r \in Refresher, Extend(r)
      PROVE  SessionBound'
  <2> DEFINE s == call[r].session
             at == call[r].at
  <2>1. s \in Session /\ at \in Nat
    BY <1>6 DEF Extend, Origin, Presents, McpTypeOK, CallState
  <2>2. CASE session' = [session EXCEPT ![s].expiresAt = Extended(s, at)] /\ Extendable(call[r].token, call[r].at)
    <3>1. session[s].expiresAt <= session[s].createdAt + Cap
      BY <1>6, <2>1, <2>2 DEF Extendable, SignedIn, SessionBound, Extend, Origin, Presents
    <3>2. Extended(s, at) \in Nat /\ Extended(s, at) <= session[s].createdAt + Cap
      BY <2>1, <3>1, ExtendedFacts
    <3>3. web' = web
      BY <1>6 DEF Extend
    <3> QED BY <2>1, <2>2, <3>2, <3>3 DEF SessionBound, McpTypeOK, SessionRow
  <2> QED BY <1>1, <1>6, <2>2 DEF Extend
<1> QED BY <1>1, <1>2, <1>3, <1>4, <1>5, <1>6, Steps DEF IssueCode, SetDisabled, Tick,
      AcceptConsent, Disconnect, DeleteConsent, RevokeAccess, Reread, CallEnds, ProviderRead, ProviderRotate,
      TakeCode, Judge, ProviderInsert

-------------------------------------------------------------------------------
(* What rows and requests were made from.                                  *)

\* What Origin says of one request.
OriginOf(r) ==
  /\ call[r].stage = "minting" => call[r].session \in Session
  /\ call[r].stage \in {"minting", "judged", "read"} => call[r].at <= now
  /\ Presents(r) =>
       /\ call[r].token \in Token
       /\ refresh[call[r].token].state # "none"
       /\ call[r].session = refresh[call[r].token].session
       /\ call[r].scopes \subseteq refresh[call[r].token].scopes
  /\ call[r].stage \in {"judged", "unextended"} => Mcp \in refresh[call[r].token].scopes

\* A request is left alone, is marked, ends, or takes a step of its own.
LEMMA CallSteps ==
  ASSUME McpInv, Next, NEW r \in Refresher
  PROVE  \/ call'[r] = call[r]
         \/ DeleteConsent /\ call'[r] = [call[r] EXCEPT !.crossed = TRUE]
         \/ call'[r] = IdleCall
         \/ \E t \in Token : Judge(r, t)
         \/ \E c \in Code : TakeCode(r, c)
         \/ Extend(r) \/ Reread(r) \/ ProviderRead(r) \/ ProviderRotate(r)
<1> USE DEF McpInv
<1>1. CASE call' = call
  BY <1>1
<1>2. ASSUME NEW q \in Refresher, NEW t \in Token, Judge(q, t) \/ ProviderInsert(q, t)
      PROVE  call'[r] \in {call[r], IdleCall} \/ Judge(r, t)
  BY <1>2 DEF Judge, ProviderInsert, McpTypeOK
<1>3. ASSUME NEW q \in Refresher, NEW c \in Code, TakeCode(q, c)
      PROVE  call'[r] = call[r] \/ TakeCode(r, c)
  BY <1>3 DEF TakeCode, McpTypeOK
<1>4. ASSUME NEW q \in Refresher, CallEnds(q)
      PROVE  call'[r] \in {call[r], IdleCall}
  BY <1>4 DEF CallEnds, McpTypeOK
<1>5. ASSUME NEW q \in Refresher, Extend(q) \/ Reread(q)
      PROVE  call'[r] = call[r] \/ Extend(r) \/ Reread(r)
  BY <1>5 DEF Extend, Reread, McpTypeOK
<1>6. ASSUME NEW q \in Refresher, ProviderRead(q) \/ ProviderRotate(q)
      PROVE  call'[r] = call[r] \/ ProviderRead(r) \/ ProviderRotate(r)
  BY <1>6 DEF ProviderRead, ProviderRotate, McpTypeOK
<1>7. ASSUME DeleteConsent
      PROVE  call'[r] \in {call[r], [call[r] EXCEPT !.crossed = TRUE]}
  BY <1>7 DEF DeleteConsent
<1> QED BY <1>1, <1>2, <1>3, <1>4, <1>5, <1>6, <1>7, Steps DEF SignIn, SignOut, WebRead,
      WebWrite, IssueCode, SetDisabled, Tick, AcceptConsent, Disconnect, RevokeAccess

LEMMA OriginOfKept ==
  ASSUME McpInv, Next, NEW r \in Refresher,
         call'[r] \in {call[r], [call[r] EXCEPT !.crossed = TRUE]}
  PROVE  OriginOf(r)'
<1> USE DEF McpInv
<1>1. now \in Nat /\ now' \in Nat /\ now <= now'
  BY ClockRuns
<1> USE DEF CallState
<1>6. /\ call'[r].stage = call[r].stage /\ call'[r].token = call[r].token
      /\ call'[r].session = call[r].session /\ call'[r].scopes = call[r].scopes
      /\ call'[r].at = call[r].at
  BY DEF McpTypeOK
<1>2. call[r].stage \in {"minting", "judged", "read"} => call[r].at <= now'
  BY <1>1 DEF Origin, McpTypeOK, CallState
<1>3. Presents(r) =>
        /\ call[r].token \in Token
        /\ refresh'[call[r].token].state # "none"
        /\ call[r].session = refresh'[call[r].token].session
        /\ call[r].scopes \subseteq refresh'[call[r].token].scopes
  BY RowsKept DEF Origin
<1>4. call[r].stage \in {"judged", "unextended"} => Mcp \in refresh'[call[r].token].scopes
  BY RowsKept DEF Origin, Presents
<1> QED BY <1>2, <1>3, <1>4, <1>6 DEF OriginOf, Presents, Origin

LEMMA OriginOfNext ==
  ASSUME McpInv, Next, NEW r \in Refresher
  PROVE  OriginOf(r)'
<1> USE DEF McpInv
<1>1. CASE call'[r] = call[r]
  BY <1>1, OriginOfKept
<1>7. CASE call'[r] = [call[r] EXCEPT !.crossed = TRUE]
  BY <1>7, OriginOfKept
<1>2. CASE call'[r].stage \in {"idle", "refused"}
  BY <1>2 DEF OriginOf, Presents
<1>3. ASSUME NEW t \in Token, Judge(r, t)
      PROVE  OriginOf(r)'
  BY <1>3 DEF Judge, OriginOf, Presents, McpTypeOK
<1>4. ASSUME NEW c \in Code, TakeCode(r, c)
      PROVE  OriginOf(r)'
  <2>1. code[c].session \in Session /\ now \in Nat
    BY <1>4 DEF TakeCode, Origin, McpTypeOK
  <2>2. \/ call'[r].stage = "refused"
        \/ call'[r].stage = "minting" /\ call'[r].session = code[c].session /\ call'[r].at = now
    BY <1>4 DEF TakeCode, McpTypeOK, IdleCall
  <2>3. now' = now
    BY <1>4 DEF TakeCode
  <2> QED BY <2>1, <2>2, <2>3 DEF OriginOf, Presents
<1>5. CASE Extend(r) \/ Reread(r) \/ ProviderRead(r)
  <2>1. /\ call'[r].stage \in {"unextended", "passed", "read", "refused"}
        /\ call'[r].token = call[r].token /\ call'[r].session = call[r].session
        /\ call'[r].scopes = call[r].scopes
        /\ call'[r].stage = "unextended" => call[r].stage = "judged"
        /\ call'[r].stage = "read" => call'[r].at = now
        /\ now' = now
    BY <1>5 DEF Extend, Reread, ProviderRead, McpTypeOK, CallState
  <2>2. Presents(r)
    BY <1>5 DEF Extend, Reread, ProviderRead, Presents
  <2>3. /\ call[r].token \in Token
        /\ refresh'[call[r].token].state # "none"
        /\ call[r].session = refresh'[call[r].token].session
        /\ call[r].scopes \subseteq refresh'[call[r].token].scopes
        /\ refresh'[call[r].token].scopes = refresh[call[r].token].scopes
    BY <2>2, RowsKept DEF Origin
  <2>4. now \in Nat
    BY DEF McpTypeOK
  <2> QED BY <2>1, <2>3, <2>4 DEF OriginOf, Presents, Origin
<1>6. CASE ProviderRotate(r)
  <2>1. call[r].stage = "read" /\ now' = now
    BY <1>6 DEF ProviderRotate
  <2>2. call[r].session \in Session /\ call[r].at \in Nat /\ now \in Nat /\ call[r].at <= now
    BY <2>1 DEF Origin, Presents, McpTypeOK, CallState
  <2>3. PICK at \in call[r].at..now :
          \/ call'[r].stage = "refused"
          \/ /\ call'[r].stage = "minting" /\ call'[r].at = at
             /\ call'[r].session = call[r].session
    <3>1. call[r].at \in call[r].at..now
      BY <2>2
    <3> QED BY <1>6, <3>1 DEF ProviderRotate, McpTypeOK, CallState
  <2>4. at <= now
    BY <2>2
  <2> QED BY <2>1, <2>2, <2>3, <2>4 DEF OriginOf, Presents
<1>8. CASE call'[r] = IdleCall
  BY <1>2, <1>8 DEF IdleCall
<1> QED BY <1>1, <1>3, <1>4, <1>5, <1>6, <1>7, <1>8, CallSteps

\* What a consent may become.
LEMMA ConsentSteps ==
  ASSUME McpInv, Next
  PROVE  \/ consent'.granted = consent.granted /\ consent'.createdAt = consent.createdAt
            /\ consent'.again = consent.again /\ consent'.cut = consent.cut
         \/ /\ ~ consent.granted /\ now >= consent.again /\ now' = now
            /\ consent'.granted /\ consent'.createdAt = now
            /\ consent'.again = consent.again /\ consent'.cut = consent.cut
         \/ /\ ~ consent'.granted /\ consent'.again = now + 1 /\ consent'.cut = now + 1
            /\ refresh' = AllGone
         \/ /\ DeleteConsent /\ consent.granted /\ ~ consent'.granted
            /\ consent'.again = now + 1 /\ consent'.cut = consent.cut
<1> USE DEF McpInv, McpTypeOK, ConsentRow
<1>1. ASSUME NEW s \in Session, NEW scopes \in SUBSET Scope, AcceptConsent(s, scopes)
      PROVE  \/ consent'.granted = consent.granted /\ consent'.createdAt = consent.createdAt
                /\ consent'.again = consent.again /\ consent'.cut = consent.cut
             \/ /\ ~ consent.granted /\ now >= consent.again /\ now' = now
                /\ consent'.granted /\ consent'.createdAt = now
                /\ consent'.again = consent.again /\ consent'.cut = consent.cut
  BY <1>1 DEF AcceptConsent
<1>2. CASE Disconnect
  <2>1. consent' = [granted |-> FALSE, scopes |-> {}, createdAt |-> consent.createdAt,
                    again |-> now + 1, cut |-> now + 1]
    BY <1>2 DEF Disconnect
  <2> QED BY <1>2, <2>1 DEF Disconnect
<1>3. CASE DeleteConsent
  <2>1. consent' = [granted |-> FALSE, scopes |-> {}, createdAt |-> consent.createdAt,
                    again |-> now + 1, cut |-> consent.cut]
    BY <1>3 DEF DeleteConsent
  <2> QED BY <1>3, <2>1 DEF DeleteConsent
<1> QED BY <1>1, <1>2, <1>3, Steps DEF SignIn, SignOut, WebRead, WebWrite, IssueCode, SetDisabled,
      Tick, RevokeAccess, Extend, Reread, CallEnds, ProviderRead, ProviderRotate, TakeCode, Judge,
      ProviderInsert

LEMMA OriginKept == McpInv /\ Next => Origin'
<1> SUFFICES ASSUME McpInv, Next PROVE Origin'
  OBVIOUS
<1> USE DEF McpInv
<1>1. now \in Nat /\ now' \in Nat /\ now <= now'
  BY ClockRuns
<1>2. ASSUME NEW c \in Code, code'[c].state = "live"
      PROVE  code'[c].session \in Session
  <2>1. ASSUME NEW n \in Code, NEW s \in Session, IssueCode(n, s)
        PROVE  code'[c] = code[c] \/ code'[c].session \in Session
    BY <2>1 DEF IssueCode, McpTypeOK
  <2>2. ASSUME NEW r \in Refresher, NEW n \in Code, TakeCode(r, n)
        PROVE  code'[c] = code[c] \/ code'[c].state = "spent"
    BY <2>2 DEF TakeCode, McpTypeOK, NoCode
  <2>3. \/ code' = code
        \/ \E n \in Code, s \in Session : IssueCode(n, s)
        \/ \E r \in Refresher, n \in Code : TakeCode(r, n)
    BY Steps DEF SignIn, SignOut, WebRead, WebWrite, SetDisabled, Tick, AcceptConsent,
         Disconnect, DeleteConsent, RevokeAccess, Extend, Reread, CallEnds, ProviderRead, ProviderRotate,
         Judge, ProviderInsert
  <2> QED BY <1>2, <2>1, <2>2, <2>3 DEF Origin
<1>3. ASSUME NEW t \in Token, refresh'[t].state # "none"
      PROVE  refresh'[t].session \in Session /\ refresh'[t].issuedAt <= now'
  <2>1. CASE refresh[t].state # "none"
    BY <1>1, <2>1, RowsKept DEF Origin, McpTypeOK, TokenRow
  <2>2. CASE \E r \in Refresher, n \in Token : ProviderInsert(r, n)
    <3>1. PICK r \in Refresher, n \in Token : ProviderInsert(r, n)
      BY <2>2
    <3>2. call[r].session \in Session /\ call[r].at <= now
      BY <3>1 DEF ProviderInsert, Origin
    <3> QED BY <1>3, <2>1, <3>1, <3>2 DEF ProviderInsert, McpTypeOK
  <2>3. CASE refresh' \in {refresh, AllGone}
    BY <1>3, <2>1, <2>3, AllGoneFacts
  <2>4. CASE \E r \in Refresher : ProviderRotate(r) \/ ProviderRead(r)
    <3>1. PICK r \in Refresher : ProviderRotate(r) \/ ProviderRead(r)
      BY <2>4
    <3>2. call[r].token \in Token /\ refresh[call[r].token].state # "none"
      BY <3>1 DEF ProviderRotate, ProviderRead, Origin, Presents
    <3> QED BY <1>3, <2>1, <3>1, <3>2, AllGoneFacts DEF ProviderRotate, ProviderRead, McpTypeOK
  <2>5. \/ refresh' \in {refresh, AllGone}
        \/ \E r \in Refresher : ProviderRotate(r) \/ ProviderRead(r)
        \/ \E r \in Refresher, n \in Token : ProviderInsert(r, n)
    BY Steps DEF SignIn, SignOut, WebRead, WebWrite, IssueCode, SetDisabled, Tick, AcceptConsent,
         Disconnect, DeleteConsent, RevokeAccess, Extend, Reread, CallEnds, TakeCode, Judge
  <2> QED BY <2>2, <2>3, <2>4, <2>5
<1>4. /\ consent'.cut <= consent'.again
      /\ consent'.granted => consent'.cut <= consent'.createdAt /\ consent'.createdAt <= now'
  BY <1>1, ConsentSteps DEF Origin, McpTypeOK, ConsentRow
<1>5. ASSUME NEW r \in Refresher
      PROVE  OriginOf(r)'
  BY OriginOfNext
<1> QED BY <1>2, <1>3, <1>4, <1>5 DEF Origin, OriginOf, Presents

-------------------------------------------------------------------------------
(* Chains and consents.                                                    *)

LEMMA FreshKept ==
  ASSUME McpInv, Next, NEW at \in Nat, NEW since \in Nat,
         NEW crossed \in BOOLEAN, at <= now, Fresh(at, since, crossed)
  PROVE  Fresh(at, since, crossed)'
BY ConsentSteps DEF McpInv, McpTypeOK, ConsentRow, Origin, Fresh

LEMMA TokenChainsKept ==
  ASSUME McpInv, Next, NEW t \in Token, refresh'[t].state # "none", Mcp \in refresh'[t].scopes
  PROVE  Fresh(refresh[t].issuedAt, refresh[t].since, refresh[t].crossed)'
<1> USE DEF McpInv
<1>1. CASE refresh[t].state # "none"
  <2>1. /\ refresh'[t].issuedAt = refresh[t].issuedAt /\ refresh'[t].since = refresh[t].since
        /\ refresh'[t].crossed = refresh[t].crossed /\ refresh'[t].scopes = refresh[t].scopes
    BY <1>1, RowsKept
  <2>2. PICK at, since, crossed :
          at = refresh[t].issuedAt /\ since = refresh[t].since /\ crossed = refresh[t].crossed
    OBVIOUS
  <2>3. /\ at \in Nat /\ since \in Nat /\ crossed \in BOOLEAN
        /\ at <= now /\ Fresh(at, since, crossed)
    BY <1>1, <2>1, <2>2 DEF ChainBound, Origin, McpTypeOK, TokenRow
  <2>4. Fresh(at, since, crossed)'
    BY <2>3, FreshKept
  <2> QED BY <2>1, <2>2, <2>4 DEF Fresh
<1>2. ASSUME NEW r \in Refresher, ProviderInsert(r, t)
      PROVE  Fresh(refresh[t].issuedAt, refresh[t].since, refresh[t].crossed)'
  <2>1. /\ refresh'[t].issuedAt = call[r].at /\ refresh'[t].since = call[r].since
        /\ refresh'[t].crossed = call[r].crossed /\ refresh'[t].scopes = call[r].scopes
        /\ call[r].stage = "minting" /\ consent' = consent
    BY <1>2 DEF ProviderInsert, McpTypeOK
  <2>2. Fresh(call[r].at, call[r].since, call[r].crossed)
    BY <2>1 DEF ChainBound
  <2> QED BY <2>1, <2>2 DEF Fresh
<1>3. refresh[t].state # "none" \/ \E r \in Refresher : ProviderInsert(r, t)
  <2>1. ASSUME NEW r \in Refresher, NEW n \in Token, ProviderInsert(r, n), n # t
        PROVE  refresh'[t] = refresh[t]
    BY <2>1 DEF ProviderInsert, McpTypeOK
  <2>2. ASSUME NEW r \in Refresher, ProviderRead(r) \/ ProviderRotate(r)
        PROVE  refresh[t].state # "none"
    <3>1. call[r].token \in Token /\ refresh[call[r].token].state # "none"
      BY <2>2 DEF ProviderRead, ProviderRotate, Origin, Presents
    <3> QED BY <2>2, <3>1, AllGoneFacts DEF ProviderRead, ProviderRotate, McpTypeOK
  <2>3. CASE Disconnect
    BY <2>3, AllGoneFacts DEF Disconnect
  <2> QED BY <2>1, <2>2, <2>3, Steps DEF SignIn, SignOut, WebRead, WebWrite, IssueCode,
        SetDisabled, Tick, AcceptConsent, DeleteConsent, RevokeAccess, Extend, Reread, CallEnds,
        TakeCode, Judge
<1> QED BY <1>1, <1>2, <1>3

\* A row that is usable after a step was so before.
LEMMA UsableKept ==
  ASSUME McpInv, Next, NEW t \in Token, refresh[t].state # "none", Usable(t)'
  PROVE  Usable(t)
BY RowsKept, ClockRuns DEF McpInv, McpTypeOK, TokenRow, Usable

\* What ChainBound says of one request.
Current(r) ==
  /\ call[r].stage = "minting" => Fresh(call[r].at, call[r].since, call[r].crossed)
  /\ call[r].stage \in {"judged", "passed"} /\ Usable(call[r].token)
       => OfConsent(call[r].since, call[r].crossed)
  /\ call[r].stage = "read" /\ refresh[call[r].token].state = "live"
       => OfConsent(call[r].since, call[r].crossed)

\* As long as a row is live, a chain that was of a consent is so still.
LEMMA OfConsentKept ==
  ASSUME McpInv, Next, ~ DeleteConsent, NEW t \in Token, refresh'[t].state = "live",
         NEW since \in Nat, NEW crossed \in BOOLEAN, OfConsent(since, crossed)
  PROVE  OfConsent(since, crossed)'
<1>1. refresh' # AllGone
  BY AllGoneFacts DEF McpInv
<1>2. /\ consent'.cut = consent.cut
      /\ consent.granted => consent'.granted /\ consent'.createdAt = consent.createdAt
  BY <1>1, ConsentSteps
<1> QED BY <1>2 DEF OfConsent

LEMMA MarkedKept ==
  ASSUME McpInv, DeleteConsent, Next, NEW r \in Refresher, Current(r)
  PROVE  Current(r)'
<1> USE DEF McpInv
<1>1. CASE call[r].stage = "idle"
  BY <1>1 DEF DeleteConsent, Current
<1>2. CASE call[r].stage # "idle"
  <2>1. call'[r] = [call[r] EXCEPT !.crossed = TRUE]
    BY <1>2 DEF DeleteConsent
  <2>2. /\ call'[r].stage = call[r].stage /\ call'[r].token = call[r].token
        /\ call'[r].at = call[r].at /\ call'[r].since = call[r].since
        /\ call'[r].crossed = TRUE
    BY <2>1 DEF McpTypeOK, CallState
  <2>3. refresh' = refresh /\ now' = now /\ consent'.cut = consent.cut
    BY DEF DeleteConsent, McpTypeOK, ConsentRow
  <2>4. call[r].stage = "minting" => Fresh(call[r].at, call[r].since, call[r].crossed)'
    BY <2>2, <2>3 DEF Current, Fresh
  <2>5. OfConsent(call[r].since, call[r].crossed) => OfConsent(call[r].since, call[r].crossed)'
    BY <2>2, <2>3 DEF OfConsent
  <2> QED BY <2>2, <2>3, <2>4, <2>5 DEF Current, Usable
<1> QED BY <1>1, <1>2

LEMMA CurrentLeftAlone ==
  ASSUME McpInv, Next, NEW r \in Refresher, ~ DeleteConsent, Current(r),
         call'[r] = call[r]
  PROVE  Current(r)'
<1> USE DEF McpInv
<1>1. call[r].stage = "minting" => Fresh(call[r].at, call[r].since, call[r].crossed)'
  <2> SUFFICES ASSUME call[r].stage = "minting" PROVE Fresh(call[r].at, call[r].since, call[r].crossed)'
    OBVIOUS
  <2>1. PICK at, since, crossed :
          at = call[r].at /\ since = call[r].since /\ crossed = call[r].crossed
    OBVIOUS
  <2>2. /\ at \in Nat /\ since \in Nat /\ crossed \in BOOLEAN
        /\ at <= now /\ Fresh(at, since, crossed)
    BY <2>1 DEF Current, Origin, McpTypeOK, CallState
  <2>3. Fresh(at, since, crossed)'
    BY <2>2, FreshKept
  <2> QED BY <2>1, <2>3 DEF Fresh
<1>2. Presents(r) => call[r].token \in Token /\ refresh[call[r].token].state # "none"
  BY DEF Origin
<1>3. call[r].since \in Nat /\ call[r].crossed \in BOOLEAN
  BY DEF McpTypeOK, CallState
<1>4. ASSUME Presents(r), refresh'[call[r].token].state = "live",
             OfConsent(call[r].since, call[r].crossed)
      PROVE  OfConsent(call[r].since, call[r].crossed)'
  <2>1. PICK since, crossed : since = call[r].since /\ crossed = call[r].crossed
    OBVIOUS
  <2>2. OfConsent(since, crossed)'
    BY <1>2, <1>3, <1>4, <2>1, OfConsentKept
  <2> QED BY <2>1, <2>2 DEF OfConsent
<1>5. call[r].stage \in {"judged", "passed"} /\ Usable(call[r].token)'
        => OfConsent(call[r].since, call[r].crossed)'
  BY <1>2, <1>4, UsableKept DEF Current, Presents, Usable
<1>6. call[r].stage = "read" /\ refresh'[call[r].token].state = "live"
        => OfConsent(call[r].since, call[r].crossed)'
  BY <1>2, <1>4, RowsKept DEF Current, Presents
<1> QED BY <1>1, <1>5, <1>6 DEF Current, Usable, Fresh, OfConsent

LEMMA CurrentKept ==
  ASSUME McpInv, Next, NEW r \in Refresher, Mcp \in call'[r].scopes
  PROVE  Current(r)'
<1> USE DEF McpInv
<1>8. CASE DeleteConsent
  <2>1. call'[r].scopes = call[r].scopes
    BY <1>8 DEF DeleteConsent, McpTypeOK, CallState
  <2> QED BY <1>8, <2>1, MarkedKept DEF Current, ChainBound
<1>1. CASE call'[r] = call[r] /\ ~ DeleteConsent
  BY <1>1, CurrentLeftAlone DEF Current, ChainBound
<1>2. CASE call'[r].stage \in {"idle", "refused", "unextended"}
  BY <1>2 DEF Current
<1>3. ASSUME NEW t \in Token, Judge(r, t)
      PROVE  Current(r)'
  <2>1. /\ call'[r].token = t /\ call'[r].since = refresh[t].since
        /\ call'[r].crossed = refresh[t].crossed /\ call'[r].scopes \subseteq refresh[t].scopes
        /\ refresh[t].state # "none"
        /\ UNCHANGED <<now, consent, refresh>>
        /\ \/ call'[r].stage = "passed" /\ (~ Usable(t) \/ Mcp \notin refresh[t].scopes)
           \/ /\ call'[r].stage = "judged"
              /\ consent.granted /\ refresh[t].issuedAt >= consent.createdAt
           \/ call'[r].stage = "refused"
    BY <1>3 DEF Judge, Stands, McpTypeOK
  <2>2. Mcp \in refresh[t].scopes
    BY <2>1
  <2>3. Fresh(refresh[t].issuedAt, refresh[t].since, refresh[t].crossed)
    BY <2>1, <2>2 DEF ChainBound
  <2>4. /\ refresh[t].issuedAt \in Nat /\ refresh[t].since \in Nat
        /\ consent.createdAt \in Nat /\ consent.cut \in Nat
        /\ consent.granted => consent.cut <= consent.createdAt
    BY DEF McpTypeOK, TokenRow, ConsentRow, Origin
  <2>5. call'[r].stage = "judged" => OfConsent(refresh[t].since, refresh[t].crossed)
    <3>1. call'[r].stage = "judged" => refresh[t].since >= consent.cut
      BY <2>1, <2>3, <2>4 DEF Fresh
    <3>2. call'[r].stage = "judged" =>
            refresh[t].crossed \/ (consent.granted /\ refresh[t].since >= consent.createdAt)
      <4>1. consent.granted =>
              refresh[t].crossed \/ refresh[t].since >= consent.createdAt
                \/ refresh[t].issuedAt < consent.createdAt
        BY <2>3 DEF Fresh
      <4>2. call'[r].stage = "judged" =>
              consent.granted /\ ~ (refresh[t].issuedAt < consent.createdAt)
        BY <2>1, <2>4
      <4> QED BY <4>1, <4>2
    <3> QED BY <3>1, <3>2 DEF OfConsent
  <2> QED BY <2>1, <2>2, <2>5 DEF Current, Usable, OfConsent
<1>4. ASSUME NEW c \in Code, TakeCode(r, c)
      PROVE  Current(r)'
  <2>1. \/ call'[r].stage = "refused"
        \/ call'[r].stage = "minting" /\ call'[r].at = now /\ call'[r].since = now
    BY <1>4 DEF TakeCode, McpTypeOK, IdleCall
  <2>2. consent' = consent
    BY <1>4 DEF TakeCode
  <2>3. consent.granted => now >= consent.createdAt
    BY DEF Origin, McpTypeOK, ConsentRow
  <2>4. now \in Nat /\ consent.cut \in Nat /\ consent.again \in Nat
    BY DEF McpTypeOK, ConsentRow
  <2> QED BY <2>1, <2>2, <2>3, <2>4 DEF Current, Fresh
<1>5. CASE Extend(r) \/ Reread(r) \/ ProviderRead(r)
  <2>1. /\ call'[r].token = call[r].token /\ call'[r].scopes = call[r].scopes
        /\ call'[r].since = call[r].since /\ call'[r].crossed = call[r].crossed
        /\ UNCHANGED <<now, consent>>
    BY <1>5 DEF Extend, Reread, ProviderRead, McpTypeOK, CallState
  <2>2. \/ call'[r].stage \in {"unextended", "refused"}
        \/ /\ call[r].stage = "judged" /\ call'[r].stage = "passed" /\ refresh' = refresh
        \/ /\ call'[r].stage = "passed" /\ refresh' = refresh
           /\ refresh[call[r].token].state = "revoked"
        \/ call[r].stage = "passed" /\ call'[r].stage = "read" /\ Usable(call[r].token)
    BY <1>5 DEF Extend, Reread, ProviderRead, McpTypeOK, CallState
  <2>3. Current(r)
    BY <2>1 DEF ChainBound, Current
  <2> QED BY <2>1, <2>2, <2>3 DEF Current, Usable, OfConsent
<1>6. CASE ProviderRotate(r)
  <2>1. /\ call[r].stage = "read" /\ now' = now /\ consent' = consent
        /\ call'[r].scopes = call[r].scopes /\ call'[r].since = call[r].since
        /\ call'[r].crossed = call[r].crossed
        /\ \/ call'[r].stage = "refused"
           \/ call'[r].stage = "minting" /\ refresh[call[r].token].state = "live"
    BY <1>6 DEF ProviderRotate, McpTypeOK, CallState
  <2>2. call'[r].stage = "minting" => OfConsent(call[r].since, call[r].crossed)
    BY <2>1 DEF ChainBound
  <2> QED BY <2>1, <2>2 DEF Current, Fresh, OfConsent
<1>7. call'[r] # IdleCall
  BY DEF IdleCall
<1> QED BY <1>1, <1>3, <1>4, <1>5, <1>6, <1>7, <1>8, CallSteps DEF IdleCall

LEMMA ChainBoundKept == McpInv /\ Next => ChainBound'
<1> SUFFICES ASSUME McpInv, Next PROVE ChainBound'
  OBVIOUS
<1>1. ASSUME NEW t \in Token, refresh'[t].state # "none", Mcp \in refresh'[t].scopes
      PROVE  Fresh(refresh[t].issuedAt, refresh[t].since, refresh[t].crossed)'
  BY <1>1, TokenChainsKept
<1>2. ASSUME NEW r \in Refresher, Mcp \in call'[r].scopes
      PROVE  Current(r)'
  BY <1>2, CurrentKept
<1> QED BY <1>1, <1>2 DEF ChainBound, Current, OfConsent, Fresh

-------------------------------------------------------------------------------
(* Revoked access tokens and refused requests.                             *)

LEMMA RevokedBoundKept == McpInv /\ Next => RevokedBound'
<1> SUFFICES ASSUME McpInv, Next, NEW t \in revoked'
             PROVE  /\ t \in Token /\ refresh'[t].state # "none"
                    /\ t \in denied' \/ refresh'[t].issuedAt + AccessTtl <= now'
  BY DEF RevokedBound, Expired
<1> USE DEF McpInv
<1>1. ASSUME NEW n \in Token, RevokeAccess(n)
      PROVE  /\ t \in Token /\ refresh'[t].state # "none"
             /\ t \in denied' \/ refresh'[t].issuedAt + AccessTtl <= now'
  BY <1>1 DEF RevokeAccess, Swept, RevokedBound, Expired
<1>2. CASE revoked' = revoked /\ denied' = denied
  <2>1. t \in Token /\ refresh[t].state # "none" /\ (t \in denied \/ Expired(t))
    BY <1>2 DEF RevokedBound
  <2>2. refresh'[t].issuedAt = refresh[t].issuedAt /\ refresh'[t].state # "none"
    BY <2>1, RowsKept
  <2>3. now \in Nat /\ now' \in Nat /\ now <= now' /\ refresh[t].issuedAt + AccessTtl \in Nat
    BY <2>1, ClockRuns, Constants DEF McpTypeOK, TokenRow
  <2> QED BY <1>2, <2>1, <2>2, <2>3 DEF Expired
<1> QED BY <1>1, <1>2, Steps DEF SignIn, SignOut, WebRead, WebWrite, IssueCode, SetDisabled, Tick,
      AcceptConsent, Disconnect, DeleteConsent, Extend, Reread, CallEnds, ProviderRead,
      ProviderRotate, TakeCode, Judge, ProviderInsert

\* A request that is refused in this step did not stand after it.
LEMMA RefusedNotStanding ==
  ASSUME McpInv, Next, NEW r \in Refresher, call'[r] # call[r],
         call'[r].stage \in {"unextended", "refused"}
  PROVE  ~ Standing(r)' \/ ~ (call[r].stage = "idle" \/ steady[r])
<1> USE DEF McpInv
<1>1. ASSUME NEW t \in Token, Judge(r, t)
      PROVE  ~ Standing(r)'
  <2>1. /\ call'[r].token = t /\ call'[r].session = refresh[t].session
        /\ UNCHANGED <<now, session, consent, disabled, refresh>>
        /\ call'[r].stage = "refused"
        /\ ~ Stands(refresh[t].session, call'[r].scopes, refresh[t].issuedAt)
    BY <1>1 DEF Judge, McpTypeOK
  <2> QED BY <2>1 DEF Standing, Stands, SignedIn
<1>2. ASSUME NEW c \in Code, TakeCode(r, c)
      PROVE  ~ Standing(r)'
  BY <1>2 DEF TakeCode, Standing, McpTypeOK, IdleCall
<1>3. CASE Extend(r)
  <2>1. /\ call'[r].token = call[r].token /\ call'[r].session = call[r].session
        /\ call'[r].stage = "unextended" /\ call[r].stage = "judged"
        /\ ~ Extendable(call[r].token, call[r].at)
        /\ UNCHANGED <<now, session, consent, disabled, refresh>>
    BY <1>3 DEF Extend, McpTypeOK, CallState
  <2>2. /\ call[r].session = refresh[call[r].token].session /\ call[r].token \in Token
        /\ call[r].session \in Session /\ Mcp \in refresh[call[r].token].scopes
    BY <2>1 DEF Origin, Presents
  <2>3. call[r].at \in Nat /\ now \in Nat /\ call[r].at <= now
    BY <2>1 DEF Origin, McpTypeOK, CallState
  <2>4. SignedIn(call[r].session) =>
          /\ session[call[r].session].createdAt + Cap > call[r].at
          /\ session[call[r].session].expiresAt > call[r].at
    BY <2>2, <2>3, Constants DEF SignedIn, SessionBound, McpTypeOK, SessionRow
  <2>5. Usable(call[r].token) => refresh[call[r].token].expiresAt > call[r].at
    BY <2>2, <2>3 DEF Usable, McpTypeOK, TokenRow
  <2> QED BY <2>1, <2>2, <2>4, <2>5 DEF Standing, Extendable, SignedIn, Usable
<1>4. CASE Reread(r)
  BY <1>4 DEF Reread, RefusedBound
<1>5. CASE ProviderRead(r) \/ ProviderRotate(r)
  <2>1. call[r].token \in Token /\ refresh[call[r].token] \in TokenRow
    BY <1>5 DEF ProviderRead, ProviderRotate, Origin, Presents, McpTypeOK
  <2>2. call'[r].token = call[r].token /\ call'[r].stage = "refused" /\ now' = now
    BY <1>5 DEF ProviderRead, ProviderRotate, McpTypeOK, CallState
  <2>3. refresh' = AllGone \/ (refresh' = refresh /\ ~ Usable(call[r].token))
    BY <1>5, <2>2 DEF ProviderRead, ProviderRotate, Usable, McpTypeOK, CallState
  <2> QED BY <2>1, <2>2, <2>3, AllGoneFacts DEF Standing, Usable
<1>6. CASE call'[r] = [call[r] EXCEPT !.crossed = TRUE]
  <2>1. call'[r].stage = call[r].stage
    BY <1>6 DEF McpTypeOK, CallState
  <2> QED BY <2>1 DEF RefusedBound
<1> QED BY <1>1, <1>2, <1>3, <1>4, <1>5, <1>6, CallSteps DEF IdleCall

LEMMA RefusedBoundKept == McpInv /\ Next => RefusedBound'
<1> SUFFICES ASSUME McpInv, Next, NEW r \in Refresher,
                    call'[r].stage \in {"unextended", "refused"}
             PROVE  ~ steady'[r]
  BY DEF RefusedBound
<1>1. steady'[r] <=> Standing(r)' /\ (call[r].stage = "idle" \/ steady[r])
  BY DEF Next, Watch
<1>2. CASE call'[r] = call[r]
  BY <1>1, <1>2 DEF McpInv, RefusedBound
<1>3. CASE call'[r] # call[r]
  BY <1>1, <1>3, RefusedNotStanding
<1> QED BY <1>2, <1>3

-------------------------------------------------------------------------------
(* Theorems.                                                               *)

\* The strengthening of the properties below is an invariant of the whole connection.
THEOREM McpInvariant == Spec => []McpInv
<1>1. McpInv /\ [Next]_vars => McpInv'
  <2> SUFFICES ASSUME McpInv, [Next]_vars PROVE McpInv'
    OBVIOUS
  <2>1. CASE Next
    BY <2>1, TypesKept, SessionBoundKept, OriginKept, ChainBoundKept, RevokedBoundKept,
       RefusedBoundKept DEF McpInv
  <2>2. CASE UNCHANGED vars
    BY <2>2 DEF vars, McpInv, McpTypeOK, SessionBound, Origin, Presents, ChainBound, Fresh,
       OfConsent, Usable, RevokedBound, Expired, RefusedBound
  <2> QED BY <2>1, <2>2
<1> QED BY InitInv, <1>1, PTL DEF Spec

\* Types of the tables, requests and histories of a connection.
THEOREM McpTypes == Spec => []McpTypeOK
<1>1. McpInv => McpTypeOK
  BY DEF McpInv
<1> QED BY McpInvariant, <1>1, PTL

\* Whoever renews a session, and however renewals interleave, it ends at its cap, and every
\* MCP token of it with it.
THEOREM SessionsEndAtCap == Spec => []SessionWithinCap
<1>1. McpInv => SessionWithinCap
  <2> SUFFICES ASSUME McpInv, NEW t \in Token, ActiveAccess(t)
               PROVE  now < session[refresh[t].session].createdAt + Cap
    BY DEF SessionWithinCap, McpInv, SessionBound
  <2>1. refresh[t].session \in Session /\ SignedIn(refresh[t].session)
    BY DEF ActiveAccess, Stands, McpInv, Origin
  <2> QED BY <2>1, Constants DEF SignedIn, McpInv, SessionBound, McpTypeOK, SessionRow
<1> QED BY McpInvariant, <1>1, PTL

\* Neither a revoked access token nor a chain from before the last disconnection is ever
\* active again, and a chain of a consent that the provider deleted only if a request of it
\* was in progress then.
THEOREM NothingComesBack == Spec => []NoneComesBack
<1>1. McpInv => NoneComesBack
  <2> SUFFICES ASSUME McpInv, NEW t \in Token, ActiveAccess(t), Mcp \in refresh[t].scopes
               PROVE  /\ t \notin revoked
                      /\ refresh[t].since >= consent.cut
                      /\ refresh[t].since >= consent.createdAt \/ refresh[t].crossed
    BY DEF NoneComesBack
  <2>1. t \notin revoked
    BY DEF ActiveAccess, McpInv, RevokedBound
  <2>2. /\ consent.granted /\ refresh[t].issuedAt >= consent.createdAt
        /\ Fresh(refresh[t].issuedAt, refresh[t].since, refresh[t].crossed)
        /\ consent.cut <= consent.createdAt
    BY DEF ActiveAccess, Stands, McpInv, ChainBound, Origin
  <2> QED BY <2>1, <2>2 DEF Fresh, McpInv, McpTypeOK, TokenRow, ConsentRow
<1> QED BY McpInvariant, <1>1, PTL

\* A request is refused only if its connection failed to stand at some moment of it.
THEOREM SteadyRefreshes == Spec => []SteadyRefreshSucceeds
<1>1. McpInv => SteadyRefreshSucceeds
  BY DEF McpInv, RefusedBound, SteadyRefreshSucceeds
<1> QED BY McpInvariant, <1>1, PTL
===============================================================================
