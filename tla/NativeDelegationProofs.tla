------------------------ MODULE NativeDelegationProofs ------------------------
(***************************************************************************)
(* Proofs about NativeDelegation: its steps on requests are those of       *)
(* NativeRequests, so what is proved of them carries over, and its own     *)
(* safety properties hold for any number of codes, grants, renewals and    *)
(* tokens.                                                                 *)
(***************************************************************************)
EXTENDS NativeDelegation, NativeRequestsProofs

\* A grant names tokens that were generated for it, the current one last, and only once
\* it exists; a grant that exists belongs to a user and to a request that is spent.
Linked ==
  \A g \in Grant :
    /\ grant[g].status = "NONE" => grant[g] = EmptyGrant
    /\ grant[g].status # "NONE" => /\ grant[g].user \in User
                                   /\ grant[g].req \in Request
    /\ grant[g].cur # NoToken => /\ grant[g].cur \in Token
                                 /\ grant[g].cur < nextToken
                                 /\ owner[grant[g].cur] = g
    /\ grant[g].prev # NoToken => /\ grant[g].prev \in Token
                                  /\ grant[g].prev < grant[g].cur
                                  /\ owner[grant[g].prev] = g
                                  /\ grant[g].cur # NoToken

\* The request of a grant was swapped to REDEEMED and never comes back.
Spent ==
  \A g \in Grant : grant[g].status # "NONE" => req[grant[g].req].status \in {"REDEEMED", "SWEPT"}

\* Two grants never share a request.
Singly ==
  \A g, h \in Grant :
    grant[g].status # "NONE" /\ grant[h].status # "NONE" /\ grant[g].req = grant[h].req => g = h

\* An exchange works on a grant of its own, and between the link and the refresh row its
\* token is the grant's current one.
Exchanging ==
  \A c \in Code :
    /\ code[c].stage # "none" => code[c].user \in User /\ code[c].req \in Request
    /\ code[c].stage \in {"redeemed", "linked", "refreshed"} => code[c].grant \in Grant
    /\ code[c].grant \in Grant => grant[code[c].grant].status # "NONE"
    /\ \A d \in Code : code[c].grant \in Grant /\ code[d].grant = code[c].grant => c = d
    /\ code[c].stage \in {"linked", "refreshed"} => code[c].token \in Token
    /\ code[c].stage = "linked" => /\ grant[code[c].grant].cur = code[c].token
                                   /\ refresh[code[c].token].state = "none"

\* A token that was not generated yet is nowhere.
Unborn ==
  \A t \in Token : t >= nextToken =>
    refresh[t].state = "none" /\ access[t] = 0 /\ uses[t] = 0

\* The current token was never renewed; the previous one was, and once it has recovered a
\* lost response its row is gone.
Counted ==
  /\ RenewedTwiceAtMost
  /\ \A g \in Grant :
       /\ grant[g].cur # NoToken => uses[grant[g].cur] = 0
       /\ grant[g].prev # NoToken =>
            /\ uses[grant[g].prev] >= 1
            /\ refresh[grant[g].prev].state # "none" => uses[grant[g].prev] = 1

\* A renewer in the middle of its handler knows its grant and its token.
RenewerBound ==
  \A n \in Renewer : renewer[n].stage = "loaded" =>
    renewer[n].grant \in Grant /\ renewer[n].token \in Token

\* The inductive invariant of the tokens, beside the one of the requests.
TokenInv ==
  /\ TokenTypeOK
  /\ Linked /\ Exchanging /\ Unborn /\ RenewerBound
  /\ LiveTokenOfActiveGrant /\ RevokedTokensGone
  /\ Counted /\ LostResponseRecoverable

GrantInv ==
  /\ Spent /\ Singly
  /\ ActiveGrantConsented
  /\ DelegationWithinGrant

DelegationInv == RequestInv /\ TokenInv /\ GrantInv

-------------------------------------------------------------------------------
(* Types.                                                                  *)

LEMMA GrantRowType ==
  /\ EmptyGrant \in GrantRow
  /\ \A row \in GrantRow : /\ [row EXCEPT !.status = "REVOKED"] \in GrantRow
                           /\ \A n \in Nat : [row EXCEPT !.cur = n] \in GrantRow
  /\ \A row \in GrantRow, a \in Nat, b \in Nat, c \in Nat, d \in Nat :
       [row EXCEPT !.prev = a, !.cur = b, !.rotatedAt = c, !.delegationExpiresAt = d] \in GrantRow
<1>1. EmptyGrant \in GrantRow
  BY DEF EmptyGrant, GrantRow, NoToken
<1>2. ASSUME NEW row \in GrantRow
      PROVE  /\ [row EXCEPT !.status = "REVOKED"] \in GrantRow
             /\ \A n \in Nat : [row EXCEPT !.cur = n] \in GrantRow
  BY DEF GrantRow
<1>3. ASSUME NEW row \in GrantRow, NEW a \in Nat, NEW b \in Nat, NEW c \in Nat, NEW d \in Nat
      PROVE  [row EXCEPT !.prev = a, !.cur = b, !.rotatedAt = c, !.delegationExpiresAt = d]
               \in GrantRow
  BY DEF GrantRow
<1> QED BY <1>1, <1>2, <1>3

LEMMA CodeRowType ==
  /\ NoCode \in CodeRow
  /\ \A u \in User, r \in Request :
       [NoCode EXCEPT !.stage = "issued", !.user = u, !.req = r] \in CodeRow
  /\ \A row \in CodeRow :
       /\ [row EXCEPT !.stage = "spent"] \in CodeRow
       /\ [row EXCEPT !.stage = "refreshed"] \in CodeRow
       /\ [row EXCEPT !.stage = "done"] \in CodeRow
       /\ [row EXCEPT !.stage = "failed"] \in CodeRow
       /\ \A n \in Nat : [row EXCEPT !.stage = "linked", !.token = n] \in CodeRow
  /\ \A row \in CodeRow, g \in Grant : [row EXCEPT !.stage = "redeemed", !.grant = g] \in CodeRow
<1>1. NoCode \in CodeRow
  BY DEF NoCode, CodeRow
<1>2. ASSUME NEW u \in User, NEW r \in Request
      PROVE  [NoCode EXCEPT !.stage = "issued", !.user = u, !.req = r] \in CodeRow
  BY DEF NoCode, CodeRow
<1>3. ASSUME NEW row \in CodeRow
      PROVE  /\ [row EXCEPT !.stage = "spent"] \in CodeRow
             /\ [row EXCEPT !.stage = "refreshed"] \in CodeRow
             /\ [row EXCEPT !.stage = "done"] \in CodeRow
             /\ [row EXCEPT !.stage = "failed"] \in CodeRow
             /\ \A n \in Nat : [row EXCEPT !.stage = "linked", !.token = n] \in CodeRow
  BY DEF CodeRow
<1>4. ASSUME NEW row \in CodeRow, NEW g \in Grant
      PROVE  [row EXCEPT !.stage = "redeemed", !.grant = g] \in CodeRow
  BY DEF CodeRow
<1> QED BY <1>1, <1>2, <1>3, <1>4

LEMMA TokenRowType ==
  /\ NoRow \in RefreshRow
  /\ \A n \in Nat : [state |-> "live", expiresAt |-> n] \in RefreshRow
  /\ \A row \in RefreshRow : [row EXCEPT !.state = "revoked"] \in RefreshRow
  BY DEF NoRow, RefreshRow

LEMMA RenewerRowType ==
  /\ IdleRenewer \in RenewerState
  /\ \A op \in {"renew", "revoke"}, t \in Nat, g \in Grant, k \in Key \cup {NoKey} :
       [stage |-> "loaded", op |-> op, token |-> t, grant |-> g, retried |-> FALSE, preKey |-> k]
         \in RenewerState
  /\ \A row \in RenewerState, k \in Key \cup {NoKey} :
       [row EXCEPT !.retried = TRUE, !.preKey = k] \in RenewerState
<1>1. IdleRenewer \in RenewerState
  BY DEF IdleRenewer, RenewerState
<1>2. ASSUME NEW op \in {"renew", "revoke"}, NEW t \in Nat, NEW g \in Grant,
             NEW k \in Key \cup {NoKey}
      PROVE  [stage |-> "loaded", op |-> op, token |-> t, grant |-> g, retried |-> FALSE,
              preKey |-> k] \in RenewerState
  BY DEF RenewerState
<1>3. ASSUME NEW row \in RenewerState, NEW k \in Key \cup {NoKey}
      PROVE  [row EXCEPT !.retried = TRUE, !.preKey = k] \in RenewerState
  BY DEF RenewerState
<1> QED BY <1>1, <1>2, <1>3

\* A token is a positive number, and NoToken is none.
LEMMA TokenNumbers ==
  /\ NoToken = 0 /\ NoToken \notin Token
  /\ \A t \in Token : t \in Nat /\ t # 0
  BY DelegationAssumption DEF Token, NoToken

-------------------------------------------------------------------------------
(* The requests of NativeDelegation are those of NativeRequests.           *)

LEMMA StepImplements ==
  ASSUME RequestTypeOK, TokenTypeOK, Exchanging, Linked, [Next]_vars
  PROVE  [RequestNext]_requestVars
<1>1. CASE RequestStep
  BY <1>1 DEF RequestNext
<1>2. CASE \E c \in Code, u \in User, r \in Request : IssueCode(c, u, r)
  BY <1>2 DEF IssueCode, RequestNext
<1>3. CASE \E c \in Code : Redeem(c)
  <2>1. PICK c \in Code : Redeem(c)
    BY <1>3
  <2>2. code[c].user \in User /\ code[c].req \in Request
    BY <2>1 DEF Redeem, Exchanging
  <2> QED BY <2>1, <2>2 DEF Redeem, RequestNext
<1>4. CASE \E u \in User : Withdraw(u)
  BY <1>4 DEF Withdraw, RequestNext
<1>5. CASE UNCHANGED requestVars
  BY <1>5
<1> QED BY <1>1, <1>2, <1>3, <1>4, <1>5
    DEF Next, vars, SpendCode, LinkToken, InsertRefresh, InsertAccess, FailExchange,
        RevokeAccess, LoadRenewal, UnsealAndRetry, Rotate, Recover, Renewal, Revoke,
        RefuseRenewal, SetBlock

-------------------------------------------------------------------------------
(* The initial states, and what unchanged variables keep.                  *)

LEMMA DelegationInit == Init => DelegationInv
<1> SUFFICES ASSUME Init PROVE DelegationInv
  OBVIOUS
<1>1. RequestInv
  BY InitInv DEF Init
<1>2. TokenTypeOK
  <2>1. code \in [Code -> CodeRow] /\ grant \in [Grant -> GrantRow]
    BY GrantRowType, CodeRowType DEF Init
  <2>2. refresh \in [Token -> RefreshRow] /\ renewer \in [Renewer -> RenewerState]
    BY TokenRowType, RenewerRowType DEF Init
  <2>3. blocked \in [User -> BOOLEAN] /\ nextToken \in Nat \ {0}
    BY DEF Init
  <2>4. access \in [Token -> Nat] /\ uses \in [Token -> Nat]
    BY DEF Init
  <2>5. owner \in [Token -> Grant \cup {NoGrant}]
    BY DEF Init
  <2> QED BY <2>1, <2>2, <2>3, <2>4, <2>5 DEF TokenTypeOK
<1>3. \A g \in Grant : grant[g] = EmptyGrant /\ grant[g].status = "NONE" /\ grant[g].cur = NoToken
                       /\ grant[g].prev = NoToken
  BY DEF Init, EmptyGrant
<1>4. Linked /\ Spent /\ Singly /\ ActiveGrantConsented /\ DelegationWithinGrant
  BY <1>3 DEF Linked, Spent, Singly, ActiveGrantConsented, DelegationWithinGrant
<1>5. Exchanging /\ RenewerBound
  BY DelegationAssumption DEF Init, Exchanging, RenewerBound, NoCode, IdleRenewer
<1>6. \A t \in Token : refresh[t].state = "none" /\ access[t] = 0 /\ uses[t] = 0
  BY DEF Init, NoRow
<1>7. Unborn /\ LiveTokenOfActiveGrant /\ RevokedTokensGone /\ Counted /\ LostResponseRecoverable
  BY <1>3, <1>6
  DEF Unborn, LiveTokenOfActiveGrant, RevokedTokensGone, Counted, RenewedTwiceAtMost,
      LostResponseRecoverable
<1> QED BY <1>1, <1>2, <1>4, <1>5, <1>7 DEF DelegationInv, TokenInv, GrantInv

\* Grants stand while the consents of the ACTIVE ones do.
LEMMA GrantFrame ==
  ASSUME DelegationInv, [RequestNext]_requestVars, UNCHANGED <<grant, generation>>,
         \A u \in User : consent[u].present /\ consent[u].scoped => consent'[u] = consent[u]
  PROVE  GrantInv'
<1> USE DEF DelegationInv, GrantInv, TokenInv
<1>1. Spent'
  <2> SUFFICES ASSUME NEW g \in Grant, grant[g].status # "NONE"
               PROVE  req'[grant[g].req].status \in {"REDEEMED", "SWEPT"}
    BY DEF Spent
  <2>1. grant[g].req \in Request /\ req[grant[g].req].status \in {"REDEEMED", "SWEPT"}
    BY DEF Linked, Spent
  <2> QED BY <2>1, MovesHold DEF Terminal
<1>2. Singly' /\ DelegationWithinGrant'
  BY DEF Singly, DelegationWithinGrant
<1>3. ActiveGrantConsented'
  <2> SUFFICES ASSUME NEW g \in Grant, grant[g].status = "ACTIVE"
               PROVE  LET u == grant[g].user IN
                      /\ consent'[u].present /\ consent'[u].scoped
                      /\ consent'[u].id = grant[g].consentId
                      /\ generation[u] = grant[g].consentGeneration
    BY DEF ActiveGrantConsented
  <2>1. grant[g].user \in User
    BY DEF Linked
  <2> QED BY <2>1 DEF ActiveGrantConsented
<1> QED BY <1>1, <1>2, <1>3

\* What a step on requests keeps of the tokens.
LEMMA TokenFrame ==
  ASSUME TokenInv, UNCHANGED <<blocked, code, grant, refresh, access, nextToken, owner, uses,
                               generation>>,
         renewer' \in [Renewer -> RenewerState], RenewerBound'
  PROVE  TokenInv'
<1> USE DEF TokenInv
<1>1. TokenTypeOK' /\ Linked' /\ Exchanging' /\ Unborn'
  BY DEF TokenTypeOK, Linked, Exchanging, Unborn
<1>2. LiveTokenOfActiveGrant' /\ RevokedTokensGone' /\ Counted' /\ LostResponseRecoverable'
  BY DEF LiveTokenOfActiveGrant, RevokedTokensGone, Counted, LostResponseRecoverable,
         RenewedTwiceAtMost, Hashes
<1> QED BY <1>1, <1>2

LEMMA SideInv ==
  ASSUME DelegationInv
  PROVE  /\ RequestStep /\ UNCHANGED tokenVars => TokenInv'
         /\ \A n \in Renewer, op \in {"renew", "revoke"}, t \in Token :
              LoadRenewal(n, op, t) => TokenInv'
         /\ \A n \in Renewer : UnsealAndRetry(n) => TokenInv'
         /\ \A n \in Renewer : RefuseRenewal(n) => TokenInv'
         /\ \A u \in User : SetBlock(u) => TokenInv'
<1> USE DEF DelegationInv, TokenInv
<1>1. ASSUME RequestStep, UNCHANGED tokenVars PROVE TokenInv'
  <2>1. UNCHANGED generation
    BY <1>1 DEF RequestStep, Par, Resolve, Sweep, PrepareRead, ApproveRead, PrepareCommit,
                NewRevision, ApproveCommit, ApproveAgain, MarkHostSigned, RecordHosting, Abandon, SendAgain,
                Deny, ChangeKey, ChangeCeiling, Tick
  <2> QED BY <1>1, <2>1, TokenFrame DEF tokenVars, TokenTypeOK, RenewerBound
<1>2. ASSUME NEW n \in Renewer, NEW op \in {"renew", "revoke"}, NEW t \in Token,
             LoadRenewal(n, op, t)
      PROVE  TokenInv'
  <2>1. PICK g \in Grant, k \in Key \cup {NoKey} :
             renewer' = [renewer EXCEPT ![n] =
               [stage |-> "loaded", op |-> op, token |-> t, grant |-> g, retried |-> FALSE,
                preKey |-> k]]
    <3>1. PICK g \in Grant :
            /\ t \in Hashes(g)
            /\ renewer' = [renewer EXCEPT ![n] =
                 [stage |-> "loaded", op |-> op, token |-> t, grant |-> g, retried |-> FALSE,
                  preKey |-> IF \/ op = "revoke" \/ grant[g].status # "ACTIVE"
                                \/ InConflict(g, t) \/ TooSoon(g)
                               THEN NoKey ELSE Unsealed(g)]]
      BY <1>2 DEF LoadRenewal
    <3>2. grant[g].user \in User
      <4>1. grant[g].status = "NONE" => Hashes(g) = {}
        BY DEF Linked, EmptyGrant, Hashes
      <4> QED BY <3>1, <4>1 DEF Linked
    <3>3. Unsealed(g) \in Key \cup {NoKey}
      BY <3>2 DEF Unsealed, RequestInv, RequestTypeOK
    <3> QED BY <3>1, <3>3
  <2>2. renewer' \in [Renewer -> RenewerState] /\ RenewerBound'
    <3>1. [stage |-> "loaded", op |-> op, token |-> t, grant |-> g, retried |-> FALSE,
           preKey |-> k] \in RenewerState
      BY <2>1, RenewerRowType, TokenNumbers
    <3> QED BY <2>1, <3>1 DEF TokenTypeOK, RenewerBound
  <2> QED BY <1>2, <2>2, TokenFrame DEF LoadRenewal, requestVars
<1>3. ASSUME NEW n \in Renewer, UnsealAndRetry(n) PROVE TokenInv'
  <2> DEFINE g == renewer[n].grant
  <2>1. g \in Grant /\ renewer[n].token \in Token /\ renewer[n].stage = "loaded"
    BY <1>3 DEF UnsealAndRetry, RenewerBound
  <2>2. grant[g].user \in User
    BY <1>3, <2>1 DEF UnsealAndRetry, RenewalAllowed, Linked
  <2>3. Unsealed(g) \in Key \cup {NoKey}
    BY <2>2 DEF Unsealed, RequestInv, RequestTypeOK
  <2>4. renewer' = [renewer EXCEPT ![n] = [renewer[n] EXCEPT !.retried = TRUE, !.preKey = Unsealed(g)]]
    BY <1>3 DEF UnsealAndRetry
  <2>5. renewer' \in [Renewer -> RenewerState]
    BY <2>3, <2>4, RenewerRowType DEF TokenTypeOK
  <2>6. RenewerBound'
    BY <2>1, <2>4 DEF RenewerBound, TokenTypeOK, RenewerState
  <2> QED BY <1>3, <2>5, <2>6, TokenFrame DEF UnsealAndRetry, requestVars
<1>4. ASSUME NEW n \in Renewer, RefuseRenewal(n) PROVE TokenInv'
  <2>1. renewer' \in [Renewer -> RenewerState] /\ RenewerBound'
    BY <1>4, RenewerRowType DEF RefuseRenewal, TokenTypeOK, RenewerBound, IdleRenewer
  <2> QED BY <1>4, <2>1, TokenFrame DEF RefuseRenewal, requestVars
<1>5. ASSUME NEW u \in User, SetBlock(u) PROVE TokenInv'
  <2>1. UNCHANGED <<code, grant, refresh, access, renewer, nextToken, owner, uses, generation>>
    BY <1>5 DEF SetBlock, requestVars
  <2>2. TokenTypeOK'
    BY <1>5, <2>1 DEF SetBlock, TokenTypeOK
  <2>3. Linked' /\ Exchanging' /\ Unborn' /\ RenewerBound'
    BY <2>1 DEF Linked, Exchanging, Unborn, RenewerBound
  <2>4. LiveTokenOfActiveGrant' /\ RevokedTokensGone' /\ Counted' /\ LostResponseRecoverable'
    BY <2>1 DEF LiveTokenOfActiveGrant, RevokedTokensGone, Counted, LostResponseRecoverable,
                RenewedTwiceAtMost, Hashes
  <2> QED BY <2>2, <2>3, <2>4
<1> QED BY <1>1, <1>2, <1>3, <1>4, <1>5

-------------------------------------------------------------------------------
(* Code exchange.                                                          *)

\* A token is named by one grant, and there in one place.
LEMMA OneName ==
  ASSUME TokenTypeOK, Linked, NEW g \in Grant, NEW h \in Grant
  PROVE  /\ grant[g].cur # NoToken /\ grant[g].cur = grant[h].cur => g = h
         /\ grant[g].prev # NoToken /\ grant[g].prev = grant[h].prev => g = h
         /\ grant[g].cur # NoToken => grant[g].cur # grant[h].prev
<1>1. ASSUME grant[g].cur # NoToken, grant[g].cur = grant[h].prev PROVE FALSE
  <2>1. g = h
    BY <1>1 DEF Linked
  <2>2. grant[g].cur \in Nat /\ grant[g].cur < grant[g].cur
    BY <1>1, <2>1, TokenNumbers DEF Linked
  <2> QED BY <2>2
<1> QED BY <1>1 DEF Linked

\* A step of the exchange that only moves its code.
LEMMA CodeFrame ==
  ASSUME TokenInv, UNCHANGED <<blocked, grant, refresh, access, renewer, nextToken, owner, uses,
                               generation>>,
         code' \in [Code -> CodeRow], Exchanging'
  PROVE  TokenInv'
<1> USE DEF TokenInv
<1>1. TokenTypeOK' /\ Linked' /\ Unborn' /\ RenewerBound'
  BY DEF TokenTypeOK, Linked, Unborn, RenewerBound
<1>2. LiveTokenOfActiveGrant' /\ RevokedTokensGone' /\ Counted' /\ LostResponseRecoverable'
  BY DEF LiveTokenOfActiveGrant, RevokedTokensGone, Counted, LostResponseRecoverable,
         RenewedTwiceAtMost, Hashes
<1> QED BY <1>1, <1>2

\* What a code row keeps when its stage alone changes.
LEMMA CodeStage ==
  ASSUME TokenTypeOK, NEW c \in Code, NEW s,
         code' = [code EXCEPT ![c] = [code[c] EXCEPT !.stage = s]]
  PROVE  /\ code'[c].stage = s
         /\ code'[c].user = code[c].user /\ code'[c].req = code[c].req
         /\ code'[c].grant = code[c].grant /\ code'[c].token = code[c].token
         /\ \A d \in Code \ {c} : code'[d] = code[d]
  BY DEF TokenTypeOK, CodeRow

LEMMA CodeInv ==
  ASSUME DelegationInv, NEW c \in Code
  PROVE  /\ \A u \in User, r \in Request : IssueCode(c, u, r) => TokenInv'
         /\ SpendCode(c) => TokenInv'
         /\ FailExchange(c) => TokenInv'
<1> USE DEF DelegationInv, TokenInv
<1>1. ASSUME NEW u \in User, NEW r \in Request, IssueCode(c, u, r) PROVE TokenInv'
  <2> DEFINE row == [NoCode EXCEPT !.stage = "issued", !.user = u, !.req = r]
  <2>1. code' = [code EXCEPT ![c] = row]
    BY <1>1 DEF IssueCode
  <2>2. row \in CodeRow /\ row.stage = "issued" /\ row.user = u /\ row.req = r /\ row.grant = NoGrant
    BY CodeRowType DEF NoCode
  <2>3. code'[c] = row /\ \A d \in Code \ {c} : code'[d] = code[d]
    BY <2>1 DEF TokenTypeOK
  <2>4. code' \in [Code -> CodeRow]
    BY <2>1, <2>2 DEF TokenTypeOK
  <2>5. UNCHANGED <<grant, refresh>>
    BY <1>1 DEF IssueCode
  <2> HIDE DEF row
  <2>6. Exchanging'
    BY <2>2, <2>3, <2>5, DelegationAssumption DEF Exchanging
  <2> QED BY <1>1, <2>4, <2>6, CodeFrame DEF IssueCode
<1>2. ASSUME NEW s \in {"spent", "failed"}, code' = [code EXCEPT ![c] = [code[c] EXCEPT !.stage = s]],
             code[c].stage # "none",
             UNCHANGED <<blocked, grant, refresh, access, renewer, nextToken, owner, uses, generation>>
      PROVE  TokenInv'
  <2>1. code' \in [Code -> CodeRow]
    BY <1>2, CodeRowType DEF TokenTypeOK
  <2>2. Exchanging'
    BY <1>2, CodeStage DEF Exchanging
  <2> QED BY <1>2, <2>1, <2>2, CodeFrame
<1>3. ASSUME SpendCode(c) PROVE TokenInv'
  BY <1>2, <1>3 DEF SpendCode, requestVars
<1>4. ASSUME FailExchange(c) PROVE TokenInv'
  BY <1>2, <1>4 DEF FailExchange, requestVars
<1> QED BY <1>1, <1>3, <1>4

\* A new grant names no token yet.
LEMMA RedeemTokens ==
  ASSUME DelegationInv, NEW c \in Code, Redeem(c)
  PROVE  TokenInv'
<1> DEFINE u == code[c].user
           r == code[c].req
           rev == prep[r][req[r].approvedRevision]
<1> USE DEF DelegationInv, TokenInv
<1>1. u \in User /\ r \in Request /\ req[r].status = "APPROVED"
  BY DEF Redeem, RedeemRequest, Exchanging
<1>2. PICK g \in Grant :
        /\ grant[g].status = "NONE"
        /\ grant' = [grant EXCEPT ![g] =
             [EmptyGrant EXCEPT !.status = "ACTIVE", !.req = r, !.user = u,
                !.consentId = consent[u].id, !.consentGeneration = generation[u],
                !.key = rev.key, !.host = rev.host, !.perms = rev.perms, !.ttl = rev.ttl,
                !.absoluteExpiresAt = now + ceiling.lifetime,
                !.delegationExpiresAt = req[r].delegationExpiresAt]]
        /\ code' = [code EXCEPT ![c].stage = "redeemed", ![c].grant = g]
  BY DEF Redeem
<1> DEFINE row == [EmptyGrant EXCEPT !.status = "ACTIVE", !.req = r, !.user = u,
                !.consentId = consent[u].id, !.consentGeneration = generation[u],
                !.key = rev.key, !.host = rev.host, !.perms = rev.perms, !.ttl = rev.ttl,
                !.absoluteExpiresAt = now + ceiling.lifetime,
                !.delegationExpiresAt = req[r].delegationExpiresAt]
<1>3. rev \in Revision
  BY <1>1 DEF RequestInv, RequestTypeOK, ApprovalIsNewestRevision
<1>4. row \in GrantRow
  <2>1. rev.key \in Key /\ rev.host \in Host /\ rev.perms \in SUBSET Perm /\ rev.ttl \in Nat
    BY <1>3 DEF Revision
  <2>2. consent[u].id \in Nat /\ generation[u] \in Nat
    BY <1>1 DEF RequestInv, RequestTypeOK, Consent
  <2>3. req[r].delegationExpiresAt \in Nat
    BY <1>1 DEF RequestInv, RequestTypeOK, RequestRow
  <2>4. now + ceiling.lifetime \in Nat
    <3>1. now \in Nat /\ ceiling \in Ceiling
      BY RequestAssumption DEF RequestInv, RequestTypeOK
    <3> QED BY <3>1 DEF Ceiling
  <2> HIDE DEF u, r, rev
  <2> QED BY <1>1, <2>1, <2>2, <2>3, <2>4 DEF EmptyGrant, GrantRow, NoToken
<1>5. /\ row.status = "ACTIVE" /\ row.user = u /\ row.req = r
      /\ row.cur = NoToken /\ row.prev = NoToken
  BY DEF EmptyGrant
<1>6. grant' = [grant EXCEPT ![g] = row]
  BY <1>2
<1>7. code' = [code EXCEPT ![c] = [code[c] EXCEPT !.stage = "redeemed", !.grant = g]]
  BY <1>2
<1>8. grant[g].status = "NONE" /\ grant[g].cur = NoToken
  BY <1>2 DEF Linked, EmptyGrant
<1> HIDE DEF row, rev
<1>9. grant'[g] = row /\ \A h \in Grant \ {g} : grant'[h] = grant[h]
  BY <1>6 DEF TokenTypeOK
<1>10. UNCHANGED <<blocked, refresh, access, renewer, nextToken, owner, uses, generation>>
  BY DEF Redeem
<1>11. TokenTypeOK'
  <2>1. code' \in [Code -> CodeRow]
    BY <1>7, CodeRowType DEF TokenTypeOK
  <2>2. grant' \in [Grant -> GrantRow]
    BY <1>4, <1>6 DEF TokenTypeOK
  <2> QED BY <1>10, <2>1, <2>2 DEF TokenTypeOK
<1>12. Linked'
  <2>1. row.status # "NONE" /\ row.user \in User /\ row.req \in Request
    BY <1>1, <1>5
  <2> QED BY <2>1, <1>5, <1>9, <1>10 DEF Linked
<1>13. Exchanging'
  <2>1. /\ code'[c].stage = "redeemed" /\ code'[c].grant = g
        /\ code'[c].user \in User /\ code'[c].req \in Request
        /\ \A d \in Code \ {c} : code'[d] = code[d]
    BY <1>1, <1>7 DEF TokenTypeOK, CodeRow
  <2>2. \A d \in Code : code[d].grant # g
    BY <1>8 DEF Exchanging
  <2>3. grant'[g].status # "NONE"
    BY <1>5, <1>9
  <2> HIDE DEF u, r
  <2>4. ASSUME NEW d \in Code \ {c}
        PROVE  /\ code[d].grant \in Grant => code[d].grant # g
               /\ code'[d] = code[d]
    BY <2>1, <2>2
  <2> QED BY <1>9, <1>10, <2>1, <2>2, <2>3, <2>4 DEF Exchanging
<1>14. Unborn' /\ RenewerBound'
  BY <1>10 DEF Unborn, RenewerBound
<1>15. LiveTokenOfActiveGrant'
  BY <1>8, <1>9, <1>10, TokenNumbers DEF LiveTokenOfActiveGrant
<1>16. RevokedTokensGone'
  BY <1>5, <1>9, <1>10 DEF RevokedTokensGone, Hashes
<1>17. Counted' /\ LostResponseRecoverable'
  BY <1>5, <1>9, <1>10 DEF Counted, RenewedTwiceAtMost, LostResponseRecoverable
<1> QED BY <1>11, <1>12, <1>13, <1>14, <1>15, <1>16, <1>17

\* The linked token is a new one, so no row carries its hash yet.
LEMMA LinkTokens ==
  ASSUME DelegationInv, NEW c \in Code, LinkToken(c)
  PROVE  TokenInv'
<1> DEFINE g == code[c].grant
           t == nextToken
<1> USE DEF DelegationInv, TokenInv
<1>1. /\ code[c].stage = "redeemed" /\ g \in Grant
      /\ grant[g].status = "ACTIVE" /\ grant[g].cur = NoToken /\ grant[g].prev = NoToken
      /\ t \in Token
  BY DEF LinkToken, Exchanging, Linked
<1>2. /\ grant' = [grant EXCEPT ![g] = [grant[g] EXCEPT !.cur = t]]
      /\ code' = [code EXCEPT ![c] = [code[c] EXCEPT !.stage = "linked", !.token = t]]
      /\ owner' = [owner EXCEPT ![t] = g]
      /\ nextToken' = t + 1
      /\ UNCHANGED <<blocked, refresh, access, renewer, uses, generation>>
  BY DEF LinkToken, requestVars
<1>3. /\ grant'[g].cur = t /\ grant'[g].prev = NoToken /\ grant'[g].status = "ACTIVE"
      /\ grant'[g].user = grant[g].user /\ grant'[g].req = grant[g].req
      /\ \A h \in Grant \ {g} : grant'[h] = grant[h]
  BY <1>1, <1>2 DEF TokenTypeOK, GrantRow
<1>4. /\ code'[c].stage = "linked" /\ code'[c].token = t /\ code'[c].grant = g
      /\ code'[c].user = code[c].user /\ code'[c].req = code[c].req
      /\ \A d \in Code \ {c} : code'[d] = code[d]
  BY <1>2 DEF TokenTypeOK, CodeRow
<1>5. owner'[t] = g /\ \A x \in Token \ {t} : owner'[x] = owner[x]
  BY <1>1, <1>2 DEF TokenTypeOK
<1>6. t \in Nat /\ t # NoToken /\ t # 0
  BY <1>1, TokenNumbers
<1>7. refresh[t].state = "none" /\ access[t] = 0 /\ uses[t] = 0
  BY <1>1, <1>6 DEF Unborn
<1>8. TokenTypeOK'
  <2>1. grant' \in [Grant -> GrantRow] /\ code' \in [Code -> CodeRow]
    BY <1>2, <1>6, GrantRowType, CodeRowType DEF TokenTypeOK
  <2>2. owner' \in [Token -> Grant \cup {NoGrant}] /\ nextToken' \in Nat \ {0}
    BY <1>1, <1>2, <1>6 DEF TokenTypeOK
  <2> QED BY <1>2, <2>1, <2>2 DEF TokenTypeOK
<1> HIDE DEF g, t
<1>9. \A h \in Grant \ {g} : grant[h].cur # t /\ grant[h].prev # t
  <2> SUFFICES ASSUME NEW h \in Grant PROVE grant[h].cur # t /\ grant[h].prev # t
    OBVIOUS
  <2>1. grant[h].cur # NoToken => grant[h].cur \in Nat /\ grant[h].cur < t
    BY TokenNumbers DEF Linked, t
  <2>2. grant[h].prev # NoToken => grant[h].prev \in Nat /\ grant[h].prev < grant[h].cur
                                   /\ grant[h].cur # NoToken
    BY TokenNumbers DEF Linked
  <2> QED BY <1>6, <2>1, <2>2
<1>10. Linked'
  <2>1. ASSUME NEW h \in Grant \ {g}
        PROVE  /\ grant'[h] = grant[h]
               /\ grant[h].cur # NoToken => grant[h].cur < nextToken' /\ owner'[grant[h].cur] = h
               /\ grant[h].prev # NoToken => owner'[grant[h].prev] = h
    <3>1. grant[h].cur # NoToken => grant[h].cur \in Nat /\ grant[h].cur < t
      BY TokenNumbers DEF Linked, t
    <3> QED BY <1>2, <1>3, <1>5, <1>6, <1>9, <3>1 DEF Linked
  <2>2. grant[g].user \in User /\ grant[g].req \in Request
    BY <1>1 DEF Linked
  <2>3. t < nextToken'
    BY <1>2, <1>6
  <2> QED BY <1>1, <1>3, <1>5, <2>1, <2>2, <2>3 DEF Linked
<1>11. Exchanging'
  <2>1. ASSUME NEW d \in Code \ {c} PROVE code[d].grant # g /\ code'[d] = code[d]
    BY <1>1, <1>4 DEF Exchanging, g
  <2>2. /\ code[c].user \in User /\ code[c].req \in Request
        /\ g = code[c].grant
    BY <1>1 DEF Exchanging, g
  <2>3. UNCHANGED refresh
    BY <1>2
  <2> QED BY <1>1, <1>3, <1>4, <1>7, <2>1, <2>2, <2>3 DEF Exchanging
<1>12. Unborn'
  <2>1. \A x \in Token : x >= t + 1 => x >= t
    BY <1>6, TokenNumbers
  <2> QED BY <1>2, <2>1 DEF Unborn, t
<1>13. RenewerBound'
  BY <1>2 DEF RenewerBound
<1>14. LiveTokenOfActiveGrant'
  BY <1>1, <1>2, <1>3, <1>6, TokenNumbers DEF LiveTokenOfActiveGrant
<1>15. RevokedTokensGone'
  BY <1>2, <1>3 DEF RevokedTokensGone, Hashes
<1>16. Counted' /\ LostResponseRecoverable'
  BY <1>2, <1>3, <1>7 DEF Counted, RenewedTwiceAtMost, LostResponseRecoverable
<1> QED BY <1>8, <1>10, <1>11, <1>12, <1>13, <1>14, <1>15, <1>16

\* The guard lets a refresh row in only for a grant that still stands.
LEMMA InsertTokens ==
  ASSUME DelegationInv, NEW c \in Code
  PROVE  /\ InsertRefresh(c) => TokenInv'
         /\ InsertAccess(c) => TokenInv'
<1> DEFINE g == code[c].grant
           t == code[c].token
<1> USE DEF DelegationInv, TokenInv
<1>1. ASSUME InsertRefresh(c) PROVE TokenInv'
  <2>1. /\ code[c].stage = "linked" /\ g \in Grant /\ t \in Token /\ grant[g].cur = t
        /\ t # NoToken /\ refresh[t].state = "none"
    BY <1>1, TokenNumbers DEF InsertRefresh, Exchanging
  <2>2. grant[g].status = "ACTIVE" /\ generation[grant[g].user] = grant[g].consentGeneration
    BY <1>1, <2>1 DEF InsertRefresh, GuardPasses
  <2>3. /\ refresh' = [refresh EXCEPT ![t] = [state |-> "live", expiresAt |-> now + RefreshTtl]]
        /\ code' = [code EXCEPT ![c] = [code[c] EXCEPT !.stage = "refreshed"]]
        /\ UNCHANGED <<blocked, grant, access, renewer, nextToken, owner, uses, generation>>
    BY <1>1 DEF InsertRefresh, requestVars
  <2>4. refresh'[t].state = "live" /\ \A x \in Token \ {t} : refresh'[x] = refresh[x]
    BY <2>1, <2>3 DEF TokenTypeOK
  <2>5. \A h \in Grant : grant[h].cur = t => h = g
    BY <2>1, OneName
  <2>6. \A h \in Grant : grant[h].prev # t
    BY <2>1, OneName
  <2>7. TokenTypeOK'
    <3>1. now + RefreshTtl \in Nat
      BY DelegationAssumption DEF RequestInv, RequestTypeOK
    <3>2. refresh' \in [Token -> RefreshRow] /\ code' \in [Code -> CodeRow]
      BY <2>3, <3>1, TokenRowType, CodeRowType DEF TokenTypeOK
    <3> QED BY <2>3, <3>2 DEF TokenTypeOK
  <2>8. Exchanging'
    <3>1. /\ code'[c].stage = "refreshed" /\ \A d \in Code \ {c} : code'[d] = code[d]
          /\ code'[c].user = code[c].user /\ code'[c].req = code[c].req
          /\ code'[c].grant = g /\ code'[c].token = t
      BY <2>3, CodeStage
    <3>2. ASSUME NEW d \in Code \ {c}, code[d].stage = "linked" PROVE code[d].token # t
      <4>1. code[d].grant \in Grant /\ grant[code[d].grant].cur = code[d].token
        BY <3>2 DEF Exchanging
      <4>2. code[d].grant # g
        BY <2>1, <3>2 DEF Exchanging
      <4> QED BY <2>5, <4>1, <4>2
    <3> HIDE DEF g, t
    <3>3. code[c].grant = g /\ code[c].token = t
      BY DEF g, t
    <3>4. \A d \in Code : code[d].stage = "linked" => code[d].token \in Token
      BY DEF Exchanging
    <3> QED BY <2>1, <2>3, <2>4, <3>1, <3>2, <3>3, <3>4 DEF Exchanging
  <2>9. Linked' /\ RenewerBound'
    BY <2>3 DEF Linked, RenewerBound
  <2>10. Unborn'
    <3>1. t \in Nat /\ t < nextToken /\ nextToken \in Nat
      BY <2>1, TokenNumbers DEF Linked, TokenTypeOK
    <3> QED BY <2>3, <2>4, <3>1 DEF Unborn
  <2>11. LiveTokenOfActiveGrant'
    BY <2>1, <2>2, <2>3, <2>4 DEF LiveTokenOfActiveGrant
  <2>12. RevokedTokensGone'
    <3>1. \A h \in Grant : grant[h].status = "REVOKED" => t \notin Hashes(h)
      BY <2>2, <2>5, <2>6 DEF Hashes
    <3>2. \A h \in Grant : Hashes(h)' = Hashes(h) /\ Hashes(h) \subseteq Token
      BY <2>3 DEF Hashes, Linked
    <3> QED BY <2>3, <2>4, <3>1, <3>2 DEF RevokedTokensGone
  <2>13. Counted'
    <3>1. \A h \in Grant : grant[h].prev # NoToken => refresh'[grant[h].prev] = refresh[grant[h].prev]
      BY <2>4, <2>6 DEF Linked
    <3> QED BY <2>3, <3>1 DEF Counted, RenewedTwiceAtMost
  <2>14. LostResponseRecoverable'
    <3>1. \A h \in Grant : grant[h].prev # NoToken =>
            /\ refresh'[grant[h].prev] = refresh[grant[h].prev]
            /\ refresh[grant[h].cur].state = "live" => refresh'[grant[h].cur].state = "live"
      BY <2>4, <2>6 DEF Linked
    <3> QED BY <2>3, <3>1 DEF LostResponseRecoverable
  <2> QED BY <2>7, <2>8, <2>9, <2>10, <2>11, <2>12, <2>13, <2>14
<1>2. ASSUME InsertAccess(c) PROVE TokenInv'
  <2>1. code[c].stage = "refreshed" /\ t \in Token /\ refresh[t].state # "none"
    BY <1>2 DEF InsertAccess, Exchanging
  <2>2. /\ access' = [access EXCEPT ![t] = now + AccessTtl]
        /\ code' = [code EXCEPT ![c] = [code[c] EXCEPT !.stage = "done"]]
        /\ UNCHANGED <<blocked, grant, refresh, renewer, nextToken, owner, uses, generation>>
    BY <1>2 DEF InsertAccess, requestVars
  <2>3. \A x \in Token \ {t} : access'[x] = access[x]
    BY <2>2 DEF TokenTypeOK
  <2>4. TokenTypeOK'
    <3>1. now + AccessTtl \in Nat
      BY DelegationAssumption DEF RequestInv, RequestTypeOK
    <3>2. access' \in [Token -> Nat] /\ code' \in [Code -> CodeRow]
      BY <2>2, <3>1, CodeRowType DEF TokenTypeOK
    <3> QED BY <2>2, <3>2 DEF TokenTypeOK
  <2>5. Exchanging'
    BY <2>1, <2>2, CodeStage DEF Exchanging
  <2>6. Linked' /\ RenewerBound'
    BY <2>2 DEF Linked, RenewerBound
  <2>7. Unborn'
    BY <2>1, <2>2, <2>3 DEF Unborn
  <2>8. RevokedTokensGone'
    <3>1. \A h \in Grant : Hashes(h)' = Hashes(h) /\ Hashes(h) \subseteq Token
      BY <2>2 DEF Hashes, Linked
    <3>2. \A h \in Grant : grant[h].status = "REVOKED" => t \notin Hashes(h)
      BY <2>1 DEF RevokedTokensGone
    <3> QED BY <2>2, <2>3, <3>1, <3>2 DEF RevokedTokensGone
  <2>9. LiveTokenOfActiveGrant' /\ Counted' /\ LostResponseRecoverable'
    BY <2>2 DEF LiveTokenOfActiveGrant, Counted, RenewedTwiceAtMost, LostResponseRecoverable
  <2> QED BY <2>4, <2>5, <2>6, <2>7, <2>8, <2>9
<1> QED BY <1>1, <1>2

LEMMA RevokeAccessTokens ==
  ASSUME DelegationInv, NEW t \in Token, RevokeAccess(t)
  PROVE  TokenInv'
<1> USE DEF DelegationInv, TokenInv
<1>1. /\ access' = [access EXCEPT ![t] = 0]
      /\ UNCHANGED <<blocked, code, grant, refresh, renewer, nextToken, owner, uses, generation>>
  BY DEF RevokeAccess, requestVars
<1>2. \A x \in Token : access'[x] \in {access[x], 0}
  BY <1>1 DEF TokenTypeOK
<1>3. TokenTypeOK' /\ Linked' /\ Exchanging' /\ Unborn' /\ RenewerBound'
  BY <1>1, <1>2 DEF TokenTypeOK, Linked, Exchanging, Unborn, RenewerBound
<1>4. RevokedTokensGone'
  <2>1. \A h \in Grant : Hashes(h)' = Hashes(h) /\ Hashes(h) \subseteq Token
    BY <1>1 DEF Hashes, Linked
  <2> QED BY <1>1, <1>2, <2>1 DEF RevokedTokensGone
<1>5. LiveTokenOfActiveGrant' /\ Counted' /\ LostResponseRecoverable'
  BY <1>1 DEF LiveTokenOfActiveGrant, Counted, RenewedTwiceAtMost, LostResponseRecoverable
<1> QED BY <1>3, <1>4, <1>5

-------------------------------------------------------------------------------
(* Revocation and withdrawal.                                              *)

\* Grants that are revoked together take the rows of every token they name with them.
LEMMA RevokeTogether ==
  ASSUME TokenInv, NEW S \in SUBSET Grant,
         \A g \in S : grant[g].status # "NONE",
         grant' = [g \in Grant |-> IF g \in S THEN [grant[g] EXCEPT !.status = "REVOKED"]
                                              ELSE grant[g]],
         refresh' = WithoutRows(UNION {Hashes(g) : g \in S}),
         access' = WithoutAccess(UNION {Hashes(g) : g \in S}),
         generation' \in [User -> Nat],
         \A g \in Grant \ S : grant[g].status = "ACTIVE" =>
           generation'[grant[g].user] = generation[grant[g].user],
         renewer' \in [Renewer -> RenewerState], RenewerBound',
         UNCHANGED <<blocked, code, nextToken, owner, uses>>
  PROVE  TokenInv'
<1> DEFINE gone == UNION {Hashes(g) : g \in S}
<1> USE DEF TokenInv
<1>1. /\ \A t \in gone : \E g \in S : t \in Hashes(g)
      /\ \A g \in S : Hashes(g) \subseteq gone
  OBVIOUS
<1>2. \A t \in Token : /\ t \in gone => refresh'[t] = NoRow /\ access'[t] = 0
                       /\ t \notin gone => refresh'[t] = refresh[t] /\ access'[t] = access[t]
  BY DEF WithoutRows, WithoutAccess
<1> HIDE DEF gone
<1>3. \A g \in Grant :
        /\ grant'[g].cur = grant[g].cur /\ grant'[g].prev = grant[g].prev
        /\ grant'[g].user = grant[g].user /\ grant'[g].req = grant[g].req
        /\ grant'[g].consentGeneration = grant[g].consentGeneration
        /\ g \in S => grant'[g].status = "REVOKED"
        /\ g \notin S => grant'[g] = grant[g]
  BY DEF TokenTypeOK, GrantRow
<1>4. \A g \in Grant : Hashes(g)' = Hashes(g) /\ Hashes(g) \subseteq Token
  BY <1>3 DEF Hashes, Linked
<1>5. \A g \in Grant \ S : \A t \in Hashes(g) : t \notin gone
  <2> SUFFICES ASSUME NEW g \in Grant \ S, NEW t \in Hashes(g), NEW h \in S, t \in Hashes(h)
               PROVE FALSE
    BY <1>1
  <2> QED BY OneName DEF Hashes
<1>6. TokenTypeOK'
  <2>1. grant' \in [Grant -> GrantRow]
    BY GrantRowType DEF TokenTypeOK
  <2>2. refresh' \in [Token -> RefreshRow] /\ access' \in [Token -> Nat]
    BY TokenRowType DEF WithoutRows, WithoutAccess, TokenTypeOK
  <2> QED BY <2>1, <2>2 DEF TokenTypeOK
<1>7. Linked'
  <2>1. \A g \in Grant : grant'[g].status = "NONE" => g \notin S
    BY <1>3
  <2>2. \A g \in Grant : grant'[g].status # "NONE" => grant[g].status # "NONE"
    BY <1>3
  <2> QED BY <1>3, <2>1, <2>2 DEF Linked
<1>8. Exchanging'
  <2>1. \A g \in Grant : grant[g].status # "NONE" => grant'[g].status # "NONE"
    BY <1>3
  <2>2. \A t \in Token : refresh[t].state = "none" => refresh'[t].state = "none"
    BY <1>2 DEF NoRow
  <2> QED BY <1>3, <2>1, <2>2 DEF Exchanging
<1>9. Unborn'
  BY <1>2 DEF Unborn, NoRow
<1>10. LiveTokenOfActiveGrant'
  <2> SUFFICES ASSUME NEW t \in Token, refresh'[t].state = "live"
               PROVE  \E g \in Grant : /\ grant'[g].cur = t
                                       /\ grant'[g].status = "ACTIVE"
                                       /\ grant'[g].consentGeneration = generation'[grant'[g].user]
    BY DEF LiveTokenOfActiveGrant
  <2>1. t \notin gone /\ refresh[t].state = "live"
    BY <1>2 DEF NoRow
  <2>2. PICK g \in Grant : /\ grant[g].cur = t
                           /\ grant[g].status = "ACTIVE"
                           /\ grant[g].consentGeneration = generation[grant[g].user]
    BY <2>1 DEF LiveTokenOfActiveGrant
  <2>3. t \in Hashes(g)
    BY <2>2, TokenNumbers DEF Hashes
  <2>4. g \notin S
    BY <1>1, <2>1, <2>3
  <2> QED BY <1>3, <2>2, <2>4
<1>11. RevokedTokensGone'
  <2> SUFFICES ASSUME NEW g \in Grant, grant'[g].status = "REVOKED", NEW t \in Hashes(g)
               PROVE  refresh'[t].state = "none" /\ access'[t] = 0
    BY <1>4 DEF RevokedTokensGone
  <2>1. t \in Token
    BY <1>4
  <2>2. CASE t \in gone
    BY <1>2, <2>1, <2>2 DEF NoRow
  <2>3. CASE t \notin gone
    <3>1. g \notin S
      BY <1>1, <2>3
    <3> QED BY <1>2, <1>3, <2>1, <2>3, <3>1 DEF RevokedTokensGone
  <2> QED BY <2>2, <2>3
<1>12. Counted'
  <2>1. \A t \in Token : refresh'[t].state # "none" => refresh[t].state # "none"
    BY <1>2 DEF NoRow
  <2>2. \A g \in Grant : grant[g].prev # NoToken => grant[g].prev \in Token
    BY DEF Linked
  <2> QED BY <1>3, <2>1, <2>2 DEF Counted, RenewedTwiceAtMost
<1>13. LostResponseRecoverable'
  <2> SUFFICES ASSUME NEW g \in Grant, grant'[g].status = "ACTIVE", grant'[g].prev # NoToken
               PROVE  /\ refresh'[grant'[g].cur].state = "live"
                      /\ uses[grant'[g].prev] = 1 => refresh'[grant'[g].prev].state = "revoked"
    BY DEF LostResponseRecoverable
  <2>1. g \in Grant \ S /\ grant'[g] = grant[g] /\ grant[g].cur # NoToken
    BY <1>3 DEF Linked
  <2>2. grant[g].cur \in Hashes(g) /\ grant[g].prev \in Hashes(g)
    BY <2>1 DEF Hashes
  <2>3. /\ refresh'[grant[g].cur] = refresh[grant[g].cur]
        /\ refresh'[grant[g].prev] = refresh[grant[g].prev]
    BY <1>2, <1>4, <1>5, <2>1, <2>2
  <2> QED BY <2>1, <2>3 DEF LostResponseRecoverable
<1> QED BY <1>6, <1>7, <1>8, <1>9, <1>10, <1>11, <1>12, <1>13

LEMMA RevokeInv ==
  ASSUME DelegationInv, NEW n \in Renewer, Revoke(n), [RequestNext]_requestVars
  PROVE  TokenInv' /\ GrantInv'
<1> DEFINE g == renewer[n].grant
<1> USE DEF DelegationInv, TokenInv
<1>1. g \in Grant /\ Hashes(g) # {}
  BY DEF Revoke, RenewerBound
<1>2. grant[g].status # "NONE"
  BY <1>1 DEF Linked, EmptyGrant, Hashes
<1>3. grant' = [h \in Grant |-> IF h \in {g} THEN [grant[h] EXCEPT !.status = "REVOKED"] ELSE grant[h]]
  BY <1>1 DEF Revoke, TokenTypeOK
<1>4. /\ refresh' = WithoutRows(UNION {Hashes(h) : h \in {g}})
      /\ access' = WithoutAccess(UNION {Hashes(h) : h \in {g}})
  <2>1. UNION {Hashes(h) : h \in {g}} = Hashes(g)
    OBVIOUS
  <2> QED BY <2>1 DEF Revoke
<1>5. renewer' \in [Renewer -> RenewerState] /\ RenewerBound'
  BY RenewerRowType DEF Revoke, TokenTypeOK, RenewerBound, IdleRenewer
<1>6. UNCHANGED <<blocked, code, nextToken, owner, uses, generation, consent>>
  BY DEF Revoke, requestVars
<1>7. generation' \in [User -> Nat]
  BY <1>6 DEF RequestInv, RequestTypeOK
<1>8. TokenInv'
  <2> DEFINE S == {g}
  <2>1. S \in SUBSET Grant /\ \A h \in S : grant[h].status # "NONE"
    BY <1>1, <1>2
  <2>2. \A h \in Grant \ S : grant[h].status = "ACTIVE" =>
          generation'[grant[h].user] = generation[grant[h].user]
    BY <1>6
  <2> QED BY <1>3, <1>4, <1>5, <1>6, <1>7, <2>1, <2>2, RevokeTogether
<1>9. /\ grant'[g].status = "REVOKED" /\ grant'[g].req = grant[g].req
      /\ grant'[g].delegationExpiresAt = grant[g].delegationExpiresAt
      /\ grant'[g].absoluteExpiresAt = grant[g].absoluteExpiresAt
      /\ \A h \in Grant \ {g} : grant'[h] = grant[h]
  BY <1>1, <1>3 DEF TokenTypeOK, GrantRow
<1>10. GrantInv'
  <2> USE DEF GrantInv
  <2>1. Spent'
    <3>1. \A h \in Grant : grant[h].status # "NONE" =>
            req'[grant[h].req].status \in {"REDEEMED", "SWEPT"}
      BY MovesHold DEF Spent, Linked, Terminal
    <3> QED BY <1>2, <1>9, <3>1 DEF Spent
  <2>2. Singly' /\ DelegationWithinGrant'
    BY <1>2, <1>9 DEF Singly, DelegationWithinGrant
  <2>3. ActiveGrantConsented'
    BY <1>6, <1>9 DEF ActiveGrantConsented
  <2> QED BY <2>1, <2>2, <2>3
<1> QED BY <1>8, <1>10

\* Only the withdrawing user's consent and generation move, and all of that user's grants
\* are revoked.
LEMMA WithdrawInv ==
  ASSUME DelegationInv, NEW u \in User, Withdraw(u), [RequestNext]_requestVars
  PROVE  TokenInv' /\ GrantInv'
<1> DEFINE S == GrantsOf(u)
<1> USE DEF DelegationInv, TokenInv
<1>1. /\ S \in SUBSET Grant /\ \A g \in S : grant[g].status # "NONE"
      /\ \A g \in Grant \ S : grant[g].status # "NONE" => grant[g].user \in User \ {u}
  BY DEF GrantsOf, Linked
<1>2. /\ grant' = [g \in Grant |-> IF g \in S THEN [grant[g] EXCEPT !.status = "REVOKED"]
                                              ELSE grant[g]]
      /\ refresh' = WithoutRows(UNION {Hashes(g) : g \in S})
      /\ access' = WithoutAccess(UNION {Hashes(g) : g \in S})
      /\ UNCHANGED <<blocked, code, renewer, nextToken, owner, uses>>
  BY DEF Withdraw
<1>3. /\ generation' \in [User -> Nat]
      /\ \A v \in User \ {u} : generation'[v] = generation[v] /\ consent'[v] = consent[v]
  <2>1. generation' = [generation EXCEPT ![u] = generation[u] + 1]
    BY DEF Withdraw, WithdrawRequests
  <2>2. \A v \in User \ {u} : consent'[v] = consent[v]
    BY DEF Withdraw, ConsentLost, RequestInv, RequestTypeOK
  <2>3. generation[u] + 1 \in Nat
    BY DEF RequestInv, RequestTypeOK
  <2> QED BY <2>1, <2>2, <2>3 DEF RequestInv, RequestTypeOK
<1> HIDE DEF S
<1>4. TokenInv'
  <2>1. renewer' \in [Renewer -> RenewerState] /\ RenewerBound'
    BY <1>2 DEF TokenTypeOK, RenewerBound
  <2>2. \A g \in Grant \ S : grant[g].status = "ACTIVE" =>
          generation'[grant[g].user] = generation[grant[g].user]
    BY <1>1, <1>3
  <2> QED BY <1>1, <1>2, <1>3, <2>1, <2>2, RevokeTogether
<1>5. \A g \in Grant :
        /\ grant'[g].req = grant[g].req
        /\ grant'[g].delegationExpiresAt = grant[g].delegationExpiresAt
        /\ grant'[g].absoluteExpiresAt = grant[g].absoluteExpiresAt
        /\ g \in S => grant'[g].status = "REVOKED"
        /\ g \notin S => grant'[g] = grant[g]
  BY <1>2 DEF TokenTypeOK, GrantRow
<1>6. GrantInv'
  <2> USE DEF GrantInv
  <2>1. \A g \in Grant : grant'[g].status # "NONE" => grant[g].status # "NONE"
    BY <1>1, <1>5
  <2>2. Spent'
    <3>1. \A g \in Grant : grant[g].status # "NONE" =>
            req'[grant[g].req].status \in {"REDEEMED", "SWEPT"}
      BY MovesHold DEF Spent, Linked, Terminal
    <3> QED BY <1>5, <2>1, <3>1 DEF Spent
  <2>3. Singly' /\ DelegationWithinGrant'
    BY <1>5, <2>1 DEF Singly, DelegationWithinGrant
  <2>4. ActiveGrantConsented'
    BY <1>1, <1>3, <1>5 DEF ActiveGrantConsented
  <2> QED BY <2>2, <2>3, <2>4
<1> QED BY <1>4, <1>6

-------------------------------------------------------------------------------
(* The grant of a redemption, and the link.                                *)

\* The request was APPROVED, so no grant came of it before; its consent is there, and its
\* delegation ends no later than the new grant.
LEMMA RedeemGrants ==
  ASSUME DelegationInv, NEW c \in Code, Redeem(c), [RequestNext]_requestVars
  PROVE  GrantInv'
<1> DEFINE u == code[c].user
           r == code[c].req
           rev == prep[r][req[r].approvedRevision]
<1> USE DEF DelegationInv, TokenInv, GrantInv
<1>1. /\ u \in User /\ r \in Request /\ req[r].status = "APPROVED"
      /\ consent[u].present /\ consent[u].scoped
      /\ req[r].delegationExpiresAt <= now + ceiling.lifetime
      /\ UNCHANGED <<consent, generation>>
  BY DEF Redeem, RedeemRequest, Exchanging
<1>2. PICK g \in Grant :
        /\ grant[g].status = "NONE"
        /\ grant' = [grant EXCEPT ![g] =
             [EmptyGrant EXCEPT !.status = "ACTIVE", !.req = r, !.user = u,
                !.consentId = consent[u].id, !.consentGeneration = generation[u],
                !.key = rev.key, !.host = rev.host, !.perms = rev.perms, !.ttl = rev.ttl,
                !.absoluteExpiresAt = now + ceiling.lifetime,
                !.delegationExpiresAt = req[r].delegationExpiresAt]]
  BY DEF Redeem
<1>3. /\ grant'[g].status = "ACTIVE" /\ grant'[g].user = u /\ grant'[g].req = r
      /\ grant'[g].consentId = consent[u].id /\ grant'[g].consentGeneration = generation[u]
      /\ grant'[g].absoluteExpiresAt = now + ceiling.lifetime
      /\ grant'[g].delegationExpiresAt = req[r].delegationExpiresAt
  BY <1>2 DEF TokenTypeOK, EmptyGrant
<1>4. \A h \in Grant \ {g} : grant'[h] = grant[h]
  BY <1>2 DEF TokenTypeOK
<1>5. req'[r].status = "REDEEMED"
  BY <1>1 DEF Redeem, RedeemRequest, RequestInv, RequestTypeOK, RequestRow
<1> HIDE DEF u, r, rev
<1>6. \A h \in Grant : grant[h].status # "NONE" =>
        /\ req'[grant[h].req].status \in {"REDEEMED", "SWEPT"}
        /\ grant[h].req # r
  BY <1>1, MovesHold DEF Spent, Linked, Terminal
<1>7. Spent' /\ Singly'
  BY <1>3, <1>4, <1>5, <1>6 DEF Spent, Singly
<1>8. ActiveGrantConsented'
  BY <1>1, <1>3, <1>4 DEF ActiveGrantConsented
<1>9. DelegationWithinGrant'
  BY <1>1, <1>3, <1>4 DEF DelegationWithinGrant
<1> QED BY <1>7, <1>8, <1>9

\* A grant whose terms and consent stay as they were stands as it did.
LEMMA SameTerms ==
  ASSUME DelegationInv, [RequestNext]_requestVars, UNCHANGED <<consent, generation>>,
         NEW g \in Grant, grant[g].status # "NONE",
         grant'[g].status = grant[g].status, grant'[g].req = grant[g].req,
         grant'[g].user = grant[g].user, grant'[g].consentId = grant[g].consentId,
         grant'[g].consentGeneration = grant[g].consentGeneration,
         grant'[g].delegationExpiresAt <= grant'[g].absoluteExpiresAt,
         \A h \in Grant \ {g} : grant'[h] = grant[h]
  PROVE  GrantInv'
<1> USE DEF DelegationInv, TokenInv, GrantInv
<1>1. Spent'
  <2>1. \A h \in Grant : grant[h].status # "NONE" =>
          req'[grant[h].req].status \in {"REDEEMED", "SWEPT"}
    BY MovesHold DEF Spent, Linked, Terminal
  <2> QED BY <2>1 DEF Spent
<1>2. Singly' /\ ActiveGrantConsented' /\ DelegationWithinGrant'
  BY DEF Singly, ActiveGrantConsented, DelegationWithinGrant
<1> QED BY <1>1, <1>2

LEMMA LinkGrants ==
  ASSUME DelegationInv, NEW c \in Code, LinkToken(c), [RequestNext]_requestVars
  PROVE  GrantInv'
<1> DEFINE g == code[c].grant
<1> USE DEF DelegationInv, TokenInv, GrantInv
<1>1. g \in Grant /\ grant[g].status = "ACTIVE"
  BY DEF LinkToken, Exchanging
<1>2. grant' = [grant EXCEPT ![g] = [grant[g] EXCEPT !.cur = nextToken]]
  BY DEF LinkToken
<1>3. /\ grant'[g].status = grant[g].status /\ grant'[g].req = grant[g].req
      /\ grant'[g].user = grant[g].user /\ grant'[g].consentId = grant[g].consentId
      /\ grant'[g].consentGeneration = grant[g].consentGeneration
      /\ grant'[g].delegationExpiresAt = grant[g].delegationExpiresAt
      /\ grant'[g].absoluteExpiresAt = grant[g].absoluteExpiresAt
      /\ \A h \in Grant \ {g} : grant'[h] = grant[h]
  BY <1>1, <1>2 DEF TokenTypeOK, GrantRow
<1>4. grant'[g].delegationExpiresAt <= grant'[g].absoluteExpiresAt
  BY <1>1, <1>3 DEF DelegationWithinGrant
<1>5. UNCHANGED <<consent, generation>>
  BY DEF LinkToken, requestVars
<1> HIDE DEF g
<1> QED BY <1>1, <1>3, <1>4, <1>5, SameTerms

-------------------------------------------------------------------------------
(* Renewal.                                                                *)

\* What a renewal of t under g writes, beside the old rows.
Renewed(g, t) ==
  /\ g \in Grant /\ t \in Token /\ nextToken \in Token
  /\ grant[g].status = "ACTIVE" /\ grant[g].cur # NoToken
  /\ grant[g].consentGeneration = generation[grant[g].user]
  /\ refresh[grant[g].cur].state = "live"
  /\ grant'[g].cur = nextToken /\ grant'[g].prev = t
  /\ grant'[g].status = "ACTIVE"
  /\ grant'[g].user = grant[g].user /\ grant'[g].req = grant[g].req
  /\ grant'[g].consentId = grant[g].consentId
  /\ grant'[g].consentGeneration = grant[g].consentGeneration
  /\ grant'[g].delegationExpiresAt <= grant'[g].absoluteExpiresAt
  /\ \A h \in Grant \ {g} : grant'[h] = grant[h]
  /\ owner'[nextToken] = g /\ \A x \in Token \ {nextToken} : owner'[x] = owner[x]
  /\ uses'[t] = uses[t] + 1 /\ \A x \in Token \ {t} : uses'[x] = uses[x]
  /\ nextToken' = nextToken + 1
  /\ UNCHANGED <<blocked, code, consent, generation>>

LEMMA RenewalWrites ==
  ASSUME DelegationInv, NEW n \in Renewer, Renewal(n)
  PROVE  /\ Renewed(renewer[n].grant, renewer[n].token)
         /\ renewer[n].token \in Hashes(renewer[n].grant)
         /\ \/ renewer[n].token = grant[renewer[n].grant].cur
            \/ refresh[renewer[n].token].state = "revoked"
         /\ grant' \in [Grant -> GrantRow]
         /\ renewer' \in [Renewer -> RenewerState] /\ RenewerBound'
         /\ owner' \in [Token -> Grant \cup {NoGrant}]
         /\ uses' \in [Token -> Nat]
<1> DEFINE g == renewer[n].grant
           t == renewer[n].token
           d == now + RenewedTtl(g)
<1> USE DEF DelegationInv, TokenInv
<1>1. /\ g \in Grant /\ t \in Token /\ nextToken \in Token
      /\ t \in Hashes(g) /\ grant[g].status = "ACTIVE"
      /\ t = grant[g].cur \/ refresh[t].state = "revoked"
      /\ generation[grant[g].user] = grant[g].consentGeneration
      /\ refresh[grant[g].cur].state = "live"
      /\ now + RenewalCutoff < grant[g].absoluteExpiresAt
      /\ RenewedTtl(g) > 0
  BY DEF Renewal, RenewalAllowed, RenewerBound
<1>2. grant[g].cur # NoToken
  BY <1>1 DEF Hashes, Linked
<1>3. d \in Nat /\ d <= grant[g].absoluteExpiresAt
  <2>1. /\ now \in Nat /\ grant[g].absoluteExpiresAt \in Nat /\ grant[g].ttl \in Nat
        /\ ceiling.maxTtl \in Nat
    <3>1. now \in Nat /\ ceiling \in Ceiling /\ grant[g] \in GrantRow
      BY <1>1, RequestAssumption DEF RequestInv, RequestTypeOK, TokenTypeOK
    <3> QED BY <3>1 DEF Ceiling, GrantRow
  <2>2. now < grant[g].absoluteExpiresAt
    BY <1>1, <2>1, DelegationAssumption
  <2> HIDE DEF g
  <2> QED BY <2>1, <2>2 DEF RenewedTtl, MinOf
<1>4. /\ grant' = [grant EXCEPT ![g] = [grant[g] EXCEPT !.prev = t, !.cur = nextToken,
                                          !.rotatedAt = now, !.delegationExpiresAt = d]]
      /\ renewer' = [renewer EXCEPT ![n] = IdleRenewer]
      /\ owner' = [owner EXCEPT ![nextToken] = g]
      /\ uses' = [uses EXCEPT ![t] = uses[t] + 1]
      /\ nextToken' = nextToken + 1
      /\ UNCHANGED <<blocked, code, consent, generation>>
  BY DEF Renewal, requestVars
<1>5. grant[g] \in GrantRow /\ now \in Nat /\ t \in Nat /\ nextToken \in Nat
  BY <1>1, TokenNumbers DEF TokenTypeOK, RequestInv, RequestTypeOK
<1> HIDE DEF d
<1>6. grant' \in [Grant -> GrantRow]
  BY <1>3, <1>4, <1>5, GrantRowType DEF TokenTypeOK
<1>7. /\ grant'[g].cur = nextToken /\ grant'[g].prev = t
      /\ grant'[g].status = grant[g].status
      /\ grant'[g].user = grant[g].user /\ grant'[g].req = grant[g].req
      /\ grant'[g].consentId = grant[g].consentId
      /\ grant'[g].consentGeneration = grant[g].consentGeneration
      /\ grant'[g].delegationExpiresAt = d
      /\ grant'[g].absoluteExpiresAt = grant[g].absoluteExpiresAt
      /\ \A h \in Grant \ {g} : grant'[h] = grant[h]
  BY <1>1, <1>4, <1>5 DEF TokenTypeOK, GrantRow
<1>8. /\ owner'[nextToken] = g /\ \A x \in Token \ {nextToken} : owner'[x] = owner[x]
      /\ owner' \in [Token -> Grant \cup {NoGrant}]
  BY <1>1, <1>4 DEF TokenTypeOK
<1>9. /\ uses'[t] = uses[t] + 1 /\ \A x \in Token \ {t} : uses'[x] = uses[x]
      /\ uses' \in [Token -> Nat]
  <2>1. uses \in [Token -> Nat]
    BY DEF TokenTypeOK
  <2>2. uses[t] + 1 \in Nat
    BY <1>1, <2>1
  <2> QED BY <1>1, <1>4, <2>1, <2>2
<1>10. renewer' \in [Renewer -> RenewerState] /\ RenewerBound'
  BY <1>4, RenewerRowType DEF TokenTypeOK, RenewerBound, IdleRenewer
<1>11. Renewed(g, t)
  <2>1. grant'[g].status = "ACTIVE" /\ grant'[g].delegationExpiresAt <= grant'[g].absoluteExpiresAt
    BY <1>1, <1>3, <1>7
  <2> HIDE DEF g, t
  <2> QED BY <1>1, <1>2, <1>4, <1>7, <1>8, <1>9, <2>1 DEF Renewed
<1> QED BY <1>1, <1>6, <1>8, <1>9, <1>10, <1>11

\* Whatever becomes of the rows of the old tokens, as long as none of them stays live and
\* a row is left for t only the first time.
LEMMA RenewedTokens ==
  ASSUME DelegationInv, NEW g, NEW t, Renewed(g, t), t \in Hashes(g), uses[t] <= 1,
         refresh' \in [Token -> RefreshRow], access' \in [Token -> Nat],
         refresh'[nextToken].state = "live",
         \A x \in Hashes(g) : refresh'[x].state # "live",
         \A x \in Token \ (Hashes(g) \cup {nextToken}) : refresh'[x] = refresh[x],
         \A x \in Token \ Hashes(g) : access'[x] = access[x],
         refresh'[t].state # "none" => uses[t] = 0,
         uses[t] = 0 => refresh'[t].state = "revoked",
         grant' \in [Grant -> GrantRow], owner' \in [Token -> Grant \cup {NoGrant}],
         uses' \in [Token -> Nat], renewer' \in [Renewer -> RenewerState], RenewerBound'
  PROVE  TokenInv'
<1> USE DEF DelegationInv, TokenInv
<1>1. /\ g \in Grant /\ t \in Token /\ nextToken \in Token
      /\ t \in Nat /\ nextToken \in Nat /\ nextToken # NoToken /\ t # NoToken
  BY TokenNumbers DEF Renewed
<1>2. /\ grant'[g].cur = nextToken /\ grant'[g].prev = t /\ grant'[g].status = "ACTIVE"
      /\ grant'[g].user = grant[g].user /\ grant'[g].req = grant[g].req
      /\ grant'[g].consentGeneration = grant[g].consentGeneration
      /\ \A h \in Grant \ {g} : grant'[h] = grant[h]
      /\ UNCHANGED <<blocked, code, generation>>
  BY DEF Renewed
<1>3. \A h \in Grant : /\ Hashes(h) \subseteq Token
                       /\ \A x \in Hashes(h) : x < nextToken
  <2> SUFFICES ASSUME NEW h \in Grant, NEW x \in Hashes(h) PROVE x \in Token /\ x < nextToken
    OBVIOUS
  <2>1. CASE x = grant[h].cur
    BY <2>1 DEF Hashes, Linked
  <2>2. CASE x = grant[h].prev
    <3>1. /\ x \in Token /\ x < grant[h].cur /\ grant[h].cur \in Token /\ grant[h].cur < nextToken
      BY <2>2 DEF Hashes, Linked
    <3>2. x \in Nat /\ grant[h].cur \in Nat
      BY <3>1, TokenNumbers
    <3>3. x < nextToken
      BY <1>1, <3>1, <3>2
    <3> QED BY <3>1, <3>3
  <2> QED BY <2>1, <2>2 DEF Hashes
<1>4. \A h \in Grant \ {g} : Hashes(h) \cap (Hashes(g) \cup {nextToken}) = {}
  <2> SUFFICES ASSUME NEW h \in Grant \ {g}, NEW x \in Hashes(h)
               PROVE  x \notin Hashes(g) /\ x # nextToken
    OBVIOUS
  <2>1. x # nextToken
    BY <1>1, <1>3
  <2>2. x \notin Hashes(g)
    BY <1>1, OneName DEF Hashes
  <2> QED BY <2>1, <2>2
<1>5. nextToken \notin Hashes(g) /\ t # nextToken /\ t < nextToken
  BY <1>1, <1>3
<1>6. /\ owner'[nextToken] = g /\ \A x \in Token \ {nextToken} : owner'[x] = owner[x]
      /\ uses'[t] = uses[t] + 1 /\ \A x \in Token \ {t} : uses'[x] = uses[x]
      /\ nextToken' = nextToken + 1
  BY DEF Renewed
<1>7. uses[t] \in Nat /\ access[nextToken] = 0 /\ uses[nextToken] = 0
  BY <1>1 DEF Unborn, TokenTypeOK
<1>8. TokenTypeOK'
  BY <1>1, <1>2, <1>6 DEF TokenTypeOK
<1>9. Linked'
  <2>1. ASSUME NEW h \in Grant \ {g}
        PROVE  /\ grant[h].status = "NONE" => grant[h] = EmptyGrant
               /\ grant[h].status # "NONE" => grant[h].user \in User /\ grant[h].req \in Request
               /\ grant[h].cur # NoToken => /\ grant[h].cur \in Token
                                            /\ grant[h].cur < nextToken'
                                            /\ owner'[grant[h].cur] = h
               /\ grant[h].prev # NoToken => /\ grant[h].prev \in Token
                                             /\ grant[h].prev < grant[h].cur
                                             /\ owner'[grant[h].prev] = h
                                             /\ grant[h].cur # NoToken
    <3>1. grant[h].cur # NoToken => grant[h].cur # nextToken /\ grant[h].cur < nextToken + 1
      <4>1. grant[h].cur # NoToken => grant[h].cur \in Nat /\ grant[h].cur < nextToken
        BY TokenNumbers DEF Linked
      <4> QED BY <1>1, <4>1
    <3>2. grant[h].prev # NoToken => grant[h].prev # nextToken
      BY <1>4 DEF Hashes
    <3> QED BY <1>6, <3>1, <3>2 DEF Linked
  <2>2. /\ grant'[g].status # "NONE" /\ grant'[g].user \in User /\ grant'[g].req \in Request
    BY <1>1, <1>2 DEF Linked, Renewed
  <2>3. owner'[t] = g
    BY <1>1, <1>5, <1>6 DEF Linked, Hashes
  <2>4. nextToken < nextToken'
    BY <1>1, <1>6
  <2> QED BY <1>1, <1>2, <1>5, <1>6, <2>1, <2>2, <2>3, <2>4 DEF Linked
<1>10. Exchanging'
  <2>1. ASSUME NEW c \in Code, code[c].stage = "linked"
        PROVE  /\ code[c].grant \in Grant \ {g}
               /\ grant'[code[c].grant].cur = code[c].token
               /\ refresh'[code[c].token].state = "none"
    <3>1. /\ code[c].grant \in Grant /\ code[c].token \in Token
          /\ grant[code[c].grant].cur = code[c].token /\ refresh[code[c].token].state = "none"
      BY <2>1 DEF Exchanging
    <3>2. code[c].grant # g
      BY <3>1 DEF Renewed
    <3>3. code[c].token \in Hashes(code[c].grant)
      BY <3>1, TokenNumbers DEF Hashes
    <3> QED BY <1>2, <1>4, <3>1, <3>2, <3>3
  <2>2. \A h \in Grant : grant[h].status # "NONE" => grant'[h].status # "NONE"
    BY <1>2
  <2> QED BY <1>2, <2>1, <2>2 DEF Exchanging
<1>11. Unborn'
  <2> SUFFICES ASSUME NEW x \in Token, x >= nextToken + 1
               PROVE  refresh'[x].state = "none" /\ access'[x] = 0 /\ uses'[x] = 0
    BY <1>6 DEF Unborn
  <2>1. x \in Nat /\ x >= nextToken /\ x # nextToken
    <3>1. x \in Nat
      BY TokenNumbers
    <3> QED BY <1>1, <3>1
  <2>2. x \notin Hashes(g) /\ x # t
    BY <1>1, <1>3, <2>1
  <2> QED BY <1>6, <2>1, <2>2 DEF Unborn
<1>12. LiveTokenOfActiveGrant'
  <2> SUFFICES ASSUME NEW x \in Token, refresh'[x].state = "live"
               PROVE  \E h \in Grant : /\ grant'[h].cur = x
                                       /\ grant'[h].status = "ACTIVE"
                                       /\ grant'[h].consentGeneration = generation'[grant'[h].user]
    BY DEF LiveTokenOfActiveGrant
  <2>1. CASE x = nextToken
    BY <1>1, <1>2, <2>1 DEF Renewed
  <2>2. CASE x # nextToken
    <3>1. x \notin Hashes(g) /\ refresh[x].state = "live"
      BY <2>2
    <3>2. PICK h \in Grant : /\ grant[h].cur = x
                             /\ grant[h].status = "ACTIVE"
                             /\ grant[h].consentGeneration = generation[grant[h].user]
      BY <3>1 DEF LiveTokenOfActiveGrant
    <3>3. h # g
      BY <3>1, <3>2, TokenNumbers DEF Hashes
    <3> QED BY <1>2, <3>2, <3>3
  <2> QED BY <2>1, <2>2
<1>13. RevokedTokensGone'
  <2> SUFFICES ASSUME NEW h \in Grant, grant'[h].status = "REVOKED", NEW x \in Hashes(h)'
               PROVE  refresh'[x].state = "none" /\ access'[x] = 0
    BY DEF RevokedTokensGone
  <2>1. h # g
    BY <1>2
  <2>2. grant'[h] = grant[h]
    BY <1>2, <2>1
  <2>3. x \in Hashes(h)
    BY <2>2 DEF Hashes
  <2>4. x \in Token /\ x \notin Hashes(g) \cup {nextToken}
    BY <1>3, <1>4, <2>1, <2>3
  <2> QED BY <2>2, <2>3, <2>4 DEF RevokedTokensGone
<1>14. Counted'
  <2>1. \A x \in Token : uses'[x] <= 2
    BY <1>1, <1>6, <1>7 DEF Counted, RenewedTwiceAtMost
  <2>2. ASSUME NEW h \in Grant \ {g}
        PROVE  /\ grant[h].cur # NoToken => uses'[grant[h].cur] = 0
               /\ grant[h].prev # NoToken =>
                    /\ uses'[grant[h].prev] >= 1
                    /\ refresh'[grant[h].prev].state # "none" => uses'[grant[h].prev] = 1
    <3>1. grant[h].cur # NoToken => /\ grant[h].cur \in Token \ {t}
                                    /\ uses'[grant[h].cur] = uses[grant[h].cur]
      BY <1>3, <1>4, <1>6 DEF Hashes
    <3>2. grant[h].prev # NoToken => /\ grant[h].prev \in Token \ {t}
                                     /\ uses'[grant[h].prev] = uses[grant[h].prev]
                                     /\ refresh'[grant[h].prev] = refresh[grant[h].prev]
      BY <1>3, <1>4, <1>6 DEF Hashes
    <3> QED BY <3>1, <3>2 DEF Counted
  <2>3. uses'[nextToken] = 0
    BY <1>1, <1>5, <1>6, <1>7
  <2>4. uses'[t] >= 1 /\ (refresh'[t].state # "none" => uses'[t] = 1)
    BY <1>6, <1>7
  <2> QED BY <1>2, <2>1, <2>2, <2>3, <2>4 DEF Counted, RenewedTwiceAtMost
<1>15. LostResponseRecoverable'
  <2> SUFFICES ASSUME NEW h \in Grant, grant'[h].status = "ACTIVE", grant'[h].prev # NoToken
               PROVE  /\ refresh'[grant'[h].cur].state = "live"
                      /\ uses'[grant'[h].prev] = 1 => refresh'[grant'[h].prev].state = "revoked"
    BY DEF LostResponseRecoverable
  <2>1. CASE h = g
    <3>1. uses'[t] = 1 => uses[t] = 0
      BY <1>6, <1>7
    <3> QED BY <1>2, <2>1, <3>1
  <2>2. CASE h # g
    <3>1. grant'[h] = grant[h] /\ grant[h].cur # NoToken
      BY <1>2, <2>2 DEF Linked
    <3>2. grant[h].cur \in Hashes(h) /\ grant[h].prev \in Hashes(h)
      BY <3>1 DEF Hashes
    <3>3. /\ refresh'[grant[h].cur] = refresh[grant[h].cur]
          /\ refresh'[grant[h].prev] = refresh[grant[h].prev]
          /\ uses'[grant[h].prev] = uses[grant[h].prev]
      BY <1>3, <1>4, <1>6, <2>2, <3>2
    <3> QED BY <3>1, <3>3 DEF LostResponseRecoverable
  <2> QED BY <2>1, <2>2
<1> QED BY <1>8, <1>9, <1>10, <1>11, <1>12, <1>13, <1>14, <1>15

LEMMA RenewInv ==
  ASSUME DelegationInv, [RequestNext]_requestVars, NEW n \in Renewer
  PROVE  /\ Rotate(n) => TokenInv' /\ GrantInv'
         /\ Recover(n) => TokenInv' /\ GrantInv'
<1> DEFINE g == renewer[n].grant
           t == renewer[n].token
<1> USE DEF DelegationInv, TokenInv
<1>1. ASSUME Renewal(n)
      PROVE  GrantInv'
  <2> HIDE DEF g
  <2> QED BY <1>1, RenewalWrites, SameTerms DEF Renewed, g
<1>2. ASSUME Rotate(n) PROVE TokenInv'
  <2>1. /\ Renewal(n) /\ t = grant[g].cur
        /\ refresh' = [refresh EXCEPT ![t] = [refresh[t] EXCEPT !.state = "revoked"],
                                      ![nextToken] = [state |-> "live", expiresAt |-> now + RefreshTtl]]
        /\ access' = access
    BY <1>2 DEF Rotate, LiveRow
  <2>2. /\ Renewed(g, t) /\ t \in Hashes(g) /\ g \in Grant /\ t \in Token /\ nextToken \in Token
        /\ grant' \in [Grant -> GrantRow] /\ owner' \in [Token -> Grant \cup {NoGrant}]
        /\ uses' \in [Token -> Nat] /\ renewer' \in [Renewer -> RenewerState] /\ RenewerBound'
    BY <2>1, RenewalWrites DEF Renewed
  <2> HIDE DEF g, t
  <2>3. t # nextToken /\ t \in Nat /\ nextToken \in Nat
    BY <2>1, <2>2, TokenNumbers DEF Linked
  <2>4. uses[t] = 0
    BY <2>1, <2>2, TokenNumbers DEF Counted
  <2>5. refresh' \in [Token -> RefreshRow]
    <3>1. now + RefreshTtl \in Nat
      BY DelegationAssumption DEF RequestInv, RequestTypeOK
    <3> QED BY <2>1, <2>2, <3>1, TokenRowType DEF TokenTypeOK
  <2>6. /\ refresh'[t].state = "revoked" /\ refresh'[nextToken].state = "live"
        /\ \A x \in Token \ {t, nextToken} : refresh'[x] = refresh[x]
    BY <2>1, <2>2, <2>3 DEF TokenTypeOK, RefreshRow
  <2>7. ASSUME NEW x \in Hashes(g) PROVE refresh'[x].state # "live"
    <3>1. CASE x = t
      BY <2>6, <3>1
    <3>2. CASE x # t
      <4>1. x = grant[g].prev /\ x # NoToken /\ x \in Token
        BY <2>1, <2>2, <2>7, <3>2 DEF Hashes, Linked
      <4>2. refresh[x].state # "live"
        BY <2>2, <4>1, OneName DEF LiveTokenOfActiveGrant
      <4>3. x # nextToken
        <5>1. x \in Nat /\ x < t /\ t < nextToken
          BY <2>1, <2>2, <4>1, TokenNumbers DEF Linked
        <5> QED BY <2>3, <5>1
      <4> QED BY <2>6, <3>2, <4>1, <4>2, <4>3
    <3> QED BY <3>1, <3>2
  <2>8. access' \in [Token -> Nat] /\ \A x \in Token : access'[x] = access[x]
    BY <2>1 DEF TokenTypeOK
  <2>9. uses[t] <= 1 /\ \A x \in Token \ (Hashes(g) \cup {nextToken}) : refresh'[x] = refresh[x]
    BY <2>2, <2>4, <2>6
  <2> QED BY <2>2, <2>4, <2>5, <2>6, <2>7, <2>8, <2>9, RenewedTokens
<1>3. ASSUME Recover(n) PROVE TokenInv'
  <2>1. /\ Renewal(n) /\ t = grant[g].prev
        /\ refresh' = [WithoutRows(Hashes(g)) EXCEPT
                         ![nextToken] = [state |-> "live", expiresAt |-> now + RefreshTtl]]
        /\ access' = WithoutAccess(Hashes(g))
    BY <1>3 DEF Recover, LiveRow
  <2>2. /\ Renewed(g, t) /\ t \in Hashes(g) /\ g \in Grant /\ t \in Token /\ nextToken \in Token
        /\ t = grant[g].cur \/ refresh[t].state = "revoked"
        /\ grant' \in [Grant -> GrantRow] /\ owner' \in [Token -> Grant \cup {NoGrant}]
        /\ uses' \in [Token -> Nat] /\ renewer' \in [Renewer -> RenewerState] /\ RenewerBound'
    BY <2>1, RenewalWrites DEF Renewed
  <2> HIDE DEF g, t
  <2>3. t # NoToken /\ t # grant[g].cur
    BY <2>1, <2>2, TokenNumbers, OneName
  <2>4. uses[t] = 1
    BY <2>1, <2>2, <2>3 DEF Counted
  <2>5. nextToken \notin Hashes(g)
    <3>1. \A x \in Hashes(g) : x \in Nat /\ x < nextToken
      <4>1. t \in Nat /\ grant[g].cur \in Nat /\ t < grant[g].cur /\ grant[g].cur < nextToken
        BY <2>1, <2>2, <2>3, TokenNumbers DEF Linked
      <4>2. nextToken \in Nat /\ \A x \in Hashes(g) : x \in {t, grant[g].cur}
        BY <2>1, <2>2, TokenNumbers DEF Hashes
      <4> QED BY <4>1, <4>2
    <3> QED BY <3>1
  <2>6. refresh' \in [Token -> RefreshRow] /\ access' \in [Token -> Nat]
    <3>1. now + RefreshTtl \in Nat
      BY DelegationAssumption DEF RequestInv, RequestTypeOK
    <3>2. WithoutRows(Hashes(g)) \in [Token -> RefreshRow]
      BY TokenRowType DEF WithoutRows, TokenTypeOK
    <3>3. WithoutAccess(Hashes(g)) \in [Token -> Nat]
      BY DEF WithoutAccess, TokenTypeOK
    <3> QED BY <2>1, <3>1, <3>2, <3>3, TokenRowType
  <2>7. /\ refresh'[nextToken].state = "live"
        /\ \A x \in Token \ {nextToken} :
             refresh'[x] = IF x \in Hashes(g) THEN NoRow ELSE refresh[x]
        /\ \A x \in Token \ Hashes(g) : access'[x] = access[x]
    BY <2>1, <2>2 DEF WithoutRows, WithoutAccess
  <2>8. \A x \in Hashes(g) : x \in Token \ {nextToken} /\ refresh'[x].state = "none"
    <3>1. Hashes(g) \subseteq Token
      BY <2>2 DEF Hashes, Linked
    <3> QED BY <2>5, <2>7, <3>1 DEF NoRow
  <2>9. /\ refresh'[t].state = "none"
        /\ \A x \in Hashes(g) : refresh'[x].state # "live"
        /\ \A x \in Token \ (Hashes(g) \cup {nextToken}) : refresh'[x] = refresh[x]
    BY <2>2, <2>7, <2>8
  <2>10. uses[t] <= 1 /\ uses[t] # 0
    BY <2>4
  <2> QED BY <2>2, <2>6, <2>7, <2>9, <2>10, RenewedTokens
<1>4. Rotate(n) => Renewal(n)
  BY DEF Rotate
<1>5. Recover(n) => Renewal(n)
  BY DEF Recover
<1> QED BY <1>1, <1>2, <1>3, <1>4, <1>5

-------------------------------------------------------------------------------
(* The theorems.                                                           *)

LEMMA DelegationStep ==
  ASSUME DelegationInv, Next
  PROVE  DelegationInv'
<1> USE DEF DelegationInv
<1>1. [RequestNext]_requestVars
  BY StepImplements DEF RequestInv, TokenInv
<1>2. RequestInv'
  BY <1>1, StepInv, StutterInv
<1>3. ASSUME UNCHANGED <<grant, generation>>, UNCHANGED consent PROVE GrantInv'
  BY <1>1, <1>3, GrantFrame
<1>4. CASE RequestStep /\ UNCHANGED tokenVars
  <2>1. UNCHANGED <<consent, generation>>
    BY <1>4 DEF RequestStep, Par, Resolve, Sweep, PrepareRead, ApproveRead, PrepareCommit,
                NewRevision, ApproveCommit, ApproveAgain, MarkHostSigned, RecordHosting, Abandon, SendAgain,
                Deny, ChangeKey, ChangeCeiling, Tick
  <2>2. GrantInv'
    BY <1>3, <1>4, <2>1 DEF tokenVars
  <2> QED BY <1>2, <1>4, <2>2, SideInv
<1>5. CASE \E c \in Code, u \in User, r \in Request : IssueCode(c, u, r)
  <2>1. PICK c \in Code, u \in User, r \in Request : IssueCode(c, u, r)
    BY <1>5
  <2>2. \A v \in User : consent[v].present /\ consent[v].scoped => consent'[v] = consent[v]
    <3>1. consent' = [consent EXCEPT ![u] = [present |-> TRUE, scoped |-> TRUE,
                        id |-> IF consent[u].present THEN consent[u].id ELSE consent[u].id + 1]]
      BY <2>1 DEF IssueCode, AcceptConsent
    <3>2. consent[u] \in Consent
      BY DEF RequestInv, RequestTypeOK
    <3>3. consent[u].present /\ consent[u].scoped =>
            consent[u] = [present |-> TRUE, scoped |-> TRUE, id |-> consent[u].id]
      BY <3>2 DEF Consent
    <3> QED BY <3>1, <3>3 DEF RequestInv, RequestTypeOK
  <2>3. UNCHANGED <<grant, generation>>
    BY <2>1 DEF IssueCode
  <2>4. GrantInv'
    BY <1>1, <2>2, <2>3, GrantFrame
  <2> QED BY <1>2, <2>1, <2>4, CodeInv
<1>6. CASE \E c \in Code : SpendCode(c) \/ FailExchange(c)
  <2>1. GrantInv'
    BY <1>3, <1>6 DEF SpendCode, FailExchange, requestVars
  <2> QED BY <1>2, <1>6, <2>1, CodeInv
<1>7. CASE \E c \in Code : Redeem(c)
  BY <1>1, <1>2, <1>7, RedeemTokens, RedeemGrants
<1>8. CASE \E c \in Code : LinkToken(c)
  BY <1>1, <1>2, <1>8, LinkTokens, LinkGrants
<1>9. CASE \E c \in Code : InsertRefresh(c) \/ InsertAccess(c)
  <2>1. GrantInv'
    BY <1>3, <1>9 DEF InsertRefresh, InsertAccess, requestVars
  <2> QED BY <1>2, <1>9, <2>1, InsertTokens
<1>10. CASE \E t \in Token : RevokeAccess(t)
  <2>1. GrantInv'
    BY <1>3, <1>10 DEF RevokeAccess, requestVars
  <2> QED BY <1>2, <1>10, <2>1, RevokeAccessTokens
<1>11. CASE \E n \in Renewer, op \in {"renew", "revoke"}, t \in Token : LoadRenewal(n, op, t)
  <2>1. GrantInv'
    BY <1>3, <1>11 DEF LoadRenewal, requestVars
  <2> QED BY <1>2, <1>11, <2>1, SideInv
<1>12. CASE \E n \in Renewer : UnsealAndRetry(n) \/ RefuseRenewal(n)
  <2>1. GrantInv'
    BY <1>3, <1>12 DEF UnsealAndRetry, RefuseRenewal, requestVars
  <2> QED BY <1>2, <1>12, <2>1, SideInv
<1>13. CASE \E n \in Renewer : Rotate(n) \/ Recover(n)
  BY <1>1, <1>2, <1>13, RenewInv
<1>14. CASE \E n \in Renewer : Revoke(n)
  BY <1>1, <1>2, <1>14, RevokeInv
<1>15. CASE \E u \in User : Withdraw(u)
  BY <1>1, <1>2, <1>15, WithdrawInv
<1>16. CASE \E u \in User : SetBlock(u)
  <2>1. GrantInv'
    BY <1>3, <1>16 DEF SetBlock, requestVars
  <2> QED BY <1>2, <1>16, <2>1, SideInv
<1> QED BY <1>4, <1>5, <1>6, <1>7, <1>8, <1>9, <1>10, <1>11, <1>12, <1>13, <1>14, <1>15, <1>16
    DEF Next

LEMMA DelegationStutter ==
  ASSUME DelegationInv, UNCHANGED vars
  PROVE  DelegationInv'
<1> USE DEF DelegationInv, vars
<1>1. RequestInv'
  BY StutterInv
<1>2. TokenInv'
  <2>1. renewer' \in [Renewer -> RenewerState] /\ RenewerBound'
    BY DEF TokenInv, TokenTypeOK, RenewerBound, tokenVars
  <2> QED BY <2>1, TokenFrame DEF tokenVars, requestVars
<1>3. GrantInv'
  BY GrantFrame DEF tokenVars, requestVars
<1> QED BY <1>1, <1>2, <1>3

\* The invariant holds of every reachable state.
THEOREM DelegationInvariant == Spec => []DelegationInv
<1>1. Init => DelegationInv
  BY DelegationInit
<1>2. DelegationInv /\ [Next]_vars => DelegationInv'
  BY DelegationStep, DelegationStutter
<1> QED BY <1>1, <1>2, PTL DEF Spec

\* What is proved of requests by themselves holds while their codes are exchanged and their
\* grants end: approvals are current and of the newest preparation, what was signed stays as
\* it was signed, and a request that is over stays over.
THEOREM RequestsInTheWhole ==
  Spec => /\ []ApprovalIsCurrent /\ []ApprovalIsNewestRevision
          /\ SignedOnce /\ TerminalStays
<1>1. Init => RequestInit
  BY DEF Init
<1>2. DelegationInv /\ [Next]_vars => [RequestNext]_requestVars
  BY StepImplements DEF DelegationInv, RequestInv, TokenInv
<1>3. Spec => RequestSpec
  BY <1>1, <1>2, DelegationInvariant, PTL DEF Spec, RequestSpec
<1> QED
  BY <1>3, ApprovalsAreCurrent, ApprovalsAreNewest, SigningIsOnce, TerminalIsFinal, PTL

\* All rows, codes, handlers and counters stay within their types.
THEOREM DelegationTypes == Spec => []TypeOK
<1>1. DelegationInv => TypeOK
  BY DEF DelegationInv, RequestInv, TokenInv, TypeOK
<1> QED BY <1>1, DelegationInvariant, PTL

\* A refresh token that could still be renewed is the current one of an ACTIVE grant of the
\* current generation, at every point of every exchange, renewal and withdrawal.
THEOREM LiveTokensHaveActiveGrants == Spec => []LiveTokenOfActiveGrant
<1>1. DelegationInv => LiveTokenOfActiveGrant
  BY DEF DelegationInv, TokenInv
<1> QED BY <1>1, DelegationInvariant, PTL

\* An ACTIVE grant rests on the very consent it was redeemed under.
THEOREM ActiveGrantsAreConsented == Spec => []ActiveGrantConsented
<1>1. DelegationInv => ActiveGrantConsented
  BY DEF DelegationInv, GrantInv
<1> QED BY <1>1, DelegationInvariant, PTL

\* A revoked grant names no token that still has a row.
THEOREM RevokedTokensAreGone == Spec => []RevokedTokensGone
<1>1. DelegationInv => RevokedTokensGone
  BY DEF DelegationInv, TokenInv
<1> QED BY <1>1, DelegationInvariant, PTL

\* One request yields one grant, however many codes were issued for it.
THEOREM RequestsYieldOneGrant == Spec => []OneGrantPerRequest
<1>1. DelegationInv => OneGrantPerRequest
  <2> SUFFICES ASSUME DelegationInv, NEW g \in Grant, NEW h \in Grant,
                      grant[g].status # "NONE", grant[g].req = grant[h].req
               PROVE  g = h
    BY DEF OneGrantPerRequest
  <2>1. grant[g].req \in Request
    BY DEF DelegationInv, TokenInv, Linked
  <2>2. grant[h].status # "NONE"
    <3>1. grant[h].status = "NONE" => grant[h].req = NoRequest
      BY DEF DelegationInv, TokenInv, Linked, EmptyGrant
    <3> QED BY <2>1, <3>1, RequestAssumption
  <2> QED BY <2>2 DEF DelegationInv, GrantInv, Singly
<1> QED BY <1>1, DelegationInvariant, PTL

\* A refresh token is accepted for renewal twice at most.
THEOREM TokensRenewTwiceAtMost == Spec => []RenewedTwiceAtMost
<1>1. DelegationInv => RenewedTwiceAtMost
  BY DEF DelegationInv, TokenInv, Counted
<1> QED BY <1>1, DelegationInvariant, PTL

\* Until it was used, the recovery from a lost response stays possible.
THEOREM LostResponsesAreRecoverable == Spec => []LostResponseRecoverable
<1>1. DelegationInv => LostResponseRecoverable
  BY DEF DelegationInv, TokenInv
<1> QED BY <1>1, DelegationInvariant, PTL

\* No delegation outlives its grant.
THEOREM DelegationsEndWithTheirGrant == Spec => []DelegationWithinGrant
<1>1. DelegationInv => DelegationWithinGrant
  BY DEF DelegationInv, GrantInv
<1> QED BY <1>1, DelegationInvariant, PTL

-------------------------------------------------------------------------------
(* Access rows that outlive their grant only age.                          *)

\* A token that is renewed has arrived, so the exchange that inserts an access row late is
\* never about a token that was rotated; and access rows are dated one lifetime ahead.
ArrivalInv ==
  /\ \A n \in Renewer : renewer[n].stage = "loaded" =>
       Held(renewer[n].token) /\ renewer[n].token < nextToken
  /\ \A c \in Code : code[c].stage = "refreshed" => refresh[code[c].token].state # "revoked"
  /\ AccessWithinTtl

LEMMA TokensGrow ==
  ASSUME DelegationInv, [Next]_vars
  PROVE  nextToken' \in Nat /\ nextToken <= nextToken'
<1>1. nextToken' \in {nextToken, nextToken + 1}
  BY DEF Next, vars, tokenVars, IssueCode, SpendCode, Redeem, LinkToken, InsertRefresh,
         InsertAccess, FailExchange, RevokeAccess, LoadRenewal, UnsealAndRetry, Rotate, Recover,
         Renewal, Revoke, RefuseRenewal, Withdraw, SetBlock
<1> QED BY <1>1 DEF DelegationInv, TokenInv, TokenTypeOK

\* A step moves a code on, or gives it a token that is new.
LEMMA CodeMoves ==
  ASSUME DelegationInv, [Next]_vars, NEW c \in Code
  PROVE  /\ code'[c].token # code[c].token =>
              (code[c].stage = "none" /\ code'[c].token = 0) \/ code'[c].token = nextToken
         /\ code[c].stage = "done" => code'[c] = code[c]
<1> USE DEF DelegationInv, TokenInv, TokenTypeOK
<1>1. code[c] \in CodeRow /\ nextToken \in Nat
  OBVIOUS
<1>2. ASSUME NEW d \in Code, NEW s, code[d].stage # "done",
             code' = [code EXCEPT ![d] = [code[d] EXCEPT !.stage = s]]
      PROVE  /\ code'[c].token = code[c].token
             /\ code[c].stage = "done" => code'[c] = code[c]
  BY <1>1, <1>2, CodeStage
<1>3. CASE UNCHANGED code
  BY <1>1, <1>3
<1>4. CASE \E d \in Code, u \in User, r \in Request : IssueCode(d, u, r)
  <2>1. PICK d \in Code, u \in User, r \in Request : IssueCode(d, u, r)
    BY <1>4
  <2>2. code[d].stage = "none"
        /\ code' = [code EXCEPT ![d] = [NoCode EXCEPT !.stage = "issued", !.user = u, !.req = r]]
    BY <2>1 DEF IssueCode
  <2> QED BY <1>1, <2>2 DEF NoCode
<1>5. CASE \E d \in Code : Redeem(d)
  <2>1. PICK d \in Code : Redeem(d)
    BY <1>5
  <2>2. PICK g \in Grant : code' = [code EXCEPT ![d].stage = "redeemed", ![d].grant = g]
    BY <2>1 DEF Redeem
  <2>3. code[d].stage = "spent"
    BY <2>1 DEF Redeem
  <2> QED BY <1>1, <2>2, <2>3 DEF CodeRow
<1>6. CASE \E d \in Code : LinkToken(d)
  <2>1. PICK d \in Code : LinkToken(d)
    BY <1>6
  <2>2. code[d].stage = "redeemed"
        /\ code' = [code EXCEPT ![d].stage = "linked", ![d].token = nextToken]
    BY <2>1 DEF LinkToken
  <2> QED BY <1>1, <2>2 DEF CodeRow
<1>7. CASE \E d \in Code : SpendCode(d) \/ FailExchange(d) \/ InsertRefresh(d) \/ InsertAccess(d)
  <2>1. PICK d \in Code : SpendCode(d) \/ FailExchange(d) \/ InsertRefresh(d) \/ InsertAccess(d)
    BY <1>7
  <2>2. code[d].stage # "done"
    BY <2>1 DEF SpendCode, FailExchange, InsertRefresh, InsertAccess
  <2>3. \E s : code' = [code EXCEPT ![d] = [code[d] EXCEPT !.stage = s]]
    BY <2>1 DEF SpendCode, FailExchange, InsertRefresh, InsertAccess
  <2> QED BY <1>2, <2>2, <2>3
<1> QED BY <1>3, <1>4, <1>5, <1>6, <1>7
    DEF Next, vars, tokenVars, RevokeAccess, LoadRenewal, UnsealAndRetry, Rotate, Recover, Renewal,
        Revoke, RefuseRenewal, Withdraw, SetBlock

\* An exchange has its refresh row by the step that inserts it, which leaves it live.
LEMMA CodeRefreshed ==
  ASSUME DelegationInv, [Next]_vars, NEW c \in Code, code'[c].stage = "refreshed"
  PROVE  /\ code'[c].token = code[c].token /\ code[c].token \in Token
         /\ code[c].stage = "refreshed" \/ refresh'[code[c].token].state = "live"
<1> USE DEF DelegationInv, TokenInv, TokenTypeOK
<1>1. code[c] \in CodeRow
  OBVIOUS
<1>2. CASE code'[c] = code[c]
  BY <1>2 DEF Exchanging
<1>3. CASE InsertRefresh(c)
  <2>1. /\ code[c].stage = "linked"
        /\ code' = [code EXCEPT ![c] = [code[c] EXCEPT !.stage = "refreshed"]]
        /\ refresh' = [refresh EXCEPT ![code[c].token] =
                        [state |-> "live", expiresAt |-> now + RefreshTtl]]
    BY <1>3 DEF InsertRefresh
  <2>2. code[c].token \in Token
    BY <2>1 DEF Exchanging
  <2> QED BY <1>1, <2>1, <2>2, CodeStage
<1>4. CASE \E d \in Code : InsertRefresh(d)
  <2>1. PICK d \in Code : InsertRefresh(d)
    BY <1>4
  <2>2. d # c => code'[c] = code[c]
    BY <2>1 DEF InsertRefresh
  <2> QED BY <1>2, <1>3, <2>1, <2>2
<1>5. CASE \E d \in Code, u \in User, r \in Request : IssueCode(d, u, r)
  <2>1. PICK d \in Code, u \in User, r \in Request : IssueCode(d, u, r)
    BY <1>5
  <2>2. code' = [code EXCEPT ![d] = [NoCode EXCEPT !.stage = "issued", !.user = u, !.req = r]]
    BY <2>1 DEF IssueCode
  <2>3. d # c
    BY <2>2 DEF NoCode
  <2> QED BY <1>2, <2>2, <2>3
<1>6. CASE \E d \in Code : Redeem(d)
  <2>1. PICK d \in Code, g \in Grant : code' = [code EXCEPT ![d].stage = "redeemed", ![d].grant = g]
    BY <1>6 DEF Redeem
  <2>2. d # c
    BY <1>1, <2>1 DEF CodeRow
  <2> QED BY <1>2, <2>1, <2>2
<1>7. CASE \E d \in Code : LinkToken(d)
  <2>1. PICK d \in Code : code' = [code EXCEPT ![d].stage = "linked", ![d].token = nextToken]
    BY <1>7 DEF LinkToken
  <2>2. d # c
    BY <1>1, <2>1 DEF CodeRow
  <2> QED BY <1>2, <2>1, <2>2
<1>8. CASE \E d \in Code : SpendCode(d) \/ FailExchange(d) \/ InsertAccess(d)
  <2>1. PICK d \in Code, s \in {"spent", "failed", "done"} :
          code' = [code EXCEPT ![d] = [code[d] EXCEPT !.stage = s]]
    BY <1>8 DEF SpendCode, FailExchange, InsertAccess
  <2>2. d # c
    BY <2>1, CodeStage
  <2> QED BY <1>2, <2>1, <2>2
<1> QED BY <1>2, <1>4, <1>5, <1>6, <1>7, <1>8
    DEF Next, vars, tokenVars, RevokeAccess, LoadRenewal, UnsealAndRetry, Rotate, Recover, Renewal,
        Revoke, RefuseRenewal, Withdraw, SetBlock

\* What has arrived stays so.
LEMMA HeldStays ==
  ASSUME DelegationInv, [Next]_vars, NEW t \in Token, t < nextToken, Held(t)
  PROVE  Held(t)'
<1> SUFFICES ASSUME NEW c \in Code, code'[c].token = t PROVE code'[c].stage = "done"
  BY DEF Held
<1>1. t \in Nat /\ t # 0 /\ t # nextToken
  BY TokenNumbers DEF DelegationInv, TokenInv, TokenTypeOK
<1>2. code[c].token = t
  BY <1>1, CodeMoves
<1>3. code[c].stage = "done"
  BY <1>2 DEF Held
<1> QED BY <1>3, CodeMoves

LEMMA ArrivalInit == Init => ArrivalInv
<1> SUFFICES ASSUME Init PROVE ArrivalInv
  OBVIOUS
<1>1. \A n \in Renewer : renewer[n].stage = "idle"
  BY DEF Init, IdleRenewer
<1>2. \A c \in Code : code[c].stage = "none"
  BY DEF Init, NoCode
<1>3. AccessWithinTtl
  BY DelegationAssumption, RequestAssumption DEF Init, RequestInit, AccessWithinTtl
<1> QED BY <1>1, <1>2, <1>3 DEF ArrivalInv

\* What each action writes to the access rows: it drops some, or writes the one of a token
\* that is the current one of a grant in force.
LEMMA AccessWrites ==
  ASSUME DelegationInv, ArrivalInv, [Next]_vars, NEW t \in Token
  PROVE  \/ access'[t] \in {0, access[t]}
         \/ /\ access'[t] = now + AccessTtl
            /\ now' = now
            /\ \E g \in Grant : grant'[g].cur = t /\ grant'[g].status = "ACTIVE"
<1> USE DEF DelegationInv, TokenInv, TokenTypeOK
<1>1. CASE UNCHANGED access
  BY <1>1
<1>2. CASE \E c \in Code : InsertAccess(c)
  <2>1. PICK c \in Code : InsertAccess(c)
    BY <1>2
  <2>2. /\ code[c].stage = "refreshed" /\ refresh[code[c].token].state # "none"
        /\ GuardPasses(code[c].token) /\ UNCHANGED <<now, grant>>
        /\ access' = [access EXCEPT ![code[c].token] = now + AccessTtl]
    BY <2>1 DEF InsertAccess, requestVars
  <2>3. CASE t # code[c].token
    BY <2>2, <2>3
  <2>4. CASE t = code[c].token
    <3>1. refresh[t].state = "live"
      BY <2>2, <2>4 DEF ArrivalInv, RefreshRow
    <3>2. \E g \in Grant : grant[g].cur = t /\ grant[g].status = "ACTIVE"
      BY <3>1 DEF LiveTokenOfActiveGrant
    <3> QED BY <2>2, <2>4, <3>2
  <2> QED BY <2>3, <2>4
<1>3. CASE \E s \in Token : RevokeAccess(s)
  BY <1>3 DEF RevokeAccess
<1>4. CASE \E n \in Renewer : Rotate(n) \/ Recover(n) \/ Revoke(n)
  BY <1>4 DEF Rotate, Recover, Revoke, WithoutAccess
<1>5. CASE \E u \in User : Withdraw(u)
  BY <1>5 DEF Withdraw, WithoutAccess
<1> QED BY <1>1, <1>2, <1>3, <1>4, <1>5
    DEF Next, vars, tokenVars, IssueCode, SpendCode, Redeem, LinkToken, InsertRefresh,
        FailExchange, LoadRenewal, UnsealAndRetry, RefuseRenewal, SetBlock

\* What each action does to the refresh rows: only a token that has arrived is rotated.
LEMMA RefreshWrites ==
  ASSUME DelegationInv, ArrivalInv, [Next]_vars, NEW t \in Token
  PROVE  refresh'[t].state = "revoked" => refresh[t].state = "revoked" \/ Held(t)
<1> USE DEF DelegationInv, TokenInv, TokenTypeOK
<1>1. CASE UNCHANGED refresh
  BY <1>1
<1>2. CASE \E c \in Code : InsertRefresh(c)
  <2>1. PICK c \in Code :
          refresh' = [refresh EXCEPT ![code[c].token] =
                        [state |-> "live", expiresAt |-> now + RefreshTtl]]
    BY <1>2 DEF InsertRefresh
  <2> QED BY <2>1
<1>3. CASE \E n \in Renewer : Rotate(n)
  <2>1. PICK n \in Renewer : Rotate(n)
    BY <1>3
  <2>2. refresh' = [refresh EXCEPT ![renewer[n].token].state = "revoked", ![nextToken] = LiveRow]
        /\ Held(renewer[n].token)
    BY <2>1 DEF Rotate, Renewal, ArrivalInv
  <2>3. CASE t = renewer[n].token
    BY <2>2, <2>3
  <2>4. CASE t # renewer[n].token
    BY <2>2, <2>4 DEF LiveRow
  <2> QED BY <2>3, <2>4
<1>4. CASE \E n \in Renewer : Recover(n)
  <2>1. PICK n \in Renewer : Recover(n)
    BY <1>4
  <2> QED BY <2>1 DEF Recover, WithoutRows, NoRow, LiveRow
<1>5. CASE \E n \in Renewer : Revoke(n)
  BY <1>5 DEF Revoke, WithoutRows, NoRow
<1>6. CASE \E u \in User : Withdraw(u)
  BY <1>6 DEF Withdraw, WithoutRows, NoRow
<1> QED BY <1>1, <1>2, <1>3, <1>4, <1>5, <1>6
    DEF Next, vars, tokenVars, IssueCode, SpendCode, Redeem, LinkToken, InsertAccess,
        FailExchange, RevokeAccess, LoadRenewal, UnsealAndRetry, RefuseRenewal, SetBlock

\* The calls a step leaves loaded were loaded before, or load a token that has arrived.
LEMMA RenewersHold ==
  ASSUME DelegationInv, ArrivalInv, [Next]_vars, NEW n \in Renewer, renewer'[n].stage = "loaded"
  PROVE  renewer'[n].token \in Token /\ renewer'[n].token < nextToken /\ Held(renewer'[n].token)
<1> USE DEF DelegationInv, TokenInv, TokenTypeOK
<1>1. CASE renewer'[n].stage = renewer[n].stage /\ renewer'[n].token = renewer[n].token
  BY <1>1 DEF ArrivalInv, RenewerBound
<1>2. CASE \E m \in Renewer, op \in {"renew", "revoke"}, t \in Token : LoadRenewal(m, op, t)
  <2>1. PICK m \in Renewer, op \in {"renew", "revoke"}, t \in Token : LoadRenewal(m, op, t)
    BY <1>2
  <2>2. CASE m # n
    <3>1. renewer'[n] = renewer[n]
      BY <2>1, <2>2 DEF LoadRenewal
    <3> QED BY <1>1, <3>1
  <2>3. CASE m = n
    <3>1. PICK g \in Grant : t \in Hashes(g) /\ renewer'[n].token = t
      BY <2>1, <2>3 DEF LoadRenewal
    <3>2. grant[g] \in GrantRow /\ t \in Nat /\ nextToken \in Nat
      BY TokenNumbers
    <3>3. t < nextToken
      BY <3>1, <3>2, TokenNumbers DEF Hashes, Linked, GrantRow
    <3>4. Held(t)
      BY <2>1 DEF LoadRenewal
    <3> QED BY <3>1, <3>3, <3>4
  <2> QED BY <2>2, <2>3
<1>3. CASE \E m \in Renewer : UnsealAndRetry(m)
  <2>1. PICK m \in Renewer :
          renewer' = [renewer EXCEPT ![m].retried = TRUE, ![m].preKey = Unsealed(renewer[m].grant)]
    BY <1>3 DEF UnsealAndRetry
  <2>2. renewer[n] \in RenewerState
    OBVIOUS
  <2>3. renewer'[n].stage = renewer[n].stage /\ renewer'[n].token = renewer[n].token
    BY <2>1, <2>2 DEF RenewerState
  <2> QED BY <1>1, <2>3
<1>4. CASE \E m \in Renewer : Rotate(m) \/ Recover(m) \/ Revoke(m) \/ RefuseRenewal(m)
  <2>1. PICK m \in Renewer : renewer' = [renewer EXCEPT ![m] = IdleRenewer]
    BY <1>4 DEF Rotate, Recover, Renewal, Revoke, RefuseRenewal
  <2>2. renewer'[n] = renewer[n]
    BY <2>1 DEF IdleRenewer
  <2> QED BY <1>1, <2>2
<1>5. CASE UNCHANGED renewer
  BY <1>1, <1>5
<1> QED BY <1>2, <1>3, <1>4, <1>5
    DEF Next, vars, tokenVars, IssueCode, SpendCode, Redeem, LinkToken, InsertRefresh,
        InsertAccess, FailExchange, RevokeAccess, SetBlock, Withdraw

LEMMA ArrivalKeeps ==
  ASSUME DelegationInv, ArrivalInv, [Next]_vars
  PROVE  ArrivalInv'
<1> USE DEF DelegationInv, TokenInv, TokenTypeOK
<1>1. ASSUME NEW n \in Renewer, renewer'[n].stage = "loaded"
      PROVE  Held(renewer[n].token)' /\ renewer'[n].token < nextToken'
  <2>1. renewer'[n].token \in Token /\ renewer'[n].token < nextToken /\ Held(renewer'[n].token)
    BY <1>1, RenewersHold
  <2>2. \A t \in Token : t < nextToken /\ Held(t) => Held(t)'
    BY HeldStays
  <2>3. \A c \in Code : code'[c].token = renewer'[n].token => code'[c].stage = "done"
    BY <2>1, <2>2 DEF Held
  <2>4. renewer'[n].token \in Nat /\ nextToken \in Nat
    BY <2>1, TokenNumbers
  <2> QED BY <2>1, <2>3, <2>4, TokensGrow DEF Held
<1>2. ASSUME NEW c \in Code, code'[c].stage = "refreshed"
      PROVE  refresh'[code'[c].token].state # "revoked"
  <2>1. code'[c].token = code[c].token /\ code[c].token \in Token
        /\ (code[c].stage = "refreshed" \/ refresh'[code[c].token].state = "live")
    BY <1>2, CodeRefreshed
  <2>2. code[c].stage = "refreshed" => refresh[code[c].token].state # "revoked"
                                       /\ ~Held(code[c].token)
    BY DEF ArrivalInv, Held
  <2> QED BY <2>1, <2>2, RefreshWrites
<1>3. AccessWithinTtl'
  <2> SUFFICES ASSUME NEW t \in Token PROVE access'[t] <= now' + AccessTtl
    BY DEF AccessWithinTtl
  <2>1. now' \in {now, now + 1}
    <3>1. [RequestNext]_requestVars
      BY StepImplements DEF RequestInv
    <3>2. CASE RequestNext
      BY <3>2, StepGoesOn DEF GoesOn
    <3>3. CASE UNCHANGED requestVars
      BY <3>3 DEF requestVars
    <3> QED BY <3>1, <3>2, <3>3
  <2>2. now \in Nat /\ access[t] \in Nat /\ AccessTtl \in Nat
    BY DelegationAssumption DEF RequestInv, RequestTypeOK
  <2>3. access[t] <= now + AccessTtl
    BY DEF ArrivalInv, AccessWithinTtl
  <2> QED BY <2>1, <2>2, <2>3, AccessWrites
<1> QED BY <1>1, <1>2, <1>3 DEF ArrivalInv

\* No token of a grant that ended is given an access row or a longer one, and none lives for
\* more than one access lifetime: what the withdrawal leaves behind is over by then.
THEOREM StraysOnlyEnd == Spec => []AccessWithinTtl /\ StraysOnlyAge
<1>1. ASSUME DelegationInv, DelegationInv', ArrivalInv, [Next]_vars, NEW t \in Token,
             owner'[t] \in Grant, grant'[owner'[t]].status = "REVOKED"
      PROVE  access'[t] <= access[t]
  <2>1. access[t] \in Nat
    BY <1>1 DEF DelegationInv, TokenInv, TokenTypeOK
  <2>2. \A g \in Grant : grant'[g].cur = t => owner'[t] = g
    BY <1>1, TokenNumbers DEF DelegationInv, TokenInv, Linked
  <2> QED BY <1>1, <2>1, <2>2, AccessWrites
<1>2. ArrivalInv => AccessWithinTtl
  BY DEF ArrivalInv
<1>3. DelegationInv /\ ArrivalInv /\ [Next]_vars => ArrivalInv'
  BY ArrivalKeeps
<1>4. DelegationInv /\ DelegationInv' /\ ArrivalInv /\ [Next]_vars =>
        [\A t \in Token :
           owner'[t] \in Grant /\ grant'[owner'[t]].status = "REVOKED" => access'[t] <= access[t]]_vars
  BY <1>1
<1> QED BY <1>2, <1>3, <1>4, ArrivalInit, DelegationInvariant, PTL DEF Spec, StraysOnlyAge
=============================================================================
