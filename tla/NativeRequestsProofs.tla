------------------------- MODULE NativeRequestsProofs -------------------------
(***************************************************************************)
(* Proofs about NativeRequests, for any number of users, requests and      *)
(* consent pages, any ceilings and any lifetimes.                          *)
(***************************************************************************)
EXTENDS NativeRequests, TLAPS

\* A handler between two awaits knows its request and its user, and a page that shows
\* a preview shows a revision that was made.
TabBound ==
  \A t \in Tab :
    /\ tab[t].stage # "idle" => tab[t].req \in Request
    /\ tab[t].stage \in {"preparing", "approving", "activating", "submitting"} =>
         tab[t].user \in User
    /\ tab[t].stage \notin {"idle", "preparing"} => tab[t].revision # 0

\* Preparations exist only for a request that was resolved, and the newest one was made
\* for the request's user.
PrepOwned ==
  \A r \in Request :
    /\ req[r].status \in {"ABSENT", "PENDING", "SWEPT"} => prep[r] = <<>>
    /\ Len(prep[r]) # 0 => prep[r][Len(prep[r])].user = req[r].user

\* A request that may still be approved was never approved, and one that was never
\* pushed is nobody's.
Unsigned ==
  \A r \in Request :
    /\ req[r].status \in {"ABSENT", "PENDING", "RESOLVED", "SWEPT"} => req[r].approvedRevision = 0
    /\ req[r].status = "ABSENT" => req[r].user = NoUser

\* The inductive invariant.
RequestInv ==
  /\ RequestTypeOK
  /\ TabBound
  /\ PrepOwned
  /\ Unsigned
  /\ ApprovalIsCurrent
  /\ ApprovalIsNewestRevision

-------------------------------------------------------------------------------
(* Types.  The rows and the pages first, then the actions.                 *)

LEMMA RowType ==
  /\ AbsentRequest \in RequestRow
  /\ [AbsentRequest EXCEPT !.status = "SWEPT"] \in RequestRow
  BY DEF AbsentRequest, RequestRow, Statuses

LEMMA RowStatusType ==
  ASSUME NEW row \in RequestRow, NEW s \in Statuses
  PROVE  [row EXCEPT !.status = s] \in RequestRow
  BY DEF RequestRow

LEMMA RowUserType ==
  ASSUME NEW row \in RequestRow, NEW u \in User
  PROVE  [row EXCEPT !.user = u] \in RequestRow
  BY DEF RequestRow

LEMMA RowHostingType ==
  ASSUME NEW row \in RequestRow, NEW h \in {"existing", "created", "failed"}
  PROVE  /\ [row EXCEPT !.hosting = h] \in RequestRow
         /\ [row EXCEPT !.hostSigned = TRUE] \in RequestRow
  BY DEF RequestRow

LEMMA RowApprovedType ==
  ASSUME NEW row \in RequestRow, NEW a \in Nat, NEW g \in Nat, NEW d \in Nat
  PROVE  [row EXCEPT !.status = "APPROVED", !.approvedRevision = a, !.consentGeneration = g,
                     !.delegationExpiresAt = d, !.hosting = "failed"] \in RequestRow
  BY DEF RequestRow, Statuses

LEMMA PageStateType ==
  /\ IdleTab \in TabState
  /\ \A u \in User, r \in Request, k \in Key, h \in Host :
       [IdleTab EXCEPT !.stage = "preparing", !.user = u, !.req = r,
                       !.preKey = k, !.preHost = h] \in TabState
  /\ \A r \in Request, n \in Nat :
       [IdleTab EXCEPT !.stage = "shown", !.req = r, !.revision = n] \in TabState
  /\ \A page \in TabState :
       /\ [page EXCEPT !.stage = "activating"] \in TabState
       /\ [page EXCEPT !.stage = "submitting"] \in TabState
       /\ [page EXCEPT !.stage = "shown", !.user = NoUser, !.preKey = NoKey] \in TabState
  /\ \A page \in TabState, u \in User, k \in Key \cup {NoKey} :
       [page EXCEPT !.stage = "approving", !.user = u, !.preKey = k] \in TabState
<1>1. IdleTab \in TabState
  BY DEF IdleTab, TabState
<1>2. ASSUME NEW u \in User, NEW r \in Request, NEW k \in Key, NEW h \in Host
      PROVE  [IdleTab EXCEPT !.stage = "preparing", !.user = u, !.req = r,
                             !.preKey = k, !.preHost = h] \in TabState
  BY <1>1 DEF TabState
<1>3. ASSUME NEW r \in Request, NEW n \in Nat
      PROVE  [IdleTab EXCEPT !.stage = "shown", !.req = r, !.revision = n] \in TabState
  BY <1>1 DEF TabState
<1>4. ASSUME NEW page \in TabState
      PROVE  /\ [page EXCEPT !.stage = "activating"] \in TabState
             /\ [page EXCEPT !.stage = "submitting"] \in TabState
             /\ [page EXCEPT !.stage = "shown", !.user = NoUser, !.preKey = NoKey] \in TabState
  BY DEF TabState
<1>5. ASSUME NEW page \in TabState, NEW u \in User, NEW k \in Key \cup {NoKey}
      PROVE  [page EXCEPT !.stage = "approving", !.user = u, !.preKey = k] \in TabState
  BY DEF TabState
<1> QED BY <1>1, <1>2, <1>3, <1>4, <1>5

LEMMA InitType == RequestInit => RequestTypeOK
<1> SUFFICES ASSUME RequestInit PROVE RequestTypeOK
  OBVIOUS
<1>1. consent \in [User -> Consent]
  BY DEF RequestInit, Consent
<1>2. req \in [Request -> RequestRow] /\ tab \in [Tab -> TabState]
  BY RowType, PageStateType DEF RequestInit
<1>3. prep \in [Request -> Seq(Revision)]
  BY DEF RequestInit
<1> QED BY <1>1, <1>2, <1>3 DEF RequestInit, RequestTypeOK

LEMMA StatusType ==
  /\ "PENDING" \in Statuses /\ "RESOLVED" \in Statuses /\ "APPROVED" \in Statuses
  /\ "DENIED" \in Statuses /\ "WITHDRAWN" \in Statuses /\ "REDEEMED" \in Statuses
  BY DEF Statuses

\* PAR, resolution and the sweep keep the types.
LEMMA PushType ==
  ASSUME RequestTypeOK, NEW r \in Request
  PROVE  /\ Par(r) => RequestTypeOK'
         /\ Resolve(r) => RequestTypeOK'
         /\ Sweep => RequestTypeOK'
<1> USE DEF RequestTypeOK
<1>1. ASSUME Par(r) PROVE RequestTypeOK'
  <2>1. PICK perms \in SUBSET Perm, ttl \in RequestTtls :
          req' = [req EXCEPT ![r] =
            [AbsentRequest EXCEPT !.status = "PENDING", !.perms = perms, !.ttl = ttl,
               !.uriExpiresAt = now + UriTtl, !.expiresAt = now + RequestTtl]]
    BY <1>1 DEF Par
  <2>2. [AbsentRequest EXCEPT !.status = "PENDING", !.perms = perms, !.ttl = ttl,
           !.uriExpiresAt = now + UriTtl, !.expiresAt = now + RequestTtl] \in RequestRow
    <3>1. ttl \in Nat /\ now + UriTtl \in Nat /\ now + RequestTtl \in Nat
      BY RequestAssumption
    <3> QED BY <3>1 DEF AbsentRequest, RequestRow, Statuses
  <2> QED BY <1>1, <2>1, <2>2 DEF Par
<1>2. ASSUME Resolve(r) PROVE RequestTypeOK'
  BY <1>2, RowStatusType, StatusType DEF Resolve
<1>3. ASSUME Sweep PROVE RequestTypeOK'
  <2>1. req' \in [Request -> RequestRow] /\ prep' \in [Request -> Seq(Revision)]
    BY <1>3, RowType DEF Sweep
  <2> QED BY <1>3, <2>1 DEF Sweep
<1> QED BY <1>1, <1>2, <1>3

\* So does a new revision.
LEMMA PrepareType ==
  ASSUME RequestTypeOK, TabBound, NEW t \in Tab, PrepareCommit(t)
  PROVE  RequestTypeOK'
<1> DEFINE v == tab[t].user
           q == tab[t].req
<1> USE DEF RequestTypeOK
<1>1. v \in User /\ q \in Request
  BY DEF PrepareCommit, TabBound
<1>2. PICK perms \in SUBSET req[q].perms, hostPlan \in BOOLEAN :
        prep' = [prep EXCEPT ![q] = Append(@,
          [user |-> v, key |-> key[v], host |-> ceiling.host, perms |-> perms,
           ttl |-> MinOf(req[q].ttl, MinOf(ceiling.maxTtl, ceiling.lifetime)),
           hostPlan |-> hostPlan])]
  BY DEF PrepareCommit, NewRevision
<1>3. ceiling \in Ceiling /\ req[q] \in RequestRow
  BY <1>1, RequestAssumption
<1>4. MinOf(req[q].ttl, MinOf(ceiling.maxTtl, ceiling.lifetime)) \in Nat
  BY <1>3 DEF MinOf, RequestRow, Ceiling
<1>5. perms \in SUBSET Perm /\ key[v] \in Key /\ ceiling.host \in Host
  BY <1>1, <1>2, <1>3 DEF RequestRow, Ceiling
<1>6. [user |-> v, key |-> key[v], host |-> ceiling.host, perms |-> perms,
       ttl |-> MinOf(req[q].ttl, MinOf(ceiling.maxTtl, ceiling.lifetime)),
       hostPlan |-> hostPlan] \in Revision
  BY <1>1, <1>2, <1>4, <1>5 DEF Revision
<1>7. prep' \in [Request -> Seq(Revision)]
  BY <1>1, <1>2, <1>6
<1>8. req' \in [Request -> RequestRow]
  BY <1>1, RowUserType DEF PrepareCommit, NewRevision
<1>9. tab' \in [Tab -> TabState]
  <2>1. CurrentRevision(q) + 1 \in Nat
    BY <1>1 DEF CurrentRevision
  <2>2. tab' = [tab EXCEPT ![t] = [IdleTab EXCEPT !.stage = "shown", !.req = q,
                                                  !.revision = CurrentRevision(q) + 1]]
    BY DEF PrepareCommit, NewRevision
  <2> QED BY <1>1, <2>1, <2>2, PageStateType
<1> QED BY <1>7, <1>8, <1>9 DEF PrepareCommit, NewRevision

\* And an approval, which signs a revision that is there.
LEMMA ApproveType ==
  ASSUME RequestTypeOK, TabBound, NEW t \in Tab, ApproveCommit(t)
  PROVE  RequestTypeOK'
<1> DEFINE v == tab[t].user
           q == tab[t].req
           n == tab[t].revision
<1> USE DEF RequestTypeOK
<1>1. v \in User /\ q \in Request /\ n \in Nat \ {0}
  BY DEF ApproveCommit, ApprovalLocked, TabBound, TabState
<1>2. n = Len(prep[q])
  BY DEF ApproveCommit, ApprovalLocked, CurrentRevision
<1>3. prep[q][n] \in Revision
  BY <1>1, <1>2
<1>4. prep[q][n].ttl \in Nat
  BY <1>3 DEF Revision
<1>5. req' \in [Request -> RequestRow]
  <2>1. generation[v] \in Nat /\ now + prep[q][n].ttl \in Nat
    BY <1>1, <1>4
  <2>2. [req[q] EXCEPT !.status = "APPROVED", !.approvedRevision = n,
                       !.consentGeneration = generation[v],
                       !.delegationExpiresAt = now + prep[q][n].ttl,
                       !.hosting = "failed"] \in RequestRow
    BY <1>1, <2>1, RowApprovedType
  <2> QED BY <2>2 DEF ApproveCommit
<1>6. tab' \in [Tab -> TabState]
  BY PageStateType DEF ApproveCommit
<1> QED BY <1>5, <1>6 DEF ApproveCommit

\* And the rest of the consent page.
LEMMA PageType ==
  ASSUME RequestTypeOK, TabBound, NEW t \in Tab
  PROVE  /\ \A u \in User, r \in Request : PrepareRead(t, u, r) => RequestTypeOK'
         /\ \A s \in Tab : SendAgain(t, s) => RequestTypeOK'
         /\ \A u \in User : ApproveRead(t, u) => RequestTypeOK'
         /\ ApproveAgain(t) => RequestTypeOK'
         /\ MarkHostSigned(t) => RequestTypeOK'
         /\ RecordHosting(t) => RequestTypeOK'
         /\ Abandon(t) => RequestTypeOK'
<1> USE PageStateType DEF RequestTypeOK
<1>1. ASSUME NEW u \in User, NEW r \in Request, PrepareRead(t, u, r) PROVE RequestTypeOK'
  <2>1. ceiling.host \in Host /\ key[u] \in Key
    BY RequestAssumption DEF Ceiling
  <2> QED BY <1>1, <2>1 DEF PrepareRead
<1>2. ASSUME NEW u \in User, ApproveRead(t, u) PROVE RequestTypeOK'
  <2>1. (IF req[tab[t].req].status = "APPROVED" THEN NoKey ELSE key[u]) \in Key \cup {NoKey}
    OBVIOUS
  <2> QED BY <1>2, <2>1 DEF ApproveRead
<1>3. ASSUME ApproveAgain(t) PROVE RequestTypeOK'
  BY <1>3 DEF ApproveAgain
<1>4. ASSUME MarkHostSigned(t) PROVE RequestTypeOK'
  BY <1>4, RowHostingType DEF MarkHostSigned
<1>5. ASSUME RecordHosting(t) PROVE RequestTypeOK'
  <2>1. req' \in [Request -> RequestRow]
    <3>1. PICK h \in {"existing", "created", "failed"} :
            req' = [req EXCEPT ![tab[t].req].hosting = h]
      BY <1>5 DEF RecordHosting
    <3> QED BY <3>1, RowHostingType
  <2> QED BY <1>5, <2>1 DEF RecordHosting
<1>6. ASSUME Abandon(t) PROVE RequestTypeOK'
  <2>1. CASE tab' = [tab EXCEPT ![t] = IdleTab]
    BY <1>6, <2>1 DEF Abandon
  <2>2. CASE tab' = [tab EXCEPT ![t].stage = "shown", ![t].user = NoUser, ![t].preKey = NoKey]
    BY <1>6, <2>2 DEF Abandon
  <2> QED BY <1>6, <2>1, <2>2 DEF Abandon
<1>7. ASSUME NEW s \in Tab, SendAgain(t, s) PROVE RequestTypeOK'
  <2>1. tab[s].req \in Request /\ tab[s].revision \in Nat
    <3>1. tab[s] \in TabState /\ tab[s].stage # "idle"
      BY <1>7 DEF SendAgain
    <3> QED BY <3>1 DEF TabBound, TabState
  <2>2. [IdleTab EXCEPT !.stage = "shown", !.req = tab[s].req, !.revision = tab[s].revision] \in TabState
    BY <2>1
  <2> QED BY <1>7, <2>2 DEF SendAgain
<1> QED BY <1>1, <1>2, <1>3, <1>4, <1>5, <1>6, <1>7

\* And the changes around the requests.
LEMMA AroundType ==
  ASSUME RequestTypeOK
  PROVE  /\ \A u \in User : AcceptConsent(u) => consent' \in [User -> Consent]
         /\ \A u \in User : ConsentLost(u) => consent' \in [User -> Consent]
         /\ \A u \in User : WithdrawRequests(u) => /\ generation' \in [User -> Nat]
                                                   /\ req' \in [Request -> RequestRow]
         /\ \A u \in User, r \in Request : RedeemRequest(u, r) => req' \in [Request -> RequestRow]
         /\ \A u \in User, r \in Request : Deny(u, r) => RequestTypeOK'
         /\ \A u \in User : ChangeKey(u) => RequestTypeOK'
         /\ ChangeCeiling => RequestTypeOK'
         /\ Tick => RequestTypeOK'
<1> USE DEF RequestTypeOK
<1>1. ASSUME NEW u \in User, AcceptConsent(u) PROVE consent' \in [User -> Consent]
  BY <1>1 DEF AcceptConsent, Consent
<1>2. ASSUME NEW u \in User, ConsentLost(u) PROVE consent' \in [User -> Consent]
  <2>1. CASE consent' = [consent EXCEPT ![u].present = FALSE, ![u].scoped = FALSE]
    BY <2>1 DEF Consent
  <2>2. CASE consent' = [consent EXCEPT ![u].scoped = FALSE]
    BY <2>2 DEF Consent
  <2> QED BY <1>2, <2>1, <2>2 DEF ConsentLost
<1>3. ASSUME NEW u \in User, WithdrawRequests(u)
      PROVE  generation' \in [User -> Nat] /\ req' \in [Request -> RequestRow]
  BY <1>3, RowStatusType, StatusType DEF WithdrawRequests
<1>4. ASSUME NEW u \in User, NEW r \in Request, RedeemRequest(u, r) PROVE req' \in [Request -> RequestRow]
  BY <1>4, RowStatusType, StatusType DEF RedeemRequest
<1>5. ASSUME NEW u \in User, ChangeKey(u) PROVE RequestTypeOK'
  BY <1>5 DEF ChangeKey
<1>6. ASSUME ChangeCeiling PROVE RequestTypeOK'
  BY <1>6 DEF ChangeCeiling
<1>7. ASSUME Tick PROVE RequestTypeOK'
  BY <1>7 DEF Tick
<1>8. ASSUME NEW u \in User, NEW r \in Request, Deny(u, r) PROVE RequestTypeOK'
  BY <1>8, RowStatusType, StatusType DEF Deny
<1> QED BY <1>1, <1>2, <1>3, <1>4, <1>5, <1>6, <1>7, <1>8

-------------------------------------------------------------------------------
(* The invariant.                                                          *)

\* What the invariant says of the rows.
RowsInv == PrepOwned /\ Unsigned /\ ApprovalIsCurrent /\ ApprovalIsNewestRevision

LEMMA InitInv == RequestInit => RequestInv
<1> SUFFICES ASSUME RequestInit PROVE RequestInv
  OBVIOUS
<1>1. TabBound
  BY DEF RequestInit, TabBound, IdleTab
<1>2. RowsInv
  BY DEF RequestInit, RowsInv, PrepOwned, Unsigned, ApprovalIsCurrent, ApprovalIsNewestRevision,
     AbsentRequest
<1> QED BY <1>1, <1>2, InitType DEF RequestInv, RowsInv

\* A step that leaves the rows alone keeps what is said of them.
LEMMA RowsFrame ==
  ASSUME RowsInv, UNCHANGED <<req, prep, generation>>
  PROVE  RowsInv'
  BY DEF RowsInv, PrepOwned, Unsigned, ApprovalIsCurrent, ApprovalIsNewestRevision

LEMMA PageFrame ==
  ASSUME TabBound, UNCHANGED tab
  PROVE  TabBound'
  BY DEF TabBound

\* A step that changes one page, and knows its request and user, keeps the pages.
LEMMA PageStep ==
  ASSUME RequestTypeOK, TabBound, NEW t \in Tab, NEW page \in TabState,
         tab' = [tab EXCEPT ![t] = page],
         page.stage # "idle" => page.req \in Request,
         page.stage \in {"preparing", "approving", "activating", "submitting"} => page.user \in User,
         page.stage \notin {"idle", "preparing"} => page.revision # 0
  PROVE  TabBound'
  BY DEF RequestTypeOK, TabBound

LEMMA PushInv ==
  ASSUME RequestInv, NEW r \in Request
  PROVE  /\ Par(r) => RequestInv'
         /\ Resolve(r) => RequestInv'
         /\ Sweep => RequestInv'
<1> USE DEF RequestInv
<1>1. ASSUME Par(r) PROVE RequestInv'
  <2>1. UNCHANGED <<prep, generation, tab>>
    BY <1>1 DEF Par
  <2>2. /\ req[r].status = "ABSENT"
        /\ req'[r].status = "PENDING" /\ req'[r].approvedRevision = 0
        /\ \A q \in Request \ {r} : req'[q] = req[q]
    BY <1>1 DEF Par, RequestTypeOK, AbsentRequest
  <2>3. RowsInv'
    BY <2>1, <2>2
    DEF RowsInv, PrepOwned, Unsigned, ApprovalIsCurrent, ApprovalIsNewestRevision
  <2> QED BY <1>1, <2>1, <2>3, PushType, PageFrame DEF RowsInv
<1>2. ASSUME Resolve(r) PROVE RequestInv'
  <2>1. UNCHANGED <<prep, generation, tab>>
    BY <1>2 DEF Resolve
  <2>2. /\ req[r].status = "PENDING"
        /\ req' = [req EXCEPT ![r] = [req[r] EXCEPT !.status = "RESOLVED"]]
    BY <1>2 DEF Resolve
  <2>3. /\ req'[r].status = "RESOLVED"
        /\ req'[r].approvedRevision = req[r].approvedRevision
        /\ req'[r].user = req[r].user
        /\ \A q \in Request \ {r} : req'[q] = req[q]
    BY <2>2 DEF RequestTypeOK, RequestRow
  <2>4. RowsInv'
    BY <2>1, <2>2, <2>3
    DEF RowsInv, PrepOwned, Unsigned, ApprovalIsCurrent, ApprovalIsNewestRevision
  <2> QED BY <1>2, <2>1, <2>4, PushType, PageFrame DEF RowsInv
<1>3. ASSUME Sweep PROVE RequestInv'
  <2>1. UNCHANGED <<generation, tab>>
    BY <1>3 DEF Sweep
  <2>2. \A q \in Request :
          \/ /\ req'[q].status = "SWEPT" /\ req'[q].approvedRevision = 0 /\ prep'[q] = <<>>
          \/ req'[q] = req[q] /\ prep'[q] = prep[q]
    BY <1>3 DEF Sweep, AbsentRequest
  <2>3. RowsInv'
    BY <2>1, <2>2
    DEF RowsInv, PrepOwned, Unsigned, ApprovalIsCurrent, ApprovalIsNewestRevision
  <2> QED BY <1>3, <2>1, <2>3, PushType, PageFrame DEF RowsInv
<1> QED BY <1>1, <1>2, <1>3

\* A new revision is the request's newest, made for the user it is bound to.
LEMMA PrepareInv ==
  ASSUME RequestInv, NEW t \in Tab, PrepareCommit(t)
  PROVE  RequestInv'
<1> DEFINE v == tab[t].user
           q == tab[t].req
<1> USE DEF RequestInv
<1>1. v \in User /\ q \in Request /\ prep[q] \in Seq(Revision)
  BY DEF PrepareCommit, TabBound, RequestTypeOK
<1>2. RequestTypeOK'
  BY PrepareType
<1>3. PICK rev : rev.user = v /\ prep' = [prep EXCEPT ![q] = Append(@, rev)]
  BY DEF PrepareCommit, NewRevision
<1>4. /\ req[q].status = "RESOLVED"
      /\ req' = [req EXCEPT ![q] = [req[q] EXCEPT !.user = v]]
      /\ UNCHANGED generation
  BY DEF PrepareCommit, NewRevision, Active
<1>5. /\ req'[q].status = "RESOLVED"
      /\ req'[q].approvedRevision = req[q].approvedRevision
      /\ req'[q].user = v
      /\ \A r \in Request \ {q} : req'[r] = req[r] /\ prep'[r] = prep[r]
  BY <1>1, <1>3, <1>4 DEF RequestTypeOK, RequestRow
<1>6. prep'[q][Len(prep'[q])].user = v
  BY <1>1, <1>3 DEF RequestTypeOK
<1>7. RowsInv'
  <2>1. PrepOwned'
    BY <1>5, <1>6 DEF PrepOwned
  <2>2. Unsigned'
    BY <1>4, <1>5 DEF Unsigned
  <2>3. ApprovalIsCurrent'
    BY <1>4, <1>5 DEF ApprovalIsCurrent
  <2>4. ApprovalIsNewestRevision'
    BY <1>5 DEF ApprovalIsNewestRevision
  <2> QED BY <2>1, <2>2, <2>3, <2>4 DEF RowsInv
<1>8. TabBound'
  <2> DEFINE page == [IdleTab EXCEPT !.stage = "shown", !.req = q, !.revision = CurrentRevision(q) + 1]
  <2>1. CurrentRevision(q) \in Nat
    BY <1>1 DEF CurrentRevision
  <2>2. page \in TabState
    <3>1. CurrentRevision(q) + 1 \in Nat
      BY <2>1
    <3> QED BY <1>1, <3>1, PageStateType
  <2>3. page.stage = "shown" /\ page.req = q /\ page.revision # 0
    BY <2>1 DEF IdleTab
  <2>4. tab' = [tab EXCEPT ![t] = page]
    BY DEF PrepareCommit, NewRevision
  <2> QED BY <1>1, <2>2, <2>3, <2>4, PageStep
<1> QED BY <1>2, <1>7, <1>8 DEF RowsInv

\* The approval is of the newest revision, under the current generation.
LEMMA ApproveInv ==
  ASSUME RequestInv, NEW t \in Tab, ApproveCommit(t)
  PROVE  RequestInv'
<1> DEFINE v == tab[t].user
           q == tab[t].req
           n == tab[t].revision
<1> USE DEF RequestInv
<1>1. v \in User /\ q \in Request /\ n \in Nat \ {0} /\ prep[q] \in Seq(Revision)
  BY DEF ApproveCommit, ApprovalLocked, TabBound, TabState, RequestTypeOK
<1>2. RequestTypeOK'
  BY ApproveType
<1>3. n = Len(prep[q]) /\ req[q].user = v /\ req[q].status = "RESOLVED"
  BY DEF ApproveCommit, ApprovalLocked, CurrentRevision
<1>4. /\ req'[q].status = "APPROVED"
      /\ req'[q].approvedRevision = n
      /\ req'[q].consentGeneration = generation[v]
      /\ req'[q].user = v
      /\ \A r \in Request \ {q} : req'[r] = req[r]
  <2>1. req' = [req EXCEPT ![q] = [req[q] EXCEPT !.status = "APPROVED", !.approvedRevision = n,
                  !.consentGeneration = generation[v],
                  !.delegationExpiresAt = now + prep[q][n].ttl, !.hosting = "failed"]]
    BY DEF ApproveCommit
  <2> QED BY <1>1, <1>3, <2>1 DEF RequestTypeOK, RequestRow
<1>5. UNCHANGED <<prep, generation>>
  BY DEF ApproveCommit
<1>6. PrepOwned' /\ Unsigned'
  BY <1>1, <1>3, <1>4, <1>5 DEF PrepOwned, Unsigned
<1>7. ApprovalIsCurrent'
  BY <1>1, <1>4, <1>5 DEF ApprovalIsCurrent
<1>8. ApprovalIsNewestRevision'
  BY <1>1, <1>3, <1>4, <1>5 DEF ApprovalIsNewestRevision, PrepOwned
<1>9. TabBound'
  <2> DEFINE page == [tab[t] EXCEPT !.stage = "activating"]
  <2>1. tab[t] \in TabState
    BY DEF RequestTypeOK
  <2>2. page \in TabState
    BY <2>1, PageStateType
  <2>3. page.stage = "activating" /\ page.req = q /\ page.user = v /\ page.revision = n
    BY <2>1 DEF TabState
  <2>4. tab' = [tab EXCEPT ![t] = page]
    BY DEF ApproveCommit
  <2> QED BY <1>1, <2>2, <2>3, <2>4, PageStep
<1> QED BY <1>2, <1>6, <1>7, <1>8, <1>9

\* A page that goes back to the preview still has its request and revision.
LEMMA ShownAgain ==
  ASSUME RequestTypeOK, TabBound, NEW t \in Tab,
         tab[t].stage \in {"approving", "activating", "submitting"},
         tab' = [tab EXCEPT ![t].stage = "shown", ![t].user = NoUser, ![t].preKey = NoKey]
  PROVE  TabBound'
<1> DEFINE page == [tab[t] EXCEPT !.stage = "shown", !.user = NoUser, !.preKey = NoKey]
<1>1. tab[t] \in TabState
  BY DEF RequestTypeOK
<1>2. page \in TabState
  BY <1>1, PageStateType
<1>3. page.stage = "shown" /\ page.req = tab[t].req /\ page.revision = tab[t].revision
  BY <1>1 DEF TabState
<1>4. tab' = [tab EXCEPT ![t] = page]
  OBVIOUS
<1>5. tab[t].req \in Request /\ tab[t].revision # 0
  BY DEF TabBound
<1> QED BY <1>2, <1>3, <1>4, <1>5, PageStep

\* Writes about hosting change nothing the invariant speaks of.
LEMMA HostingInv ==
  ASSUME RequestInv, NEW t \in Tab
  PROVE  /\ MarkHostSigned(t) => RequestInv'
         /\ RecordHosting(t) => RequestInv'
<1> DEFINE q == tab[t].req
<1> USE DEF RequestInv
<1>1. ASSUME NEW row, req' = [req EXCEPT ![q] = row], UNCHANGED <<prep, generation>>, q \in Request,
             row.status = req[q].status, row.user = req[q].user,
             row.approvedRevision = req[q].approvedRevision,
             row.consentGeneration = req[q].consentGeneration
      PROVE  RowsInv'
  <2>1. req'[q] = row /\ \A r \in Request \ {q} : req'[r] = req[r]
    BY <1>1 DEF RequestTypeOK
  <2> QED BY <1>1, <2>1
    DEF RowsInv, PrepOwned, Unsigned, ApprovalIsCurrent, ApprovalIsNewestRevision
<1>2. ASSUME MarkHostSigned(t) PROVE RequestInv'
  <2>1. q \in Request /\ tab[t].user \in User /\ tab[t].revision # 0
    BY <1>2 DEF MarkHostSigned, TabBound
  <2>2. req' = [req EXCEPT ![q] = [req[q] EXCEPT !.hostSigned = TRUE]]
    BY <1>2 DEF MarkHostSigned
  <2>3. UNCHANGED <<prep, generation>>
    BY <1>2 DEF MarkHostSigned
  <2>4. RowsInv'
    BY <1>1, <2>1, <2>2, <2>3 DEF RequestTypeOK, RequestRow
  <2>5. TabBound'
    <3> DEFINE page == [tab[t] EXCEPT !.stage = "submitting"]
    <3>1. tab[t] \in TabState
      BY DEF RequestTypeOK
    <3>2. page \in TabState
      BY <3>1, PageStateType
    <3>3. /\ page.stage = "submitting" /\ page.req = q
          /\ page.user = tab[t].user /\ page.revision = tab[t].revision
      BY <3>1 DEF TabState
    <3>4. tab' = [tab EXCEPT ![t] = page]
      BY <1>2 DEF MarkHostSigned
    <3> QED BY <2>1, <3>2, <3>3, <3>4, PageStep
  <2> QED BY <1>2, <2>1, <2>4, <2>5, PageType DEF RowsInv
<1>3. ASSUME RecordHosting(t) PROVE RequestInv'
  <2>1. q \in Request /\ tab[t].user \in User
    BY <1>3 DEF RecordHosting, TabBound
  <2>2. PICK h \in {"existing", "created", "failed"} : req' = [req EXCEPT ![q].hosting = h]
    BY <1>3 DEF RecordHosting
  <2>3. req' = [req EXCEPT ![q] = [req[q] EXCEPT !.hosting = h]]
    BY <2>2
  <2>4. UNCHANGED <<prep, generation>>
    BY <1>3 DEF RecordHosting
  <2>5. RowsInv'
    BY <1>1, <2>1, <2>3, <2>4 DEF RequestTypeOK, RequestRow
  <2>6. TabBound'
    BY <1>3, ShownAgain DEF RecordHosting
  <2> QED BY <1>3, <2>1, <2>5, <2>6, PageType DEF RowsInv
<1> QED BY <1>2, <1>3

\* The handlers that only read, or only refuse.
LEMMA ReadInv ==
  ASSUME RequestInv, NEW t \in Tab
  PROVE  /\ \A u \in User, r \in Request : PrepareRead(t, u, r) => RequestInv'
         /\ \A s \in Tab : SendAgain(t, s) => RequestInv'
         /\ \A u \in User : ApproveRead(t, u) => RequestInv'
         /\ ApproveAgain(t) => RequestInv'
         /\ Abandon(t) => RequestInv'
<1> USE DEF RequestInv
<1>1. ASSUME NEW u \in User, NEW r \in Request, PrepareRead(t, u, r) PROVE RequestInv'
  <2> DEFINE page == [IdleTab EXCEPT !.stage = "preparing", !.user = u, !.req = r,
                                     !.preKey = key[u], !.preHost = ceiling.host]
  <2>1. ceiling.host \in Host /\ key[u] \in Key
    BY RequestAssumption DEF RequestTypeOK, Ceiling
  <2>2. page \in TabState /\ page.stage = "preparing" /\ page.req = r /\ page.user = u
    BY <2>1, PageStateType DEF IdleTab
  <2>3. tab' = [tab EXCEPT ![t] = page]
    BY <1>1 DEF PrepareRead
  <2>4. TabBound'
    BY <2>2, <2>3, PageStep
  <2>5. RowsInv'
    BY <1>1, RowsFrame DEF PrepareRead, RowsInv
  <2> QED BY <1>1, <2>4, <2>5, PageType DEF RowsInv
<1>2. ASSUME NEW u \in User, ApproveRead(t, u) PROVE RequestInv'
  <2> DEFINE pre == IF req[tab[t].req].status = "APPROVED" THEN NoKey ELSE key[u]
             page == [tab[t] EXCEPT !.stage = "approving", !.user = u, !.preKey = pre]
  <2>1. pre \in Key \cup {NoKey}
    BY DEF RequestTypeOK
  <2>2. page \in TabState
    BY <2>1, PageStateType DEF RequestTypeOK
  <2>3. /\ page.stage = "approving" /\ page.user = u
        /\ page.req = tab[t].req /\ page.revision = tab[t].revision
    BY DEF RequestTypeOK, TabState
  <2>4. tab' = [tab EXCEPT ![t] = page]
    BY <1>2 DEF ApproveRead
  <2>5. tab[t].req \in Request /\ tab[t].revision # 0
    BY <1>2 DEF ApproveRead, TabBound
  <2>6. TabBound'
    BY <2>2, <2>3, <2>4, <2>5, PageStep
  <2>7. RowsInv'
    BY <1>2, RowsFrame DEF ApproveRead, RowsInv
  <2> QED BY <1>2, <2>6, <2>7, PageType DEF RowsInv
<1>3. ASSUME ApproveAgain(t) PROVE RequestInv'
  <2>1. TabBound'
    BY <1>3, ShownAgain DEF ApproveAgain, ApprovalLocked
  <2>2. RowsInv'
    BY <1>3, RowsFrame DEF ApproveAgain, RowsInv
  <2> QED BY <1>3, <2>1, <2>2, PageType DEF RowsInv
<1>4. ASSUME Abandon(t) PROVE RequestInv'
  <2>1. TabBound'
    <3>1. CASE tab' = [tab EXCEPT ![t] = IdleTab]
      <4>1. IdleTab \in TabState /\ IdleTab.stage = "idle"
        BY PageStateType DEF IdleTab
      <4> QED BY <3>1, <4>1, PageStep
    <3>2. CASE /\ tab[t].stage \in {"approving", "activating", "submitting"}
               /\ tab' = [tab EXCEPT ![t].stage = "shown", ![t].user = NoUser, ![t].preKey = NoKey]
      BY <3>2, ShownAgain
    <3> QED BY <1>4, <3>1, <3>2 DEF Abandon
  <2>2. RowsInv'
    BY <1>4, RowsFrame DEF Abandon, RowsInv
  <2> QED BY <1>4, <2>1, <2>2, PageType DEF RowsInv
<1>5. ASSUME NEW s \in Tab, SendAgain(t, s) PROVE RequestInv'
  <2> DEFINE page == [IdleTab EXCEPT !.stage = "shown", !.req = tab[s].req, !.revision = tab[s].revision]
  <2>1. tab[s].req \in Request /\ tab[s].revision \in Nat \ {0}
    BY <1>5 DEF SendAgain, TabBound, RequestTypeOK, TabState
  <2>2. page \in TabState
    BY <2>1, PageStateType
  <2>3. page.stage = "shown" /\ page.req = tab[s].req /\ page.revision = tab[s].revision
    BY DEF IdleTab
  <2>4. tab' = [tab EXCEPT ![t] = page]
    BY <1>5 DEF SendAgain
  <2>5. TabBound'
    BY <2>1, <2>2, <2>3, <2>4, PageStep
  <2>6. RowsInv'
    BY <1>5, RowsFrame DEF SendAgain, RowsInv
  <2> QED BY <1>5, <2>5, <2>6, PageType DEF RowsInv
<1> QED BY <1>1, <1>2, <1>3, <1>4, <1>5

LEMMA DenyInv ==
  ASSUME RequestInv, NEW u \in User, NEW r \in Request, Deny(u, r)
  PROVE  RequestInv'
<1> USE DEF RequestInv
<1>1. /\ req' = [req EXCEPT ![r] = [req[r] EXCEPT !.status = "DENIED"]]
      /\ req[r].status = "RESOLVED"
      /\ UNCHANGED <<prep, generation, tab>>
  BY DEF Deny, Active
<1>2. /\ req'[r].status = "DENIED" /\ req'[r].user = req[r].user
      /\ \A q \in Request \ {r} : req'[q] = req[q]
  BY <1>1 DEF RequestTypeOK, RequestRow
<1>3. RowsInv'
  BY <1>1, <1>2
  DEF RowsInv, PrepOwned, Unsigned, ApprovalIsCurrent, ApprovalIsNewestRevision
<1> QED BY <1>1, <1>3, AroundType, PageFrame DEF RowsInv

\* A withdrawal leaves no approval of the generation it ends; a redeemed request stays
\* signed for; keys, ceilings, consents and time do not touch the rows.
LEMMA AroundInv ==
  ASSUME RequestInv
  PROVE  /\ \A u \in User : WithdrawRequests(u) /\ UNCHANGED <<prep, tab>> => RowsInv'
         /\ \A u \in User, r \in Request :
              RedeemRequest(u, r) /\ UNCHANGED <<prep, tab, generation>> => RowsInv'
         /\ \A u \in User : ChangeKey(u) => RequestInv'
         /\ ChangeCeiling => RequestInv'
         /\ Tick => RequestInv'
<1> USE DEF RequestInv
<1>1. ASSUME NEW u \in User, WithdrawRequests(u), UNCHANGED <<prep, tab>> PROVE RowsInv'
  <2>1. \A q \in Request :
          /\ req'[q].user = req[q].user
          /\ req'[q].approvedRevision = req[q].approvedRevision
          /\ req'[q].consentGeneration = req[q].consentGeneration
          /\ \/ req'[q].status = req[q].status /\ ~(req[q].user = u /\ req[q].status = "APPROVED")
             \/ req'[q].status = "WITHDRAWN"
    BY <1>1 DEF WithdrawRequests, RequestTypeOK, RequestRow
  <2>2. \A v \in User \ {u} : generation'[v] = generation[v]
    BY <1>1 DEF WithdrawRequests, RequestTypeOK
  <2>3. PrepOwned' /\ Unsigned'
    BY <1>1, <2>1 DEF PrepOwned, Unsigned
  <2>4. ApprovalIsCurrent'
    BY <2>1, <2>2 DEF ApprovalIsCurrent
  <2>5. ApprovalIsNewestRevision'
    BY <1>1, <2>1 DEF ApprovalIsNewestRevision
  <2> QED BY <2>3, <2>4, <2>5 DEF RowsInv
<1>2. ASSUME NEW u \in User, NEW r \in Request, RedeemRequest(u, r), UNCHANGED <<prep, tab, generation>> PROVE RowsInv'
  <2>1. /\ req[r].status = "APPROVED"
        /\ req' = [req EXCEPT ![r] = [req[r] EXCEPT !.status = "REDEEMED"]]
    BY <1>2 DEF RedeemRequest
  <2>2. /\ req'[r].status = "REDEEMED" /\ req'[r].user = req[r].user
        /\ req'[r].approvedRevision = req[r].approvedRevision
        /\ \A q \in Request \ {r} : req'[q] = req[q]
    BY <2>1 DEF RequestTypeOK, RequestRow
  <2> QED BY <1>2, <2>1, <2>2
      DEF RowsInv, PrepOwned, Unsigned, ApprovalIsCurrent, ApprovalIsNewestRevision
<1>3. ASSUME NEW u \in User, ChangeKey(u) PROVE RequestInv'
  BY <1>3, AroundType, RowsFrame, PageFrame DEF ChangeKey, RowsInv
<1>4. ASSUME ChangeCeiling PROVE RequestInv'
  BY <1>4, AroundType, RowsFrame, PageFrame DEF ChangeCeiling, RowsInv
<1>5. ASSUME Tick PROVE RequestInv'
  BY <1>5, AroundType, RowsFrame, PageFrame DEF Tick, RowsInv
<1> QED BY <1>1, <1>2, <1>3, <1>4, <1>5

\* Every step keeps the invariant.
LEMMA StepInv ==
  ASSUME RequestInv, RequestNext
  PROVE  RequestInv'
<1>1. CASE RequestStep
  <2>1. CASE \E r \in Request : Par(r) \/ Resolve(r)
    BY <2>1, PushInv
  <2>2. CASE Sweep
    <3>1. PICK r \in Request : Sweepable(r)
      BY <2>2 DEF Sweep
    <3> QED BY <2>2, <3>1, PushInv
  <2>3. CASE \E t \in Tab, u \in User, r \in Request : PrepareRead(t, u, r)
    BY <2>3, ReadInv
  <2>4. CASE \E t \in Tab, u \in User : ApproveRead(t, u)
    BY <2>4, ReadInv
  <2>5. CASE \E t \in Tab : \/ PrepareCommit(t) \/ ApproveCommit(t) \/ ApproveAgain(t)
                            \/ MarkHostSigned(t) \/ RecordHosting(t) \/ Abandon(t)
    <3>1. PICK t \in Tab : \/ PrepareCommit(t) \/ ApproveCommit(t) \/ ApproveAgain(t)
                           \/ MarkHostSigned(t) \/ RecordHosting(t) \/ Abandon(t)
      BY <2>5
    <3>2. CASE PrepareCommit(t)
      BY <3>2, PrepareInv
    <3>3. CASE ApproveCommit(t)
      BY <3>3, ApproveInv
    <3>4. CASE MarkHostSigned(t) \/ RecordHosting(t)
      BY <3>4, HostingInv
    <3>5. CASE ApproveAgain(t) \/ Abandon(t)
      BY <3>5, ReadInv
    <3> QED BY <3>1, <3>2, <3>3, <3>4, <3>5
  <2>6. CASE \E u \in User, r \in Request : Deny(u, r)
    BY <2>6, DenyInv
  <2>7. CASE \E u \in User : ChangeKey(u)
    BY <2>7, AroundInv
  <2>8. CASE ChangeCeiling
    BY <2>8, AroundInv
  <2>9. CASE Tick
    BY <2>9, AroundInv
  <2>10. CASE \E t \in Tab, s \in Tab : SendAgain(t, s)
    BY <2>10, ReadInv
  <2> QED BY <1>1, <2>1, <2>2, <2>3, <2>4, <2>5, <2>6, <2>7, <2>8, <2>9, <2>10 DEF RequestStep
<1>2. CASE \E u \in User : AcceptConsent(u) /\ UNCHANGED <<now, generation, key, ceiling, req, prep, tab, sweeping>>
  BY <1>2, AroundType, RowsFrame, PageFrame DEF RequestInv, RowsInv, RequestTypeOK
<1>3. CASE \E u \in User :
        ConsentLost(u) /\ WithdrawRequests(u) /\ UNCHANGED <<now, key, ceiling, prep, tab, sweeping>>
  BY <1>3, AroundType, AroundInv, PageFrame DEF RequestInv, RowsInv, RequestTypeOK
<1>4. CASE \E u \in User, r \in Request :
        RedeemRequest(u, r)
        /\ UNCHANGED <<now, consent, generation, key, ceiling, prep, tab, sweeping>>
  BY <1>4, AroundType, AroundInv, PageFrame DEF RequestInv, RowsInv, RequestTypeOK
<1> QED BY <1>1, <1>2, <1>3, <1>4 DEF RequestNext

LEMMA StutterInv ==
  ASSUME RequestInv, UNCHANGED requestVars
  PROVE  RequestInv'
<1>1. RequestTypeOK'
  BY DEF RequestInv, RequestTypeOK, requestVars
<1>2. RowsInv' /\ TabBound'
  BY RowsFrame, PageFrame DEF RequestInv, RowsInv, requestVars
<1> QED BY <1>1, <1>2 DEF RequestInv, RowsInv

\* The invariant holds of every reachable state.
THEOREM RequestInvariant == RequestSpec => []RequestInv
<1>1. RequestInit => RequestInv
  BY InitInv
<1>2. RequestInv /\ [RequestNext]_requestVars => RequestInv'
  BY StepInv, StutterInv
<1> QED BY <1>1, <1>2, PTL DEF RequestSpec

\* Rows, pages, consents and clock stay within their types.
THEOREM RequestTypes == RequestSpec => []RequestTypeOK
<1>1. RequestInv => RequestTypeOK
  BY DEF RequestInv
<1> QED BY <1>1, RequestInvariant, PTL

\* No approval outlives the consent generation it was given under, however withdrawals,
\* prepares and approvals of any number of pages interleave.
THEOREM ApprovalsAreCurrent == RequestSpec => []ApprovalIsCurrent
<1>1. RequestInv => ApprovalIsCurrent
  BY DEF RequestInv
<1> QED BY <1>1, RequestInvariant, PTL

\* Only the newest preparation, made for the request's own user, is ever signed.
THEOREM ApprovalsAreNewest == RequestSpec => []ApprovalIsNewestRevision
<1>1. RequestInv => ApprovalIsNewestRevision
  BY DEF RequestInv
<1> QED BY <1>1, RequestInvariant, PTL

-------------------------------------------------------------------------------
(* What a step may do to a row.                                            *)

Signature(row) == <<row.approvedRevision, row.consentGeneration, row.delegationExpiresAt>>

Terminal == {"DENIED", "WITHDRAWN", "REDEEMED", "SWEPT"}

\* A row is swept, pushed, moved while it is RESOLVED without taking it from its user, or
\* keeps its user and signature, and its status too once that is terminal.
RowMoves(r) ==
  \/ req'[r].status = "SWEPT"
  \/ req[r].status = "ABSENT"
  \/ req[r].status = "RESOLVED" /\ req[r].user \in {NoUser, req'[r].user}
  \/ /\ req'[r].user = req[r].user
     /\ Signature(req'[r]) = Signature(req[r])
     /\ req[r].status \in Terminal => req'[r].status = req[r].status

\* A step that writes one row moves the others trivially.
LEMMA OneRow ==
  ASSUME RequestTypeOK, NEW q, NEW row, req' = [req EXCEPT ![q] = row], NEW r \in Request,
         q = r => RowMoves(r)
  PROVE  RowMoves(r)
<1>1. CASE q = r
  BY <1>1
<1>2. CASE q # r
  <2>1. req'[r] = req[r]
    BY <1>2 DEF RequestTypeOK
  <2> QED BY <2>1 DEF RowMoves
<1> QED BY <1>1, <1>2

LEMMA PageMoves ==
  ASSUME RequestInv, NEW t \in Tab, NEW r \in Request,
         \/ PrepareCommit(t) \/ ApproveCommit(t) \/ ApproveAgain(t)
         \/ MarkHostSigned(t) \/ RecordHosting(t) \/ Abandon(t)
  PROVE  RowMoves(r)
<1> DEFINE q == tab[t].req
<1> USE DEF RequestInv
<1>0. req[r] \in RequestRow
  BY DEF RequestTypeOK
<1>1. CASE PrepareCommit(t)
  <2>1. req' = [req EXCEPT ![q] = [req[q] EXCEPT !.user = tab[t].user]]
    BY <1>1 DEF PrepareCommit, NewRevision
  <2>2. ASSUME q = r PROVE RowMoves(r)
    <3>1. req'[r].user = tab[t].user
      BY <1>0, <2>1, <2>2 DEF RequestTypeOK, RequestRow
    <3> QED BY <1>1, <2>2, <3>1 DEF PrepareCommit, Active, MayAct, RowMoves
  <2> QED BY <2>1, <2>2, OneRow
<1>2. CASE ApproveCommit(t)
  <2> DEFINE n == tab[t].revision
  <2>1. req' = [req EXCEPT ![q] = [req[q] EXCEPT !.status = "APPROVED", !.approvedRevision = n,
                  !.consentGeneration = generation[tab[t].user],
                  !.delegationExpiresAt = now + prep[q][n].ttl, !.hosting = "failed"]]
    BY <1>2 DEF ApproveCommit
  <2>2. ASSUME q = r PROVE RowMoves(r)
    <3>1. req'[r].user = req[r].user
      BY <1>0, <2>1, <2>2 DEF RequestTypeOK, RequestRow
    <3> QED BY <1>2, <2>2, <3>1 DEF ApproveCommit, RowMoves
  <2> QED BY <2>1, <2>2, OneRow
<1>3. CASE ApproveAgain(t) \/ Abandon(t)
  BY <1>3 DEF ApproveAgain, Abandon, RowMoves
<1>4. CASE MarkHostSigned(t)
  <2>1. req' = [req EXCEPT ![q] = [req[q] EXCEPT !.hostSigned = TRUE]]
    BY <1>4 DEF MarkHostSigned
  <2>2. ASSUME q = r PROVE RowMoves(r)
    BY <1>0, <2>1, <2>2 DEF RequestTypeOK, RequestRow, RowMoves, Signature
  <2> QED BY <2>1, <2>2, OneRow
<1>5. CASE RecordHosting(t)
  <2>1. PICK h \in {"existing", "created", "failed"} : req' = [req EXCEPT ![q] = [req[q] EXCEPT !.hosting = h]]
    BY <1>5 DEF RecordHosting
  <2>2. ASSUME q = r PROVE RowMoves(r)
    BY <1>0, <2>1, <2>2 DEF RequestTypeOK, RequestRow, RowMoves, Signature
  <2> QED BY <2>1, <2>2, OneRow
<1> QED BY <1>1, <1>2, <1>3, <1>4, <1>5

LEMMA StepMoves ==
  ASSUME RequestInv, RequestNext, NEW r \in Request
  PROVE  RowMoves(r)
<1> USE DEF RequestInv
<1>0. req[r] \in RequestRow
  BY DEF RequestTypeOK
<1>1. CASE UNCHANGED req
  BY <1>1 DEF RowMoves
<1>2. CASE \E q \in Request : Par(q)
  <2>0. PICK q \in Request : Par(q)
    BY <1>2
  <2>1. PICK row : req[q].status = "ABSENT" /\ req' = [req EXCEPT ![q] = row]
    BY <2>0 DEF Par
  <2>2. ASSUME q = r PROVE RowMoves(r)
    BY <2>1, <2>2 DEF RowMoves
  <2> QED BY <2>1, <2>2, OneRow
<1>3. CASE \E q \in Request : Resolve(q)
  <2>1. PICK q \in Request : /\ req[q].status = "PENDING"
                             /\ req' = [req EXCEPT ![q] = [req[q] EXCEPT !.status = "RESOLVED"]]
    BY <1>3 DEF Resolve
  <2>2. ASSUME q = r PROVE RowMoves(r)
    BY <1>0, <2>1, <2>2 DEF RequestTypeOK, RequestRow, RowMoves, Signature, Terminal
  <2> QED BY <2>1, <2>2, OneRow
<1>4. CASE Sweep
  BY <1>4 DEF Sweep, AbsentRequest, RowMoves
<1>5. CASE \E u \in User, q \in Request : Deny(u, q)
  <2>1. PICK q \in Request : /\ req[q].status = "RESOLVED"
                             /\ req' = [req EXCEPT ![q] = [req[q] EXCEPT !.status = "DENIED"]]
    BY <1>5 DEF Deny, Active
  <2>2. ASSUME q = r PROVE RowMoves(r)
    BY <1>0, <2>1, <2>2 DEF RequestTypeOK, RequestRow, RowMoves, Signature, Terminal
  <2> QED BY <2>1, <2>2, OneRow
<1>6. CASE \E u \in User : WithdrawRequests(u)
  <2>1. \/ req'[r] = req[r]
        \/ /\ req[r].status \in {"RESOLVED", "APPROVED"}
           /\ req'[r] = [req[r] EXCEPT !.status = "WITHDRAWN"]
    BY <1>6 DEF WithdrawRequests
  <2> QED BY <1>0, <2>1 DEF RequestRow, RowMoves, Signature, Terminal
<1>7. CASE \E u \in User, q \in Request : RedeemRequest(u, q)
  <2>1. PICK q \in Request : /\ req[q].status = "APPROVED"
                             /\ req' = [req EXCEPT ![q] = [req[q] EXCEPT !.status = "REDEEMED"]]
    BY <1>7 DEF RedeemRequest
  <2>2. ASSUME q = r PROVE RowMoves(r)
    BY <1>0, <2>1, <2>2 DEF RequestTypeOK, RequestRow, RowMoves, Signature, Terminal
  <2> QED BY <2>1, <2>2, OneRow
<1>8. CASE \E t \in Tab : \/ PrepareCommit(t) \/ ApproveCommit(t) \/ ApproveAgain(t)
                          \/ MarkHostSigned(t) \/ RecordHosting(t) \/ Abandon(t)
  BY <1>8, PageMoves
<1> QED BY <1>1, <1>2, <1>3, <1>4, <1>5, <1>6, <1>7, <1>8
    DEF RequestNext, RequestStep, PrepareRead, SendAgain, ApproveRead, ChangeKey, ChangeCeiling, Tick

\* A request that carries a signature is past RESOLVED, and one with a user was pushed.
LEMMA MovesHold ==
  ASSUME RequestInv, [RequestNext]_requestVars, NEW r \in Request
  PROVE  /\ req[r].approvedRevision # 0 /\ req'[r].status # "SWEPT" =>
              Signature(req'[r]) = Signature(req[r])
         /\ req[r].status \in Terminal => req'[r].status \in {req[r].status, "SWEPT"}
         /\ req[r].user # NoUser /\ req'[r].status # "SWEPT" => req'[r].user = req[r].user
<1>1. RowMoves(r)
  <2>1. CASE RequestNext
    BY <2>1, StepMoves
  <2>2. CASE UNCHANGED requestVars
    BY <2>2 DEF requestVars, RowMoves
  <2> QED BY <2>1, <2>2
<1>2. /\ req[r].status \in {"ABSENT", "RESOLVED"} => req[r].approvedRevision = 0
      /\ req[r].status = "ABSENT" => req[r].user = NoUser
  BY DEF RequestInv, Unsigned
<1> QED BY <1>1, <1>2 DEF RowMoves, Terminal

\* A request is signed for at most once: whichever of two approvals commits first fixes
\* the revision, the generation and the expiry until the row is swept.
THEOREM SigningIsOnce == RequestSpec => SignedOnce
<1>1. RequestInv /\ [RequestNext]_requestVars =>
        [\A r \in Request : req[r].approvedRevision # 0 /\ req'[r].status # "SWEPT" =>
           /\ req'[r].approvedRevision = req[r].approvedRevision
           /\ req'[r].consentGeneration = req[r].consentGeneration
           /\ req'[r].delegationExpiresAt = req[r].delegationExpiresAt]_requestVars
  BY MovesHold DEF Signature
<1> QED BY <1>1, RequestInvariant, PTL DEF RequestSpec, SignedOnce

\* Denial, withdrawal and redemption are final.
THEOREM TerminalIsFinal == RequestSpec => TerminalStays
<1>1. RequestInv /\ [RequestNext]_requestVars =>
        [\A r \in Request : req[r].status \in {"DENIED", "WITHDRAWN", "REDEEMED", "SWEPT"} =>
           req'[r].status \in {req[r].status, "SWEPT"}]_requestVars
  BY MovesHold DEF Terminal
<1> QED BY <1>1, RequestInvariant, PTL DEF RequestSpec, TerminalStays

\* The first user to prepare a request keeps it.
THEOREM OwnerIsFixed == RequestSpec => OwnerStays
<1>1. RequestInv /\ [RequestNext]_requestVars =>
        [\A r \in Request : req[r].user # NoUser /\ req'[r].status # "SWEPT" =>
           req'[r].user = req[r].user]_requestVars
  BY MovesHold
<1> QED BY <1>1, RequestInvariant, PTL DEF RequestSpec, OwnerStays

-------------------------------------------------------------------------------
(* Liveness.  A row pushed stays pushed, with the expiry it was given, so   *)
(* that it is due when the bound is reached, and only the sweep ends that.  *)

\* A row is swept, keeps its expiry, stays absent, or is pushed: that starts the timer and
\* sets an expiry in bounds.
RowStays(r) ==
  \/ req[r].status # "ABSENT" /\ req'[r].status = "SWEPT"
  \/ /\ req[r].status \notin {"ABSENT", "SWEPT"} /\ req'[r].status # "ABSENT"
     /\ req'[r].expiresAt = req[r].expiresAt
  \/ req[r].status = "ABSENT" /\ req'[r].status = "ABSENT"
  \/ /\ req[r].status = "ABSENT"
     /\ sweeping' = TRUE /\ req'[r].expiresAt <= LastPar + RequestTtl

\* The timer runs since the first push, and every expiry is in bounds.
DueInv ==
  \A r \in Request : req[r].status # "ABSENT" =>
    /\ sweeping = TRUE
    /\ req[r].status = "SWEPT" \/ req[r].expiresAt <= LastPar + RequestTtl

\* A step that writes one row leaves the others.
LEMMA OneStays ==
  ASSUME RequestTypeOK, NEW q, NEW row, req' = [req EXCEPT ![q] = row], NEW r \in Request,
         q = r => RowStays(r)
  PROVE  RowStays(r)
<1>1. CASE q = r
  BY <1>1
<1>2. CASE q # r
  <2>1. req'[r] = req[r]
    BY <1>2 DEF RequestTypeOK
  <2> QED BY <2>1 DEF RowStays
<1> QED BY <1>1, <1>2

\* A write of a pushed row that pushes nothing keeps the expiry.
LEMMA FieldStays ==
  ASSUME RequestTypeOK, NEW r \in Request,
         \/ /\ req'[r].status = req[r].status
            /\ req'[r].expiresAt = req[r].expiresAt
         \/ /\ req[r].status \notin {"ABSENT", "SWEPT"} /\ req'[r].status # "ABSENT"
            /\ req'[r].expiresAt = req[r].expiresAt
  PROVE  RowStays(r)
  BY DEF RowStays

LEMMA PageStays ==
  ASSUME RequestTypeOK, NEW t \in Tab, NEW r \in Request,
         \/ PrepareCommit(t) \/ ApproveCommit(t) \/ ApproveAgain(t)
         \/ MarkHostSigned(t) \/ RecordHosting(t) \/ Abandon(t)
  PROVE  RowStays(r)
<1> DEFINE q == tab[t].req
<1>0. req[r] \in RequestRow
  BY DEF RequestTypeOK
<1>1. CASE PrepareCommit(t)
  <2>1. req' = [req EXCEPT ![q] = [req[q] EXCEPT !.user = tab[t].user]]
    BY <1>1 DEF PrepareCommit, NewRevision
  <2>2. ASSUME q = r PROVE RowStays(r)
    BY <1>0, <2>1, <2>2, FieldStays DEF RequestTypeOK, RequestRow
  <2> QED BY <2>1, <2>2, OneStays
<1>2. CASE ApproveCommit(t)
  <2> DEFINE n == tab[t].revision
  <2>1. req' = [req EXCEPT ![q] = [req[q] EXCEPT !.status = "APPROVED", !.approvedRevision = n,
                  !.consentGeneration = generation[tab[t].user],
                  !.delegationExpiresAt = now + prep[q][n].ttl, !.hosting = "failed"]]
    BY <1>2 DEF ApproveCommit
  <2>2. ASSUME q = r PROVE RowStays(r)
    <3>1. req[r].status = "RESOLVED"
      BY <1>2, <2>2 DEF ApproveCommit
    <3>2. req'[r].status # "ABSENT" /\ req'[r].expiresAt = req[r].expiresAt
      BY <1>0, <2>1, <2>2 DEF RequestTypeOK, RequestRow
    <3> QED BY <3>1, <3>2, FieldStays
  <2> QED BY <2>1, <2>2, OneStays
<1>3. CASE ApproveAgain(t) \/ Abandon(t)
  BY <1>3, FieldStays DEF ApproveAgain, Abandon
<1>4. CASE MarkHostSigned(t)
  <2>1. req' = [req EXCEPT ![q] = [req[q] EXCEPT !.hostSigned = TRUE]]
    BY <1>4 DEF MarkHostSigned
  <2>2. ASSUME q = r PROVE RowStays(r)
    BY <1>0, <2>1, <2>2, FieldStays DEF RequestTypeOK, RequestRow
  <2> QED BY <2>1, <2>2, OneStays
<1>5. CASE RecordHosting(t)
  <2>1. PICK h \in {"existing", "created", "failed"} :
          req' = [req EXCEPT ![q] = [req[q] EXCEPT !.hosting = h]]
    BY <1>5 DEF RecordHosting
  <2>2. ASSUME q = r PROVE RowStays(r)
    BY <1>0, <2>1, <2>2, FieldStays DEF RequestTypeOK, RequestRow
  <2> QED BY <2>1, <2>2, OneStays
<1> QED BY <1>1, <1>2, <1>3, <1>4, <1>5

LEMMA PushStays ==
  ASSUME RequestTypeOK, NEW q \in Request, NEW r \in Request, Par(q)
  PROVE  RowStays(r)
<1>1. PICK perms \in SUBSET Perm, ttl \in RequestTtls :
        req' = [req EXCEPT ![q] =
          [AbsentRequest EXCEPT !.status = "PENDING", !.perms = perms, !.ttl = ttl,
             !.uriExpiresAt = now + UriTtl, !.expiresAt = now + RequestTtl]]
  BY DEF Par
<1>2. ASSUME q = r PROVE RowStays(r)
  <2>1. req'[r].expiresAt = now + RequestTtl
    BY <1>1, <1>2 DEF RequestTypeOK, AbsentRequest
  <2>2. now + RequestTtl <= LastPar + RequestTtl
    BY RequestAssumption DEF Par, RequestTypeOK
  <2> QED BY <1>2, <2>1, <2>2 DEF Par, RowStays
<1> QED BY <1>1, <1>2, OneStays

LEMMA StepStays ==
  ASSUME RequestTypeOK, RequestNext, NEW r \in Request
  PROVE  RowStays(r)
<1>0. req[r] \in RequestRow
  BY DEF RequestTypeOK
<1>1. CASE UNCHANGED req
  BY <1>1, FieldStays
<1>2. CASE \E q \in Request : Par(q)
  BY <1>2, PushStays
<1>3. CASE \E q \in Request : Resolve(q)
  <2>1. PICK q \in Request : /\ req[q].status = "PENDING"
                             /\ req' = [req EXCEPT ![q] = [req[q] EXCEPT !.status = "RESOLVED"]]
    BY <1>3 DEF Resolve
  <2>2. ASSUME q = r PROVE RowStays(r)
    BY <1>0, <2>1, <2>2, FieldStays DEF RequestTypeOK, RequestRow
  <2> QED BY <2>1, <2>2, OneStays
<1>4. CASE Sweep
  BY <1>4 DEF Sweep, Sweepable, AbsentRequest, RowStays
<1>5. CASE \E u \in User, q \in Request : Deny(u, q)
  <2>1. PICK q \in Request : /\ req[q].status = "RESOLVED"
                             /\ req' = [req EXCEPT ![q] = [req[q] EXCEPT !.status = "DENIED"]]
    BY <1>5 DEF Deny, Active
  <2>2. ASSUME q = r PROVE RowStays(r)
    BY <1>0, <2>1, <2>2, FieldStays DEF RequestTypeOK, RequestRow
  <2> QED BY <2>1, <2>2, OneStays
<1>6. CASE \E u \in User : WithdrawRequests(u)
  <2>1. \/ req'[r] = req[r]
        \/ /\ req[r].status \in {"RESOLVED", "APPROVED"}
           /\ req'[r] = [req[r] EXCEPT !.status = "WITHDRAWN"]
    BY <1>6 DEF WithdrawRequests
  <2> QED BY <1>0, <2>1, FieldStays DEF RequestRow
<1>7. CASE \E u \in User, q \in Request : RedeemRequest(u, q)
  <2>1. PICK q \in Request : /\ req[q].status = "APPROVED"
                             /\ req' = [req EXCEPT ![q] = [req[q] EXCEPT !.status = "REDEEMED"]]
    BY <1>7 DEF RedeemRequest
  <2>2. ASSUME q = r PROVE RowStays(r)
    <3>1. req'[r].status = "REDEEMED" /\ req'[r].expiresAt = req[r].expiresAt
      BY <1>0, <2>1, <2>2 DEF RequestTypeOK, RequestRow
    <3> QED BY <2>1, <2>2, <3>1, FieldStays
  <2> QED BY <2>1, <2>2, OneStays
<1>8. CASE \E t \in Tab : \/ PrepareCommit(t) \/ ApproveCommit(t) \/ ApproveAgain(t)
                          \/ MarkHostSigned(t) \/ RecordHosting(t) \/ Abandon(t)
  BY <1>8, PageStays
<1> QED BY <1>1, <1>2, <1>3, <1>4, <1>5, <1>6, <1>7, <1>8
    DEF RequestNext, RequestStep, PrepareRead, SendAgain, ApproveRead, ChangeKey, ChangeCeiling, Tick

\* The clock and the timer only go on.
GoesOn == now' \in {now, now + 1} /\ (sweeping = TRUE => sweeping' = TRUE)

LEMMA PageGoesOn ==
  ASSUME NEW t \in Tab,
         \/ PrepareCommit(t) \/ ApproveCommit(t) \/ ApproveAgain(t)
         \/ MarkHostSigned(t) \/ RecordHosting(t) \/ Abandon(t)
  PROVE  GoesOn
<1>1. CASE PrepareCommit(t)
  BY <1>1 DEF PrepareCommit, NewRevision, GoesOn
<1>2. CASE ApproveCommit(t)
  BY <1>2 DEF ApproveCommit, GoesOn
<1>3. CASE ApproveAgain(t)
  BY <1>3 DEF ApproveAgain, GoesOn
<1>4. CASE MarkHostSigned(t)
  BY <1>4 DEF MarkHostSigned, GoesOn
<1>5. CASE RecordHosting(t)
  BY <1>5 DEF RecordHosting, GoesOn
<1>6. CASE Abandon(t)
  BY <1>6 DEF Abandon, GoesOn
<1> QED BY <1>1, <1>2, <1>3, <1>4, <1>5, <1>6

LEMMA StepGoesOn ==
  ASSUME RequestNext
  PROVE  GoesOn
<1>1. CASE \E r \in Request : Par(r) \/ Resolve(r)
  BY <1>1 DEF Par, Resolve, GoesOn
<1>2. CASE Sweep
  BY <1>2 DEF Sweep, GoesOn
<1>3. CASE \E t \in Tab, u \in User, r \in Request : PrepareRead(t, u, r)
  BY <1>3 DEF PrepareRead, GoesOn
<1>4. CASE \E t \in Tab, s \in Tab : SendAgain(t, s)
  BY <1>4 DEF SendAgain, GoesOn
<1>5. CASE \E t \in Tab, u \in User : ApproveRead(t, u)
  BY <1>5 DEF ApproveRead, GoesOn
<1>6. CASE \E t \in Tab : \/ PrepareCommit(t) \/ ApproveCommit(t) \/ ApproveAgain(t)
                          \/ MarkHostSigned(t) \/ RecordHosting(t) \/ Abandon(t)
  BY <1>6, PageGoesOn
<1>7. CASE \E u \in User, r \in Request : Deny(u, r)
  BY <1>7 DEF Deny, GoesOn
<1>8. CASE (\E u \in User : ChangeKey(u)) \/ ChangeCeiling \/ Tick
  BY <1>8 DEF ChangeKey, ChangeCeiling, Tick, GoesOn
<1>9. CASE UNCHANGED <<now, sweeping>>
  BY <1>9 DEF GoesOn
<1> QED BY <1>1, <1>2, <1>3, <1>4, <1>5, <1>6, <1>7, <1>8, <1>9 DEF RequestNext, RequestStep

LEMMA DueStep ==
  ASSUME RequestTypeOK, DueInv, [RequestNext]_requestVars
  PROVE  DueInv'
<1>1. CASE RequestNext
  <2>1. \A r \in Request : RowStays(r)
    BY <1>1, StepStays
  <2>2. sweeping = TRUE => sweeping' = TRUE
    BY <1>1, StepGoesOn DEF GoesOn
  <2>3. ASSUME NEW r \in Request, req'[r].status # "ABSENT"
        PROVE  /\ sweeping' = TRUE
               /\ req'[r].status = "SWEPT" \/ req'[r].expiresAt <= LastPar + RequestTtl
    <3>1. CASE req[r].status = "ABSENT"
      BY <2>1, <2>3, <3>1 DEF RowStays
    <3>2. CASE req[r].status # "ABSENT"
      BY <2>1, <2>2, <2>3, <3>2 DEF RowStays, DueInv
    <3> QED BY <3>1, <3>2
  <2> QED BY <2>3 DEF DueInv
<1>2. CASE UNCHANGED requestVars
  BY <1>2 DEF requestVars, DueInv
<1> QED BY <1>1, <1>2

\* However long a request was kept alive by its page, and whoever it belongs to, its row is
\* swept, provided the bound on time leaves room for the last row's retention.
THEOREM RowsAreSwept ==
  ASSUME LastPar + RequestTtl + Retention < MaxTime
  PROVE  FairRequestSpec => RowsEventuallySwept
<1>1. ASSUME NEW r \in Request
      PROVE  FairRequestSpec => ((req[r].status # "ABSENT") ~> (req[r].status = "SWEPT"))
  <2> DEFINE Pushed == req[r].status # "ABSENT"
             Swept  == req[r].status = "SWEPT"
             Late   == now >= MaxTime
             Inv    == RequestInv /\ DueInv
  <2>1. RequestInit => Inv
    BY InitInv DEF RequestInit, DueInv, AbsentRequest
  <2>2. Inv /\ [RequestNext]_requestVars => Inv'
    BY StepInv, StutterInv, DueStep DEF RequestInv
  <2>3. Inv /\ Pushed /\ [RequestNext]_requestVars => Pushed' \/ Swept'
    <3>1. CASE RequestNext
      BY <3>1, StepStays DEF RequestInv, RowStays
    <3>2. CASE UNCHANGED requestVars
      BY <3>2 DEF requestVars
    <3> QED BY <3>1, <3>2
  <2>4. Inv /\ Late /\ [RequestNext]_requestVars => Late'
    <3>1. CASE RequestNext
      BY <3>1, StepGoesOn, RequestAssumption DEF GoesOn, RequestInv, RequestTypeOK
    <3>2. CASE UNCHANGED requestVars
      BY <3>2 DEF requestVars
    <3> QED BY <3>1, <3>2
  <2>5. Inv /\ Pushed /\ Late => Swept \/ SweepDue
    BY RequestAssumption DEF RequestInv, RequestTypeOK, RequestRow, DueInv, SweepDue, Sweepable
  <2>6. Inv /\ Pushed /\ Late /\ <<Sweep>>_requestVars => Swept'
    <3> SUFFICES ASSUME Inv, Pushed, Late, Sweep, ~Swept PROVE Swept'
      BY DEF Sweep, Sweepable, requestVars
    <3>1. Sweepable(r)
      BY RequestAssumption DEF RequestInv, RequestTypeOK, RequestRow, DueInv, Sweepable
    <3> QED BY <3>1 DEF Sweep, AbsentRequest
  <2> QED BY <2>1, <2>2, <2>3, <2>4, <2>5, <2>6, PTL
          DEF FairRequestSpec, RequestSpec, SweepRuns, TimePasses
<1> QED BY <1>1 DEF RowsEventuallySwept
=============================================================================
