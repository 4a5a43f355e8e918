----------------------------- MODULE RelaysProofs -----------------------------
(***************************************************************************)
(* ApprovalResults, DelegationCodes and WidgetFlows for any number of      *)
(* requests, codes, pages and calls: what was answered follows from the    *)
(* row, the first two are one-time handoffs, and a call of the SDK is      *)
(* never left without a deadline.                                          *)
(***************************************************************************)
EXTENDS ApprovalResults, DelegationCodes, WidgetFlows, TLAPS

-------------------------------------------------------------------------------
(* Approvals: the inductive invariant.                                     *)

\* What was answered is what the row says.
Agrees(row, t) ==
  /\ row.state \in {"none", "open"} => t = NothingTold /\ ~ row.sealed /\ row.ack = NoAck
  /\ row.state = "denied" =>
       t.approved = {} /\ t.fetched = {} /\ ~ t.already /\ t.acked = {} /\ ~ row.sealed
  /\ row.state = "approved" =>
       /\ t.approved = {row.delegation} /\ t.fetched \subseteq {row.delegation} /\ ~ t.denied
       /\ \/ row.sealed /\ row.ack = NoAck /\ t.acked = {}
          \/ ~ row.sealed /\ row.ack \in Ack /\ t.acked = {row.ack}

ApprovalCallsBound ==
  /\ \A p \in Page : page[p].stage # "idle" => page[p].request \in Request
  /\ \A x \in Decliner : decline[x].stage # "idle" => decline[x].request \in Request
  /\ \A f \in Fetcher : fetcher[f].stage # "idle" =>
       fetcher[f].request \in Request /\ fetcher[f].ack \in Ack

ApprovalInv ==
  /\ ApprovalTypeOK
  /\ ApprovalCallsBound
  /\ \A q \in Request : Agrees(request[q], told[q])

-------------------------------------------------------------------------------
(* Approvals: steps.                                                       *)

LEMMA EmptyApprovals ==
  /\ UnloadedRequest \in RequestRow /\ NothingTold \in Told
  /\ IdleApprover \in ApproverState /\ IdleDecliner \in DeclinerState
  /\ IdleFetcher \in FetcherState
BY DEF UnloadedRequest, RequestRow, NothingTold, Told, IdleApprover, ApproverState,
       IdleDecliner, DeclinerState, IdleFetcher, FetcherState

LEMMA ApprovalInitInv == ApprovalInit => ApprovalInv
BY EmptyApprovals DEF ApprovalInit, ApprovalInv, ApprovalTypeOK, ApprovalCallsBound, Agrees,
   UnloadedRequest, IdleApprover, IdleDecliner, IdleFetcher

\* Nothing was told before the decision that is told first.
LEMMA FirstApproval ==
  ASSUME NEW d \in Nat, NEW t, t = [NothingTold EXCEPT !.approved = {d}]
  PROVE  t = [approved |-> {d}, denied |-> FALSE, already |-> FALSE, fetched |-> {}, acked |-> {}]
BY DEF NothingTold

LEMMA FirstRefusal ==
  ASSUME NEW t, t = [NothingTold EXCEPT !.denied = TRUE]
  PROVE  t = [approved |-> {}, denied |-> TRUE, already |-> FALSE, fetched |-> {}, acked |-> {}]
BY DEF NothingTold

\* One request's row and what was told of it change together.
LEMMA RequestMoves ==
  ASSUME ApprovalInv, NEW q \in Request, NEW row \in RequestRow, NEW t \in Told,
         Agrees(row, t),
         request' = [request EXCEPT ![q] = row], told' = [told EXCEPT ![q] = t]
  PROVE  /\ request' \in [Request -> RequestRow] /\ told' \in [Request -> Told]
         /\ \A o \in Request : Agrees(request[o], told[o])'
<1>1. ASSUME NEW o \in Request
      PROVE  \/ request'[o] = row /\ told'[o] = t
             \/ request'[o] = request[o] /\ told'[o] = told[o]
  BY DEF ApprovalInv, ApprovalTypeOK
<1> QED BY <1>1 DEF ApprovalInv, ApprovalTypeOK, Agrees

LEMMA LoadInv ==
  ASSUME ApprovalInv, NEW q \in Request, Load(q)
  PROVE  ApprovalInv'
<1> USE DEF ApprovalInv, ApprovalTypeOK
<1>1. PICK expiresAt \in 0..RequestLife :
        request' = [request EXCEPT ![q].state = "open", ![q].expiresAt = expiresAt]
  BY DEF Load
<1>2. PICK row : row = [[request[q] EXCEPT !.state = "open"] EXCEPT !.expiresAt = expiresAt]
  OBVIOUS
<1>3. expiresAt \in Nat
  BY ApprovalAssumption
<1>4. row \in RequestRow /\ row.state = "open" /\ row.sealed = request[q].sealed
      /\ row.ack = request[q].ack
  BY <1>2, <1>3 DEF RequestRow
<1>5. request' = [request EXCEPT ![q] = row]
  BY <1>1, <1>2 DEF RequestRow
<1>6. told' = [told EXCEPT ![q] = told[q]]
  BY DEF Load
<1>7. Agrees(row, told[q])
  BY <1>4 DEF Agrees, Load
<1>8. /\ request' \in [Request -> RequestRow] /\ told' \in [Request -> Told]
      /\ \A o \in Request : Agrees(request[o], told[o])'
  BY <1>4, <1>5, <1>6, <1>7, RequestMoves
<1> QED BY <1>8 DEF Load, ApprovalCallsBound

LEMMA ApproveInv ==
  ASSUME ApprovalInv, NEW p \in Page, Approve(p)
  PROVE  ApprovalInv'
<1> USE DEF ApprovalInv, ApprovalTypeOK
<1> DEFINE q == page[p].request
<1>1. q \in Request
  BY DEF Approve, ApprovalCallsBound
<1>2. /\ page' \in [Page -> ApproverState] /\ ApprovalCallsBound'
      /\ now' \in Nat /\ decline' \in [Decliner -> DeclinerState]
      /\ fetcher' \in [Fetcher -> FetcherState]
  BY EmptyApprovals DEF Approve, ApprovalCallsBound, IdleApprover
<1>3. CASE request' = request /\ told' = told
  BY <1>2, <1>3 DEF Agrees
<1>4. CASE /\ Pending(q)
           /\ request' = [request EXCEPT ![q].state = "approved", ![q].sealed = TRUE,
                ![q].delegation = page[p].delegation,
                ![q].resultExpiresAt = page[p].resultExpiresAt]
           /\ told' = [told EXCEPT ![q].approved = @ \cup {page[p].delegation}]
  <2>1. PICK row : row = [[[[request[q] EXCEPT !.state = "approved"] EXCEPT !.sealed = TRUE]
                          EXCEPT !.delegation = page[p].delegation]
                          EXCEPT !.resultExpiresAt = page[p].resultExpiresAt]
    OBVIOUS
  <2>2. PICK t : t = [told[q] EXCEPT !.approved = @ \cup {page[p].delegation}]
    OBVIOUS
  <2>3. page[p].delegation \in Nat /\ page[p].resultExpiresAt \in Nat
    BY DEF ApproverState
  <2>4. request[q].state = "open" /\ request[q] \in RequestRow /\ told[q] = NothingTold
    BY <1>1, <1>4 DEF Pending, Agrees
  <2>5. /\ row \in RequestRow /\ row.state = "approved" /\ row.sealed
        /\ row.delegation = page[p].delegation /\ row.ack = request[q].ack
    BY <2>1, <2>3, <2>4 DEF RequestRow
  <2>6. /\ t \in Told /\ t.approved = {page[p].delegation} /\ t.fetched = {} /\ ~ t.denied
        /\ t.acked = {}
    <3>1. told[q].approved \cup {page[p].delegation} = {page[p].delegation}
      BY <2>4 DEF NothingTold
    <3>2. t = [NothingTold EXCEPT !.approved = {page[p].delegation}]
      BY <2>2, <2>4, <3>1
    <3>3. t = [approved |-> {page[p].delegation}, denied |-> FALSE, already |-> FALSE,
               fetched |-> {}, acked |-> {}]
      BY <2>3, <3>2, FirstApproval
    <3> QED BY <2>3, <3>3 DEF Told
  <2>7. Agrees(row, t)
    BY <2>4, <2>5, <2>6, <1>1 DEF Agrees
  <2>8. request' = [request EXCEPT ![q] = row] /\ told' = [told EXCEPT ![q] = t]
    BY <1>1, <1>4, <2>1, <2>2 DEF RequestRow, Told
  <2>9. /\ request' \in [Request -> RequestRow] /\ told' \in [Request -> Told]
        /\ \A o \in Request : Agrees(request[o], told[o])'
    BY <1>1, <2>5, <2>6, <2>7, <2>8, RequestMoves
  <2> QED BY <1>2, <2>9
<1> QED BY <1>3, <1>4 DEF Approve

LEMMA DenyInv ==
  ASSUME ApprovalInv, NEW x \in Decliner, Deny(x)
  PROVE  ApprovalInv'
<1> USE DEF ApprovalInv, ApprovalTypeOK
<1> DEFINE q == decline[x].request
<1>1. q \in Request
  BY DEF Deny, ApprovalCallsBound
<1>2. /\ decline' \in [Decliner -> DeclinerState] /\ ApprovalCallsBound'
      /\ now' \in Nat /\ page' \in [Page -> ApproverState]
      /\ fetcher' \in [Fetcher -> FetcherState]
  BY EmptyApprovals DEF Deny, ApprovalCallsBound, IdleDecliner, DeclinerState
<1>3. CASE request' = request /\ told' = told
  BY <1>2, <1>3 DEF Agrees
<1>4. CASE /\ request[q].state = "open"
           /\ request' = [request EXCEPT ![q].state = "denied"]
           /\ told' = [told EXCEPT ![q].denied = TRUE]
  <2>1. PICK row : row = [request[q] EXCEPT !.state = "denied"]
    OBVIOUS
  <2>2. PICK t : t = [told[q] EXCEPT !.denied = TRUE]
    OBVIOUS
  <2>3. request[q] \in RequestRow /\ told[q] = NothingTold /\ ~ request[q].sealed
    BY <1>1, <1>4 DEF Agrees
  <2>4. row \in RequestRow /\ row.state = "denied" /\ ~ row.sealed
    BY <2>1, <2>3 DEF RequestRow
  <2>5. /\ t \in Told /\ t.approved = {} /\ t.fetched = {} /\ ~ t.already /\ t.acked = {}
    <3>1. t = [approved |-> {}, denied |-> TRUE, already |-> FALSE, fetched |-> {},
               acked |-> {}]
      BY <2>2, <2>3, FirstRefusal
    <3> QED BY <3>1 DEF Told
  <2>6. Agrees(row, t)
    BY <2>4, <2>5 DEF Agrees
  <2>7. request' = [request EXCEPT ![q] = row] /\ told' = [told EXCEPT ![q] = t]
    BY <1>1, <1>4, <2>1, <2>2 DEF RequestRow, Told
  <2>8. /\ request' \in [Request -> RequestRow] /\ told' \in [Request -> Told]
        /\ \A o \in Request : Agrees(request[o], told[o])'
    BY <1>1, <2>4, <2>5, <2>6, <2>7, RequestMoves
  <2> QED BY <1>2, <2>8
<1> QED BY <1>3, <1>4 DEF Deny

\* Only what was told changes.
LEMMA ToldMoves ==
  ASSUME ApprovalInv, NEW q \in Request, NEW t \in Told, Agrees(request[q], t),
         request' = request, told' = [told EXCEPT ![q] = t]
  PROVE  /\ told' \in [Request -> Told]
         /\ \A o \in Request : Agrees(request[o], told[o])'
<1>1. request' = [request EXCEPT ![q] = request[q]] /\ request[q] \in RequestRow
  BY DEF ApprovalInv, ApprovalTypeOK
<1> QED BY <1>1, RequestMoves

LEMMA SettleInv ==
  ASSUME ApprovalInv, NEW x \in Decliner, Settle(x)
  PROVE  ApprovalInv'
<1> USE DEF ApprovalInv, ApprovalTypeOK
<1> DEFINE q == decline[x].request
<1>1. q \in Request
  BY DEF Settle, ApprovalCallsBound
<1>2. PICK t : t = [[told[q] EXCEPT !.denied = @ \/ request[q].state = "denied"]
                            EXCEPT !.already = @ \/ request[q].state = "approved"]
  OBVIOUS
<1>3. /\ t \in Told /\ t.approved = told[q].approved /\ t.fetched = told[q].fetched
      /\ t.acked = told[q].acked
      /\ t.denied = (told[q].denied \/ request[q].state = "denied")
      /\ t.already = (told[q].already \/ request[q].state = "approved")
  BY <1>1, <1>2 DEF Told
<1>4. CASE request[q].state \in {"none", "open"}
  <2>1. told[q] = NothingTold
    BY <1>1, <1>4 DEF Agrees
  <2>2. ~ t.denied /\ ~ t.already
    <3>1. ~ told[q].denied /\ ~ told[q].already
      BY <2>1 DEF NothingTold
    <3> QED BY <1>3, <1>4, <3>1
  <2>3. t = NothingTold
    <3>1. /\ t.approved = {} /\ t.denied = FALSE /\ t.already = FALSE /\ t.fetched = {}
          /\ t.acked = {}
      BY <1>3, <2>1, <2>2 DEF NothingTold, Told
    <3>2. t = [approved |-> t.approved, denied |-> t.denied, already |-> t.already,
               fetched |-> t.fetched, acked |-> t.acked]
      BY <1>3 DEF Told
    <3> QED BY <3>1, <3>2 DEF NothingTold
  <2>4. Agrees(request[q], t)
    BY <1>1, <2>1, <2>3
  <2>5. told' = [told EXCEPT ![q] = t] /\ request' = request
    BY <1>1, <1>2 DEF Settle, Told
  <2>6. told' \in [Request -> Told] /\ \A o \in Request : Agrees(request[o], told[o])'
    BY <1>1, <1>3, <2>4, <2>5, ToldMoves
  <2> QED BY <2>6, EmptyApprovals DEF Settle, ApprovalCallsBound, IdleDecliner
<1>5. CASE request[q].state \in {"denied", "approved"}
  <2>1. Agrees(request[q], t)
    BY <1>1, <1>3, <1>5 DEF Agrees
  <2>2. told' = [told EXCEPT ![q] = t] /\ request' = request
    BY <1>1, <1>2 DEF Settle, Told
  <2>3. told' \in [Request -> Told] /\ \A o \in Request : Agrees(request[o], told[o])'
    BY <1>1, <1>3, <2>1, <2>2, ToldMoves
  <2> QED BY <2>3, EmptyApprovals DEF Settle, ApprovalCallsBound, IdleDecliner
<1>6. request[q].state \in {"none", "open", "denied", "approved"}
  BY <1>1 DEF RequestRow
<1> QED BY <1>4, <1>5, <1>6

LEMMA FetchInv ==
  ASSUME ApprovalInv, NEW q \in Request, Fetch(q)
  PROVE  ApprovalInv'
<1> USE DEF ApprovalInv, ApprovalTypeOK
<1>1. PICK t : t = [told[q] EXCEPT !.fetched = @ \cup {request[q].delegation}]
  OBVIOUS
<1>2. /\ t \in Told /\ t.approved = told[q].approved /\ t.acked = told[q].acked
      /\ t.fetched = told[q].fetched \cup {request[q].delegation} /\ t.denied = told[q].denied
  BY <1>1 DEF Told, RequestRow
<1>3. Agrees(request[q], t)
  BY <1>2 DEF Agrees, Fetch, Retained
<1>4. told' = [told EXCEPT ![q] = t] /\ request' = request
  BY <1>1 DEF Fetch, Told
<1>5. told' \in [Request -> Told] /\ \A o \in Request : Agrees(request[o], told[o])'
  BY <1>2, <1>3, <1>4, ToldMoves
<1> QED BY <1>5 DEF Fetch, ApprovalCallsBound

LEMMA AcknowledgeInv ==
  ASSUME ApprovalInv, NEW f \in Fetcher, Acknowledge(f)
  PROVE  ApprovalInv'
<1> USE DEF ApprovalInv, ApprovalTypeOK
<1> DEFINE q == fetcher[f].request
           a == fetcher[f].ack
<1>1. q \in Request /\ a \in Ack
  BY DEF Acknowledge, ApprovalCallsBound
<1>2. /\ fetcher' \in [Fetcher -> FetcherState] /\ ApprovalCallsBound'
      /\ now' \in Nat /\ page' \in [Page -> ApproverState]
      /\ decline' \in [Decliner -> DeclinerState]
  BY EmptyApprovals DEF Acknowledge, ApprovalCallsBound, IdleFetcher
<1>3. CASE request' = request /\ told' = told
  BY <1>2, <1>3 DEF Agrees
<1>4. CASE /\ Retained(q) /\ request[q].ack \in {NoAck, a}
           /\ request' = [request EXCEPT ![q].ack = a, ![q].sealed = FALSE]
           /\ told' = [told EXCEPT ![q].acked = @ \cup {a}]
  <2>1. PICK row : row = [[request[q] EXCEPT !.ack = a] EXCEPT !.sealed = FALSE]
    OBVIOUS
  <2>2. PICK t : t = [told[q] EXCEPT !.acked = @ \cup {a}]
    OBVIOUS
  <2>3. /\ row \in RequestRow /\ row.state = "approved" /\ row.ack = a /\ ~ row.sealed
        /\ row.delegation = request[q].delegation
    BY <1>1, <1>4, <2>1 DEF RequestRow, Retained
  <2>4. /\ t \in Told /\ t.approved = told[q].approved /\ t.fetched = told[q].fetched
        /\ t.denied = told[q].denied /\ t.acked = told[q].acked \cup {a}
    BY <1>1, <2>2 DEF Told
  <2>5. told[q].acked \cup {a} = {a}
    BY <1>1, <1>4, ApprovalAssumption DEF Agrees, Retained
  <2>6. Agrees(row, t)
    BY <1>1, <1>4, <2>3, <2>4, <2>5 DEF Agrees, Retained
  <2>7. request' = [request EXCEPT ![q] = row] /\ told' = [told EXCEPT ![q] = t]
    BY <1>1, <1>4, <2>1, <2>2 DEF RequestRow, Told
  <2>8. /\ request' \in [Request -> RequestRow] /\ told' \in [Request -> Told]
        /\ \A o \in Request : Agrees(request[o], told[o])'
    BY <1>1, <2>3, <2>4, <2>6, <2>7, RequestMoves
  <2> QED BY <1>2, <2>8
<1> QED BY <1>3, <1>4 DEF Acknowledge

\* Steps of pages and calls that leave the rows alone.
LEMMA ApprovalCallsInv ==
  ASSUME ApprovalInv, ApprovalNext, UNCHANGED <<request, told>>
  PROVE  ApprovalInv'
<1> USE DEF ApprovalInv, ApprovalTypeOK
<1>1. \A o \in Request : Agrees(request[o], told[o])'
  BY DEF Agrees
<1>2. ASSUME NEW p \in Page, NEW q \in Request, SignFor(p, q)
      PROVE  ApprovalInv'
  <2>1. PICK d \in now..(now + GrantLifetime) :
          page' = [page EXCEPT ![p] =
            [IdleApprover EXCEPT !.stage = "signed", !.request = q, !.delegation = d]]
    BY <1>2 DEF SignFor
  <2>2. d \in Nat
    BY ApprovalAssumption
  <2>3. PICK v : v = [IdleApprover EXCEPT !.stage = "signed", !.request = q, !.delegation = d]
    OBVIOUS
  <2>4. v \in ApproverState /\ v.request = q
    BY <2>2, <2>3 DEF IdleApprover, ApproverState
  <2>5. page' = [page EXCEPT ![p] = v]
    BY <2>1, <2>3
  <2> QED BY <1>1, <1>2, <2>4, <2>5 DEF SignFor, ApprovalCallsBound
<1>3. ASSUME NEW p \in Page, Seal(p)
      PROVE  ApprovalInv'
  <2>1. Earlier(page[p].delegation, now + ResultRetention) \in Nat
    BY ApprovalAssumption DEF Earlier, ApproverState
  <2> QED BY <1>1, <1>3, <2>1 DEF Seal, ApproverState, ApprovalCallsBound
<1>4. ASSUME NEW p \in Page, ApproverEnds(p) \/ (Approve(p) /\ UNCHANGED <<request, told>>)
      PROVE  ApprovalInv'
  BY <1>1, <1>4, EmptyApprovals DEF ApproverEnds, Approve, IdleApprover, ApprovalCallsBound
<1>5. ASSUME NEW x \in Decliner, NEW q \in Request, DeclineFind(x, q)
      PROVE  ApprovalInv'
  BY <1>1, <1>5 DEF DeclineFind, DeclinerState, ApprovalCallsBound
<1>6. ASSUME NEW x \in Decliner, DeclinerEnds(x)
      PROVE  ApprovalInv'
  BY <1>1, <1>6, EmptyApprovals DEF DeclinerEnds, IdleDecliner, ApprovalCallsBound
<1>7. ASSUME NEW f \in Fetcher, NEW q \in Request, NEW a \in Ack, AckRead(f, q, a)
      PROVE  ApprovalInv'
  BY <1>1, <1>7 DEF AckRead, FetcherState, ApprovalCallsBound
<1>8. ASSUME NEW f \in Fetcher, FetcherEnds(f)
      PROVE  ApprovalInv'
  BY <1>1, <1>8, EmptyApprovals DEF FetcherEnds, IdleFetcher, ApprovalCallsBound
<1>9. CASE Tick /\ UNCHANGED approvalVars
  BY <1>1, <1>9 DEF Tick, approvalVars, ApprovalCallsBound
<1> QED BY <1>2, <1>3, <1>4, <1>5, <1>6, <1>7, <1>8, <1>9, LoadInv, FetchInv, ApproveInv, DenyInv,
      SettleInv, AcknowledgeInv DEF ApprovalNext

LEMMA ApprovalNextInv == ApprovalInv /\ [ApprovalNext]_<<now, approvalVars>> => ApprovalInv'
<1> SUFFICES ASSUME ApprovalInv, [ApprovalNext]_<<now, approvalVars>> PROVE ApprovalInv'
  OBVIOUS
<1>1. CASE UNCHANGED <<now, approvalVars>>
  BY <1>1 DEF approvalVars, ApprovalInv, ApprovalTypeOK, ApprovalCallsBound, Agrees
<1>2. CASE ApprovalNext /\ UNCHANGED <<request, told>>
  BY <1>2, ApprovalCallsInv
<1>3. CASE ApprovalNext /\ ~ UNCHANGED <<request, told>>
  BY <1>3, LoadInv, FetchInv, ApproveInv, DenyInv, SettleInv, AcknowledgeInv DEF ApprovalNext,
     SignFor, Seal, ApproverEnds, DeclineFind, DeclinerEnds, AckRead, FetcherEnds, approvalVars
<1> QED BY <1>1, <1>2, <1>3
-------------------------------------------------------------------------------
(* Approvals: the one-time handoff.                                        *)

LEMMA SameApprovals ==
  ASSUME \A q \in Request : /\ ApprovalPhase(request'[q]) = ApprovalPhase(request[q])
                           /\ ApprovalResult(request'[q]) = ApprovalResult(request[q])
  PROVE  UNCHANGED <<approvalPhaseBar, approvalResultBar>>
BY DEF approvalPhaseBar, approvalResultBar

\* A function that changed at one place.
LEMMA OneChanged ==
  ASSUME NEW S, NEW s \in S, NEW v, NEW f, NEW g,
         f = [x \in S |-> f[x]], g = [x \in S |-> g[x]],
         g[s] = v, \A x \in S \ {s} : g[x] = f[x]
  PROVE  g = [f EXCEPT ![s] = v]
OBVIOUS

LEMMA ApprovalBars ==
  /\ approvalPhaseBar = [q \in Request |-> approvalPhaseBar[q]]
  /\ approvalResultBar = [q \in Request |-> approvalResultBar[q]]
  /\ \A q \in Request : /\ approvalPhaseBar[q] = ApprovalPhase(request[q])
                        /\ approvalResultBar[q] = ApprovalResult(request[q])
BY DEF approvalPhaseBar, approvalResultBar

LEMMA ApprovalCloses ==
  ASSUME NEW q \in Request, ApprovalPhase(request[q]) # "over",
         ApprovalPhase(request'[q]) = "over", ApprovalResult(request'[q]) = NoResult,
         \A o \in Request \ {q} : request'[o] = request[o]
  PROVE  ApprovalHandoff!Close(q)
<1>1. /\ approvalPhaseBar' = [o \in Request |-> ApprovalPhase(request'[o])]
      /\ approvalResultBar' = [o \in Request |-> ApprovalResult(request'[o])]
  BY DEF approvalPhaseBar, approvalResultBar
<1>2. approvalPhaseBar' = [approvalPhaseBar EXCEPT ![q] = "over"]
  BY <1>1, ApprovalBars, OneChanged
<1>3. approvalResultBar' = [approvalResultBar EXCEPT ![q] = NoResult]
  BY <1>1, ApprovalBars, OneChanged
<1> QED BY <1>2, <1>3, ApprovalBars DEF ApprovalHandoff!Close

LEMMA ApprovalDecides ==
  ASSUME NEW q \in Request, ApprovalPhase(request[q]) = "open",
         ApprovalPhase(request'[q]) = "available", ApprovalResult(request'[q]) \in Nat,
         \A o \in Request \ {q} : request'[o] = request[o]
  PROVE  ApprovalHandoff!Decide(q)
<1>1. /\ approvalPhaseBar' = [o \in Request |-> ApprovalPhase(request'[o])]
      /\ approvalResultBar' = [o \in Request |-> ApprovalResult(request'[o])]
  BY DEF approvalPhaseBar, approvalResultBar
<1>2. approvalPhaseBar' = [approvalPhaseBar EXCEPT ![q] = "available"]
  BY <1>1, ApprovalBars, OneChanged
<1>3. approvalResultBar' = [approvalResultBar EXCEPT ![q] = approvalResultBar'[q]]
  BY <1>1, ApprovalBars, OneChanged
<1>4. approvalResultBar'[q] \in Nat
  BY <1>1
<1> QED BY <1>2, <1>3, <1>4, ApprovalBars DEF ApprovalHandoff!Decide

LEMMA ApprovalStep ==
  ApprovalInv /\ [ApprovalNext]_<<now, approvalVars>>
    => [ApprovalHandoff!Next]_<<approvalPhaseBar, approvalResultBar>>
<1> SUFFICES ASSUME ApprovalInv, [ApprovalNext]_<<now, approvalVars>>
             PROVE  [ApprovalHandoff!Next]_<<approvalPhaseBar, approvalResultBar>>
  OBVIOUS
<1> USE DEF ApprovalInv, ApprovalTypeOK
<1>1. ASSUME UNCHANGED request PROVE UNCHANGED <<approvalPhaseBar, approvalResultBar>>
  BY <1>1, SameApprovals
<1>2. ASSUME NEW q \in Request, Load(q) PROVE UNCHANGED <<approvalPhaseBar, approvalResultBar>>
  <2>1. PICK expiresAt \in 0..RequestLife :
          request' = [request EXCEPT ![q].state = "open", ![q].expiresAt = expiresAt]
    BY <1>2 DEF Load
  <2>2. /\ request[q].state = "none" /\ request'[q].state = "open"
        /\ request'[q].sealed = request[q].sealed
        /\ request'[q].delegation = request[q].delegation
        /\ \A o \in Request \ {q} : request'[o] = request[o]
    BY <1>2, <2>1 DEF Load, RequestRow
  <2> QED BY <2>2, SameApprovals DEF ApprovalPhase, ApprovalResult
<1>3. ASSUME NEW p \in Page, Approve(p)
      PROVE  [ApprovalHandoff!Next]_<<approvalPhaseBar, approvalResultBar>>
  <2>1. PICK q \in Request : q = page[p].request
    BY <1>3 DEF Approve, ApprovalCallsBound
  <2>2. CASE UNCHANGED request
    BY <1>1, <2>2
  <2>3. CASE /\ Pending(q)
             /\ request' = [request EXCEPT ![q].state = "approved", ![q].sealed = TRUE,
                  ![q].delegation = page[p].delegation,
                  ![q].resultExpiresAt = page[p].resultExpiresAt]
    <3>1. /\ request'[q].state = "approved" /\ request'[q].sealed
          /\ request'[q].delegation = page[p].delegation
          /\ \A o \in Request \ {q} : request'[o] = request[o]
      BY <2>3 DEF RequestRow
    <3>2. page[p].delegation \in Nat
      BY DEF ApproverState
    <3>3. ApprovalPhase(request[q]) = "open"
      BY <2>3 DEF Pending, ApprovalPhase
    <3>4. ApprovalPhase(request'[q]) = "available" /\ ApprovalResult(request'[q]) \in Nat
      BY <3>1, <3>2 DEF ApprovalPhase, ApprovalResult
    <3>5. ApprovalHandoff!Decide(q)
      BY <3>1, <3>3, <3>4, ApprovalDecides
    <3> QED BY <3>5 DEF ApprovalHandoff!Next
  <2> QED BY <1>3, <2>1, <2>2, <2>3 DEF Approve
<1>4. ASSUME NEW x \in Decliner, Deny(x)
      PROVE  [ApprovalHandoff!Next]_<<approvalPhaseBar, approvalResultBar>>
  <2>1. PICK q \in Request : q = decline[x].request
    BY <1>4 DEF Deny, ApprovalCallsBound
  <2>2. CASE UNCHANGED request
    BY <1>1, <2>2
  <2>3. CASE request[q].state = "open" /\ request' = [request EXCEPT ![q].state = "denied"]
    <3>1. /\ request'[q].state = "denied" /\ request'[q].sealed = request[q].sealed
          /\ \A o \in Request \ {q} : request'[o] = request[o]
      BY <2>3 DEF RequestRow
    <3>2. ~ request[q].sealed
      BY <2>3 DEF Agrees
    <3>3. ApprovalPhase(request[q]) = "open"
      BY <2>3 DEF ApprovalPhase
    <3>4. ApprovalPhase(request'[q]) = "over" /\ ApprovalResult(request'[q]) = NoResult
      BY <3>1, <3>2 DEF ApprovalPhase, ApprovalResult
    <3>5. ApprovalHandoff!Close(q)
      BY <3>1, <3>3, <3>4, ApprovalCloses
    <3> QED BY <3>5 DEF ApprovalHandoff!Next
  <2> QED BY <1>4, <2>1, <2>2, <2>3 DEF Deny
<1>5. ASSUME NEW f \in Fetcher, Acknowledge(f)
      PROVE  [ApprovalHandoff!Next]_<<approvalPhaseBar, approvalResultBar>>
  <2>1. PICK q \in Request : q = fetcher[f].request
    BY <1>5 DEF Acknowledge, ApprovalCallsBound
  <2>2. CASE UNCHANGED request
    BY <1>1, <2>2
  <2>3. CASE /\ Retained(q)
             /\ request' = [request EXCEPT ![q].ack = fetcher[f].ack, ![q].sealed = FALSE]
    <3>1. /\ request[q].state = "approved" /\ request'[q].state = "approved"
          /\ ~ request'[q].sealed
          /\ \A o \in Request \ {q} : request'[o] = request[o]
      BY <2>3 DEF RequestRow, Retained
    <3>2. ApprovalPhase(request'[q]) = "over" /\ ApprovalResult(request'[q]) = NoResult
      BY <3>1 DEF ApprovalPhase, ApprovalResult
    <3>3. CASE request[q].sealed
      <4>1. ApprovalPhase(request[q]) # "over"
        BY <3>3 DEF ApprovalPhase
      <4>2. ApprovalHandoff!Close(q)
        BY <3>1, <3>2, <4>1, ApprovalCloses
      <4> QED BY <4>2 DEF ApprovalHandoff!Next
    <3>4. CASE ~ request[q].sealed
      <4>1. ApprovalPhase(request[q]) = "over" /\ ApprovalResult(request[q]) = NoResult
        BY <3>1, <3>4 DEF ApprovalPhase, ApprovalResult
      <4> QED BY <3>1, <3>2, <4>1, SameApprovals
    <3> QED BY <3>3, <3>4
  <2> QED BY <1>5, <2>1, <2>2, <2>3 DEF Acknowledge
<1>6. ASSUME UNCHANGED request
      PROVE  [ApprovalHandoff!Next]_<<approvalPhaseBar, approvalResultBar>>
  BY <1>1, <1>6
<1> QED
  BY <1>2, <1>3, <1>4, <1>5, <1>6 DEF ApprovalNext, SignFor, Seal, ApproverEnds, DeclineFind,
     Settle, DeclinerEnds, Fetch, AckRead, FetcherEnds, approvalVars

-------------------------------------------------------------------------------
(* Approvals: the theorems.                                                *)

\* The inductive invariant of approval requests holds in every reachable state.
THEOREM ApprovalInvariant == ApprovalSpec => []ApprovalInv
BY ApprovalInitInv, ApprovalNextInv, PTL DEF ApprovalSpec

\* Every row and every call keeps its type.
THEOREM ApprovalTypes == ApprovalSpec => []ApprovalTypeOK
<1>1. ApprovalInv => ApprovalTypeOK
  BY DEF ApprovalInv
<1> QED BY <1>1, ApprovalInvariant, PTL

\* What is answered about a request never contradicts an earlier answer, for any number of
\* pages that approve or decline it and of calls that fetch and acknowledge.
THEOREM AnswersNeverConflict == ApprovalSpec => []AnswersAgree
<1>1. ASSUME ApprovalInv, NEW q \in Request
      PROVE  LET t == told[q]
             IN  /\ \A d, e \in t.approved \cup t.fetched : d = e
                 /\ t.fetched \subseteq t.approved
                 /\ t.denied => t.approved = {} /\ ~ t.already
                 /\ \A a, b \in t.acked : a = b
                 /\ t.acked # {} => t.approved # {} /\ ~ request[q].sealed
  <2> DEFINE t == told[q]
  <2>1. Agrees(request[q], t) /\ request[q].state \in {"none", "open", "approved", "denied"}
    BY <1>1 DEF ApprovalInv, ApprovalTypeOK, RequestRow
  <2>2. CASE request[q].state \in {"none", "open"}
    BY <2>1, <2>2 DEF Agrees, NothingTold
  <2>3. CASE request[q].state = "denied"
    BY <2>1, <2>3 DEF Agrees
  <2>4. CASE request[q].state = "approved"
    BY <2>1, <2>4 DEF Agrees
  <2> QED BY <2>1, <2>2, <2>3, <2>4
<1>2. ApprovalInv => AnswersAgree
  BY <1>1 DEF AnswersAgree
<1> QED BY <1>2, ApprovalInvariant, PTL

\* Every behaviour of approval requests is one of a one-time handoff: a request is approved or
\* declined once, its result never changes, and it is over for good.
THEOREM ApprovalsImplementHandoff == ApprovalSpec => ApprovedOnce
<1>1. ApprovalInit => ApprovalHandoff!Init
  BY DEF ApprovalInit, ApprovalHandoff!Init, UnloadedRequest, approvalPhaseBar,
     approvalResultBar, ApprovalPhase, ApprovalResult
<1> QED
  BY <1>1, ApprovalStep, ApprovalInvariant, PTL DEF ApprovalSpec, ApprovedOnce,
     ApprovalHandoff!Spec
-------------------------------------------------------------------------------
(* Codes: the inductive invariant.                                         *)

\* What was given for a code is what its two rows say, at time t.
Keeps(row, held, given, t) ==
  /\ row.state # "gone" => held.state = "none"
  /\ row.state = "live" => row.delegation \in Delegation
  /\ row.state # "live" => row.delegation = NoDelegation
  /\ held.state = "none" => /\ given.claims = {}
                           /\ given.plain \in (IF row.state = "gone" THEN {0, 1} ELSE {0})
  /\ held.state # "none" => given.plain = 0
  /\ held.state \in {"held", "acknowledged"} =>
       held.claim \in Claim /\ given.claims = {held.claim}
  /\ held.state = "held" => held.delegation \in Delegation /\ given.since = held.redeemedAt
  /\ held.state # "held" => held.delegation = NoDelegation
  /\ held.state = "acknowledged" => given.acknowledged
  /\ held.state = "gone" =>
       /\ \E k \in Claim : given.claims = {k}
       /\ given.acknowledged \/ given.since + ClaimRetention <= t

CodeCallsBound ==
  /\ \A s \in Poster : post[s].stage # "idle" =>
       post[s].delegation \in Delegation /\ post[s].at <= now
  /\ \A r \in Redeemer : redeem[r].stage # "idle" => redeem[r].code \in Code
  /\ \A r \in Redeemer : redeem[r].stage \in {"claiming", "taking", "acknowledging"} =>
       redeem[r].claim \in Claim
  /\ \A r \in Redeemer : redeem[r].stage = "taking" =>
       /\ redeem[r].delegation \in Delegation
       /\ codes[redeem[r].code].state # "none"
       /\ codes[redeem[r].code].state = "live" =>
            codes[redeem[r].code].delegation = redeem[r].delegation
  /\ \A r \in Redeemer : redeem[r].stage = "consumed" =>
       /\ codes[redeem[r].code].state = "gone" /\ claims[redeem[r].code].state = "none"
       /\ receipts[redeem[r].code].plain = 0
  /\ \A r, u \in Redeemer :
       /\ redeem[r].stage = "consumed" /\ redeem[u].stage = "consumed"
       /\ redeem[r].code = redeem[u].code
       => r = u

CodeInv ==
  /\ CodeTypeOK
  /\ CodeCallsBound
  /\ \A c \in Code : Keeps(codes[c], claims[c], receipts[c], now)

-------------------------------------------------------------------------------
(* Codes: steps.                                                           *)

LEMMA EmptyCodes ==
  /\ NoCodeRow \in CodeRow /\ NoClaimRow \in ClaimRow /\ NoReceipt \in Receipt
  /\ IdlePost \in PostState /\ IdleRedeem \in RedeemState
  /\ IdlePost.stage = "idle" /\ IdleRedeem.stage = "idle"
BY DEF NoCodeRow, CodeRow, NoClaimRow, ClaimRow, NoReceipt, Receipt, IdlePost, PostState,
       IdleRedeem, RedeemState

LEMMA CodeInitInv == CodeInit => CodeInv
<1> SUFFICES ASSUME CodeInit PROVE CodeInv
  OBVIOUS
<1>1. CodeTypeOK
  BY EmptyCodes DEF CodeInit, CodeTypeOK
<1>2. CodeCallsBound
  BY EmptyCodes DEF CodeInit, CodeCallsBound
<1>3. \A c \in Code : Keeps(codes[c], claims[c], receipts[c], now)
  BY DEF CodeInit, Keeps, NoCodeRow, NoClaimRow, NoReceipt
<1> QED BY <1>1, <1>2, <1>3 DEF CodeInv

\* A row that is cleared leaves an empty one behind.
LEMMA GoneRows ==
  /\ [NoCodeRow EXCEPT !.state = "gone"] \in CodeRow
  /\ [NoCodeRow EXCEPT !.state = "gone"].state = "gone"
  /\ [NoCodeRow EXCEPT !.state = "gone"].delegation = NoDelegation
  /\ [NoClaimRow EXCEPT !.state = "gone"] \in ClaimRow
  /\ [NoClaimRow EXCEPT !.state = "gone"].state = "gone"
  /\ [NoClaimRow EXCEPT !.state = "gone"].delegation = NoDelegation
BY DEF NoCodeRow, CodeRow, NoClaimRow, ClaimRow

LEMMA PostStepInv ==
  ASSUME CodeInv, NEW s \in Poster,
         (\E d \in Delegation : Post(s, d)) \/ PostEnds(s)
  PROVE  CodeInv'
<1> USE DEF CodeInv, CodeTypeOK
<1>1. UNCHANGED <<now, codes, claims, redeem, receipts>>
  BY DEF Post, PostEnds
<1>2. \A c \in Code : Keeps(codes[c], claims[c], receipts[c], now)'
  BY <1>1 DEF Keeps
<1>3. post' \in [Poster -> PostState]
  BY EmptyCodes DEF Post, PostEnds, PostState
<1>4. CodeCallsBound'
  BY <1>1, EmptyCodes DEF Post, PostEnds, CodeCallsBound, IdlePost
<1> QED BY <1>1, <1>2, <1>3, <1>4

LEMMA ClearCodesInv ==
  ASSUME CodeInv, NEW s \in Poster, ClearCodes(s)
  PROVE  CodeInv'
<1> USE DEF CodeInv, CodeTypeOK
<1>1. ASSUME NEW c \in Code
      PROVE  \/ codes'[c] = codes[c]
             \/ codes[c].state = "live" /\ codes'[c] = [NoCodeRow EXCEPT !.state = "gone"]
  BY DEF ClearCodes
<1>2. codes' \in [Code -> CodeRow]
  BY GoneRows DEF ClearCodes
<1>3. post' \in [Poster -> PostState]
  BY DEF ClearCodes, PostState
<1>4. \A c \in Code : Keeps(codes[c], claims[c], receipts[c], now)'
  BY <1>1, GoneRows DEF ClearCodes, Keeps
<1>5. CodeCallsBound'
  BY <1>1, GoneRows DEF ClearCodes, CodeCallsBound, PostState
<1> QED BY <1>2, <1>3, <1>4, <1>5 DEF ClearCodes

LEMMA ClearClaimsInv ==
  ASSUME CodeInv, NEW s \in Poster, ClearClaims(s)
  PROVE  CodeInv'
<1> USE DEF CodeInv, CodeTypeOK
<1>1. ASSUME NEW c \in Code
      PROVE  \/ claims'[c] = claims[c]
             \/ /\ claims[c].state \in {"held", "acknowledged"}
                /\ claims[c].redeemedAt + ClaimRetention <= post[s].at
                /\ claims'[c] = [NoClaimRow EXCEPT !.state = "gone"]
  BY DEF ClearClaims, Outdated
<1>2. claims' \in [Code -> ClaimRow]
  BY GoneRows DEF ClearClaims
<1>3. post' \in [Poster -> PostState]
  BY DEF ClearClaims, PostState
<1>4. post[s].at <= now /\ post[s].at \in Nat
  BY DEF ClearClaims, CodeCallsBound, PostState
<1>5. ASSUME NEW c \in Code PROVE Keeps(codes[c], claims[c], receipts[c], now)'
  <2>1. CASE claims'[c] = claims[c]
    BY <2>1 DEF ClearClaims, Keeps
  <2>2. CASE /\ claims[c].state \in {"held", "acknowledged"}
             /\ claims[c].redeemedAt + ClaimRetention <= post[s].at
             /\ claims'[c] = [NoClaimRow EXCEPT !.state = "gone"]
    <3>1. codes[c].state = "gone"
      BY <2>2 DEF Keeps, CodeRow
    <3>2. receipts[c].acknowledged \/ receipts[c].since + ClaimRetention <= now
      BY <1>4, <2>2, CodeAssumption DEF Keeps, ClaimRow
    <3>3. (\E k \in Claim : receipts[c].claims = {k}) /\ receipts[c].plain = 0
      BY <2>2 DEF Keeps
    <3>4. UNCHANGED <<codes, receipts, now>> /\ Keeps(codes[c], claims[c], receipts[c], now)
      BY DEF ClearClaims
    <3> QED BY <2>2, <3>1, <3>2, <3>3, <3>4, GoneRows DEF Keeps
  <2> QED BY <1>1, <2>1, <2>2
<1>6. \A r \in Redeemer : redeem[r].stage = "consumed" =>
        claims'[redeem[r].code].state = "none"
  BY <1>1 DEF CodeCallsBound
<1>7. CodeCallsBound'
  BY <1>6 DEF ClearClaims, CodeCallsBound, PostState
<1> QED BY <1>2, <1>3, <1>5, <1>7 DEF ClearClaims

LEMMA DrawInv ==
  ASSUME CodeInv, NEW s \in Poster, NEW c \in Code, Draw(s, c)
  PROVE  CodeInv'
<1> USE DEF CodeInv, CodeTypeOK
<1>1. post[s].delegation \in Delegation /\ post[s].at \in Nat
  BY DEF Draw, CodeCallsBound, PostState
<1>2. PICK row : row = [state |-> "live", delegation |-> post[s].delegation,
                        expiresAt |-> post[s].at + CodeTtl]
  OBVIOUS
<1>3. row \in CodeRow /\ row.state = "live" /\ row.delegation \in Delegation
  BY <1>1, <1>2, CodeAssumption DEF CodeRow
<1>4. codes' = [codes EXCEPT ![c] = row]
  BY <1>2 DEF Draw
<1>5. codes' \in [Code -> CodeRow] /\ post' \in [Poster -> PostState]
  BY <1>3, <1>4, EmptyCodes DEF Draw
<1>6. ASSUME NEW o \in Code PROVE Keeps(codes[o], claims[o], receipts[o], now)'
  BY <1>3, <1>4 DEF Draw, Keeps
<1>7. CodeCallsBound'
  BY <1>4, EmptyCodes DEF Draw, CodeCallsBound
<1> QED BY <1>5, <1>6, <1>7 DEF Draw

LEMMA RedeemInv ==
  ASSUME CodeInv, NEW r \in Redeemer, NEW c \in Code, NEW k \in Claim,
         Redeem(r, c, k) \/ AckFind(r, c, k)
  PROVE  CodeInv'
<1> USE DEF CodeInv, CodeTypeOK
<1>1. PICK v \in RedeemState :
        /\ redeem' = [redeem EXCEPT ![r] = v]
        /\ v.stage \in {"claiming", "acknowledging"} /\ v.code = c /\ v.claim = k
  <2>1. CASE Redeem(r, c, k)
    <3>1. PICK v : v = [IdleRedeem EXCEPT !.stage = "claiming", !.code = c, !.claim = k,
                                          !.at = now]
      OBVIOUS
    <3>2. v \in RedeemState /\ v.stage = "claiming" /\ v.code = c /\ v.claim = k
      BY <3>1 DEF IdleRedeem, RedeemState
    <3> QED BY <2>1, <3>1, <3>2 DEF Redeem
  <2>2. CASE AckFind(r, c, k)
    <3>1. PICK v : v = [IdleRedeem EXCEPT !.stage = "acknowledging", !.code = c, !.claim = k]
      OBVIOUS
    <3>2. v \in RedeemState /\ v.stage = "acknowledging" /\ v.code = c /\ v.claim = k
      BY <3>1 DEF IdleRedeem, RedeemState
    <3> QED BY <2>2, <3>1, <3>2 DEF AckFind
  <2> QED BY <2>1, <2>2
<1>2. UNCHANGED <<now, codes, claims, post, receipts>>
  BY DEF Redeem, AckFind
<1>3. CodeCallsBound'
  BY <1>1, <1>2 DEF CodeCallsBound
<1>4. \A o \in Code : Keeps(codes[o], claims[o], receipts[o], now)'
  BY <1>2 DEF Keeps
<1> QED BY <1>1, <1>2, <1>3, <1>4

\* A call that ends leaves the others as they were.
LEMMA IdleCallsBound ==
  ASSUME CodeInv, NEW r \in Redeemer, redeem' = [redeem EXCEPT ![r] = IdleRedeem],
         UNCHANGED <<now, codes, claims, post>>,
         \A u \in Redeemer \ {r} : redeem[u].stage = "consumed" =>
           receipts'[redeem[u].code].plain = receipts[redeem[u].code].plain
  PROVE  CodeCallsBound' /\ redeem' \in [Redeemer -> RedeemState]
<1>1. redeem \in [Redeemer -> RedeemState]
  BY DEF CodeInv, CodeTypeOK
<1>2. \A u \in Redeemer : redeem'[u] = IF u = r THEN IdleRedeem ELSE redeem[u]
  BY <1>1
<1> QED BY <1>1, <1>2, EmptyCodes DEF CodeInv, CodeCallsBound

LEMMA ClaimReadInv ==
  ASSUME CodeInv, NEW r \in Redeemer, ClaimRead(r)
  PROVE  CodeInv'
<1> USE DEF CodeInv, CodeTypeOK
<1> DEFINE c == redeem[r].code
<1>1. c \in Code /\ redeem[r].claim \in Claim
  BY DEF ClaimRead, CodeCallsBound
<1>2. UNCHANGED <<now, codes, claims, post>>
  BY DEF ClaimRead
<1>3. CASE /\ RedeemAgain(r) /\ redeem' = [redeem EXCEPT ![r] = IdleRedeem]
           /\ receipts' = [receipts EXCEPT ![c].claims = @ \cup {redeem[r].claim}]
  <2>1. receipts[c].claims \cup {redeem[r].claim} = receipts[c].claims
    BY <1>1, <1>3 DEF RedeemAgain, Keeps
  <2>2. receipts' = receipts
    BY <1>1, <1>3, <2>1 DEF Receipt
  <2>3. \A o \in Code : Keeps(codes[o], claims[o], receipts[o], now)'
    BY <1>2, <2>2 DEF Keeps
  <2> QED BY <1>2, <1>3, <2>2, <2>3, IdleCallsBound
<1>4. CASE redeem' = [redeem EXCEPT ![r] = IdleRedeem] /\ UNCHANGED receipts
  <2>1. \A o \in Code : Keeps(codes[o], claims[o], receipts[o], now)'
    BY <1>2, <1>4 DEF Keeps
  <2> QED BY <1>2, <1>4, <2>1, IdleCallsBound
<1>5. CASE /\ codes[c].state = "live"
           /\ redeem' = [redeem EXCEPT ![r].stage = "taking",
                                       ![r].delegation = codes[c].delegation]
           /\ UNCHANGED receipts
  <2>1. codes[c].delegation \in Delegation
    BY <1>1, <1>5 DEF Keeps
  <2>2. PICK v : v = [[redeem[r] EXCEPT !.stage = "taking"]
                        EXCEPT !.delegation = codes[c].delegation]
    OBVIOUS
  <2>3. /\ v \in RedeemState /\ v.stage = "taking" /\ v.code = c /\ v.claim = redeem[r].claim
        /\ v.delegation = codes[c].delegation
    BY <2>1, <2>2 DEF RedeemState
  <2>4. redeem' = [redeem EXCEPT ![r] = v]
    BY <1>5, <2>2 DEF RedeemState
  <2>5. CodeCallsBound'
    BY <1>1, <1>2, <1>5, <2>1, <2>3, <2>4 DEF CodeCallsBound
  <2>6. \A o \in Code : Keeps(codes[o], claims[o], receipts[o], now)'
    BY <1>2, <1>5 DEF Keeps
  <2> QED BY <1>2, <1>5, <2>3, <2>4, <2>5, <2>6
<1> QED BY <1>3, <1>4, <1>5 DEF ClaimRead

LEMMA ClaimTakeInv ==
  ASSUME CodeInv, NEW r \in Redeemer, ClaimTake(r)
  PROVE  CodeInv'
<1> USE DEF CodeInv, CodeTypeOK
<1> DEFINE c == redeem[r].code
           k == redeem[r].claim
<1>1. /\ c \in Code /\ k \in Claim /\ redeem[r].delegation \in Delegation
      /\ redeem[r].at \in Nat /\ redeem[r].stage = "taking"
  BY DEF ClaimTake, CodeCallsBound, RedeemState
<1>2. UNCHANGED <<now, post>> /\ redeem' = [redeem EXCEPT ![r] = IdleRedeem]
  BY DEF ClaimTake
<1>3. CASE UNCHANGED <<codes, claims, receipts>>
  <2>1. \A o \in Code : Keeps(codes[o], claims[o], receipts[o], now)'
    BY <1>2, <1>3 DEF Keeps
  <2> QED BY <1>2, <1>3, <2>1, IdleCallsBound
<1>4. CASE /\ StillThere(c)
           /\ codes' = [codes EXCEPT ![c] = [NoCodeRow EXCEPT !.state = "gone"]]
           /\ claims' = [claims EXCEPT ![c] =
                [state |-> "held", claim |-> k, delegation |-> redeem[r].delegation,
                 redeemedAt |-> redeem[r].at]]
           /\ receipts' = [receipts EXCEPT ![c].claims = @ \cup {k}, ![c].since = redeem[r].at]
  <2>1. PICK held : held = [state |-> "held", claim |-> k, delegation |-> redeem[r].delegation,
                            redeemedAt |-> redeem[r].at]
    OBVIOUS
  <2>2. PICK given : given = [[receipts[c] EXCEPT !.claims = @ \cup {k}]
                                EXCEPT !.since = redeem[r].at]
    OBVIOUS
  <2>3. held \in ClaimRow /\ held.state = "held" /\ held.claim = k
        /\ held.delegation \in Delegation /\ held.redeemedAt = redeem[r].at
    BY <1>1, <2>1 DEF ClaimRow
  <2>4. receipts[c].claims = {} /\ receipts[c].plain = 0 /\ codes[c].state = "live"
    BY <1>1, <1>4 DEF StillThere, Keeps
  <2>5. /\ given \in Receipt /\ given.plain = 0 /\ given.claims = {k}
        /\ given.since = redeem[r].at
    BY <1>1, <2>2, <2>4 DEF Receipt
  <2>6. receipts' = [receipts EXCEPT ![c] = given] /\ claims' = [claims EXCEPT ![c] = held]
    BY <1>1, <1>4, <2>1, <2>2 DEF Receipt
  <2>7. /\ codes' \in [Code -> CodeRow] /\ claims' \in [Code -> ClaimRow]
        /\ receipts' \in [Code -> Receipt] /\ redeem' \in [Redeemer -> RedeemState]
    <3>1. codes' \in [Code -> CodeRow]
      BY <1>4, GoneRows
    <3>2. claims' \in [Code -> ClaimRow] /\ receipts' \in [Code -> Receipt]
      BY <2>3, <2>5, <2>6
    <3>3. redeem' \in [Redeemer -> RedeemState]
      BY <1>2, EmptyCodes
    <3> QED BY <3>1, <3>2, <3>3
  <2>8. PICK row \in CodeRow : /\ codes' = [codes EXCEPT ![c] = row]
                               /\ row.state = "gone" /\ row.delegation = NoDelegation
    BY <1>4, GoneRows
  <2>9. ASSUME NEW o \in Code PROVE Keeps(codes[o], claims[o], receipts[o], now)'
    <3>1. CASE o = c
      <4>1. codes'[o] = row /\ claims'[o] = held /\ receipts'[o] = given
        BY <1>1, <2>6, <2>8, <3>1
      <4> QED BY <1>1, <2>3, <2>5, <2>8, <4>1 DEF Keeps
    <3>2. CASE o # c
      <4>1. codes'[o] = codes[o] /\ claims'[o] = claims[o] /\ receipts'[o] = receipts[o]
        BY <2>6, <2>8, <3>2
      <4> QED BY <1>2, <4>1 DEF Keeps
    <3> QED BY <3>1, <3>2
  <2>10. CodeCallsBound'
    <3>1. \A u \in Redeemer : redeem'[u] = IF u = r THEN IdleRedeem ELSE redeem[u]
      BY <1>2
    <3>2. \A o \in Code : \/ /\ codes'[o] = codes[o] /\ claims'[o] = claims[o]
                             /\ receipts'[o] = receipts[o]
                          \/ o = c /\ codes'[o].state = "gone" /\ codes[o].state = "live"
      BY <1>1, <2>4, <2>6, <2>8
    <3> QED BY <1>2, <3>1, <3>2, EmptyCodes DEF CodeCallsBound
  <2> QED BY <1>2, <2>7, <2>9, <2>10
<1> QED BY <1>3, <1>4 DEF ClaimTake

LEMMA ConsumeInv ==
  ASSUME CodeInv, NEW r \in Redeemer, NEW c \in Code, Consume(r, c)
  PROVE  CodeInv'
<1> USE DEF CodeInv, CodeTypeOK
<1>1. PICK v : v = [IdleRedeem EXCEPT !.stage = "consumed", !.code = c,
                                      !.expiresAt = codes[c].expiresAt]
  OBVIOUS
<1>2. v \in RedeemState /\ v.stage = "consumed" /\ v.code = c
  BY <1>1 DEF IdleRedeem, RedeemState, CodeRow
<1>3. redeem' = [redeem EXCEPT ![r] = v] /\ UNCHANGED <<now, claims, post, receipts>>
      /\ codes[c].state = "live"
  BY <1>1 DEF Consume
<1>4. PICK row \in CodeRow : /\ codes' = [codes EXCEPT ![c] = row]
                             /\ row.state = "gone" /\ row.delegation = NoDelegation
  BY GoneRows DEF Consume
<1>5. codes' \in [Code -> CodeRow] /\ redeem' \in [Redeemer -> RedeemState]
  BY <1>2, <1>3, <1>4
<1>6. claims[c].state = "none" /\ receipts[c].plain = 0
  BY <1>3 DEF Keeps
<1>7. \A o \in Code : Keeps(codes[o], claims[o], receipts[o], now)'
  BY <1>3, <1>4 DEF Keeps
<1>8. \A u \in Redeemer : redeem[u].stage = "consumed" => redeem[u].code # c
  BY <1>3 DEF CodeCallsBound
<1>9. CodeCallsBound'
  BY <1>2, <1>3, <1>4, <1>6, <1>8 DEF CodeCallsBound
<1> QED BY <1>3, <1>5, <1>7, <1>9

LEMMA HandInv ==
  ASSUME CodeInv, NEW r \in Redeemer, Hand(r)
  PROVE  CodeInv'
<1> USE DEF CodeInv, CodeTypeOK
<1> DEFINE c == redeem[r].code
<1>1. /\ c \in Code /\ codes[c].state = "gone" /\ claims[c].state = "none"
      /\ receipts[c].plain = 0 /\ receipts[c].claims = {}
  BY DEF Hand, CodeCallsBound, Keeps
<1>2. UNCHANGED <<now, codes, claims, post>> /\ redeem' = [redeem EXCEPT ![r] = IdleRedeem]
  BY DEF Hand
<1>3. CASE receipts' = receipts
  <2>1. \A o \in Code : Keeps(codes[o], claims[o], receipts[o], now)'
    BY <1>2, <1>3 DEF Keeps
  <2> QED BY <1>2, <1>3, <2>1, IdleCallsBound
<1>4. CASE receipts' = [receipts EXCEPT ![c].plain = @ + 1]
  <2>1. PICK given : given = [receipts[c] EXCEPT !.plain = @ + 1]
    OBVIOUS
  <2>2. given \in Receipt /\ given.plain = 1 /\ given.claims = {}
    BY <1>1, <2>1 DEF Receipt
  <2>3. receipts' = [receipts EXCEPT ![c] = given]
    BY <1>4, <2>1
  <2>4. receipts' \in [Code -> Receipt]
    BY <2>2, <2>3
  <2>5. \A o \in Code : Keeps(codes[o], claims[o], receipts[o], now)'
    BY <1>1, <1>2, <2>2, <2>3 DEF Keeps
  <2>6. \A u \in Redeemer \ {r} : redeem[u].stage = "consumed" => redeem[u].code # c
    BY DEF CodeCallsBound, Hand
  <2>7. \A u \in Redeemer \ {r} : redeem[u].stage = "consumed" =>
          receipts'[redeem[u].code].plain = receipts[redeem[u].code].plain
    BY <2>3, <2>6 DEF CodeCallsBound
  <2>8. CodeCallsBound' /\ redeem' \in [Redeemer -> RedeemState]
    BY <1>2, <2>7, IdleCallsBound
  <2> QED BY <1>2, <2>4, <2>5, <2>8
<1> QED BY <1>3, <1>4 DEF Hand

LEMMA AckClearInv ==
  ASSUME CodeInv, NEW r \in Redeemer, AckClear(r)
  PROVE  CodeInv'
<1> USE DEF CodeInv, CodeTypeOK
<1> DEFINE c == redeem[r].code
<1>1. c \in Code
  BY DEF AckClear, CodeCallsBound
<1>2. UNCHANGED <<now, codes, post>> /\ redeem' = [redeem EXCEPT ![r] = IdleRedeem]
  BY DEF AckClear
<1>3. PICK given : given = [receipts[c] EXCEPT !.acknowledged = TRUE]
  OBVIOUS
<1>4. /\ given \in Receipt /\ given.acknowledged /\ given.claims = receipts[c].claims
      /\ given.plain = receipts[c].plain /\ given.since = receipts[c].since
  BY <1>1, <1>3 DEF Receipt
<1>5. receipts' = [receipts EXCEPT ![c] = given]
  BY <1>3 DEF AckClear
<1>6. PICK held \in ClaimRow :
        /\ claims' = [claims EXCEPT ![c] = held]
        /\ \/ held = claims[c]
           \/ /\ claims[c].state = "held" /\ held.state = "acknowledged"
              /\ held.claim = claims[c].claim /\ held.delegation = NoDelegation
  <2>1. CASE claims' = claims
    BY <1>1, <2>1
  <2>2. CASE /\ claims[c].state = "held"
             /\ claims' = [claims EXCEPT ![c].state = "acknowledged",
                                         ![c].delegation = NoDelegation]
    <3>1. PICK held : held = [[claims[c] EXCEPT !.state = "acknowledged"]
                                EXCEPT !.delegation = NoDelegation]
      OBVIOUS
    <3>2. /\ held \in ClaimRow /\ held.state = "acknowledged"
          /\ held.claim = claims[c].claim /\ held.delegation = NoDelegation
      BY <1>1, <3>1 DEF ClaimRow
    <3>3. claims' = [claims EXCEPT ![c] = held]
      BY <1>1, <2>2, <3>1 DEF ClaimRow
    <3> QED BY <2>2, <3>2, <3>3
  <2> QED BY <2>1, <2>2 DEF AckClear
<1>7. claims' \in [Code -> ClaimRow] /\ receipts' \in [Code -> Receipt]
      /\ redeem' \in [Redeemer -> RedeemState]
  BY <1>2, <1>4, <1>5, <1>6, EmptyCodes
<1>8. ASSUME NEW o \in Code PROVE Keeps(codes[o], claims[o], receipts[o], now)'
  <2>1. CASE o # c
    BY <1>2, <1>5, <1>6, <2>1 DEF Keeps
  <2>2. CASE o = c
    <3>1. claims'[o] = held /\ receipts'[o] = given /\ codes'[o] = codes[c] /\ now' = now
      BY <1>1, <1>2, <1>5, <1>6, <2>2
    <3>2. CASE held = claims[c]
      BY <1>1, <1>4, <3>1, <3>2 DEF Keeps
    <3>3. CASE /\ claims[c].state = "held" /\ held.state = "acknowledged"
               /\ held.claim = claims[c].claim /\ held.delegation = NoDelegation
      BY <1>1, <1>4, <3>1, <3>3 DEF Keeps
    <3> QED BY <1>6, <3>2, <3>3
  <2> QED BY <2>1, <2>2
<1>9. CodeCallsBound'
  <2>1. \A u \in Redeemer : redeem'[u] = IF u = r THEN IdleRedeem ELSE redeem[u]
    BY <1>2
  <2>2. \A o \in Code : /\ receipts'[o].plain = receipts[o].plain
                        /\ claims[o].state = "none" => claims'[o].state = "none"
    BY <1>1, <1>4, <1>5, <1>6
  <2> QED BY <1>2, <2>1, <2>2, EmptyCodes DEF CodeCallsBound
<1> QED BY <1>2, <1>7, <1>8, <1>9

LEMMA RedeemEndsInv ==
  ASSUME CodeInv, NEW r \in Redeemer, RedeemEnds(r)
  PROVE  CodeInv'
<1>1. /\ UNCHANGED <<now, codes, claims, post, receipts>>
      /\ redeem' = [redeem EXCEPT ![r] = IdleRedeem]
  BY DEF RedeemEnds
<1>2. CodeCallsBound' /\ redeem' \in [Redeemer -> RedeemState]
  BY <1>1, IdleCallsBound
<1> QED BY <1>1, <1>2 DEF CodeInv, CodeTypeOK, Keeps

LEMMA CodeTickInv ==
  ASSUME CodeInv, Tick, UNCHANGED codeVars
  PROVE  CodeInv'
<1>1. now \in Nat /\ now' = now + 1
  BY DEF CodeInv, CodeTypeOK, Tick
<1>2. CodeTypeOK'
  BY <1>1 DEF CodeInv, CodeTypeOK, codeVars
<1>3. CodeCallsBound'
  BY <1>1 DEF CodeInv, CodeTypeOK, CodeCallsBound, codeVars, PostState
<1>4. \A c \in Code : Keeps(codes[c], claims[c], receipts[c], now)'
  BY <1>1, CodeAssumption DEF CodeInv, CodeTypeOK, Receipt, Keeps, codeVars
<1> QED BY <1>2, <1>3, <1>4 DEF CodeInv

LEMMA CodeNextInv == CodeInv /\ [CodeNext]_<<now, codeVars>> => CodeInv'
<1> SUFFICES ASSUME CodeInv, [CodeNext]_<<now, codeVars>> PROVE CodeInv'
  OBVIOUS
<1>1. CASE UNCHANGED <<now, codeVars>>
  BY <1>1 DEF codeVars, CodeInv, CodeTypeOK, CodeCallsBound, Keeps
<1>2. CASE CodeNext
  BY <1>2, PostStepInv, ClearCodesInv, ClearClaimsInv, DrawInv, RedeemInv, ClaimReadInv,
     ClaimTakeInv, ConsumeInv, HandInv, AckClearInv, RedeemEndsInv, CodeTickInv DEF CodeNext
<1> QED BY <1>1, <1>2
-------------------------------------------------------------------------------
(* Codes: the one-time handoff.                                            *)

LEMMA SameCodes ==
  ASSUME \A c \in Code :
           /\ CodePhase(codes'[c], claims'[c]) = CodePhase(codes[c], claims[c])
           /\ CodeResult(codes'[c], claims'[c]) = CodeResult(codes[c], claims[c])
  PROVE  UNCHANGED <<codePhaseBar, codeResultBar>>
BY DEF codePhaseBar, codeResultBar

LEMMA CodeBars ==
  /\ codePhaseBar = [c \in Code |-> codePhaseBar[c]]
  /\ codeResultBar = [c \in Code |-> codeResultBar[c]]
  /\ \A c \in Code : /\ codePhaseBar[c] = CodePhase(codes[c], claims[c])
                     /\ codeResultBar[c] = CodeResult(codes[c], claims[c])
BY DEF codePhaseBar, codeResultBar

LEMMA CodeCloses ==
  ASSUME NEW c \in Code, CodePhase(codes[c], claims[c]) # "over",
         CodePhase(codes'[c], claims'[c]) = "over",
         CodeResult(codes'[c], claims'[c]) = NoDelegation,
         \A o \in Code \ {c} : codes'[o] = codes[o] /\ claims'[o] = claims[o]
  PROVE  CodeHandoff!Close(c)
<1>1. /\ codePhaseBar' = [o \in Code |-> CodePhase(codes'[o], claims'[o])]
      /\ codeResultBar' = [o \in Code |-> CodeResult(codes'[o], claims'[o])]
  BY DEF codePhaseBar, codeResultBar
<1>2. codePhaseBar' = [codePhaseBar EXCEPT ![c] = "over"]
  BY <1>1, CodeBars, OneChanged
<1>3. codeResultBar' = [codeResultBar EXCEPT ![c] = NoDelegation]
  BY <1>1, CodeBars, OneChanged
<1> QED BY <1>2, <1>3, CodeBars DEF CodeHandoff!Close

LEMMA CodeDecides ==
  ASSUME NEW c \in Code, CodePhase(codes[c], claims[c]) = "open",
         CodePhase(codes'[c], claims'[c]) = "available",
         CodeResult(codes'[c], claims'[c]) \in Delegation,
         \A o \in Code \ {c} : codes'[o] = codes[o] /\ claims'[o] = claims[o]
  PROVE  CodeHandoff!Decide(c)
<1>1. /\ codePhaseBar' = [o \in Code |-> CodePhase(codes'[o], claims'[o])]
      /\ codeResultBar' = [o \in Code |-> CodeResult(codes'[o], claims'[o])]
  BY DEF codePhaseBar, codeResultBar
<1>2. codePhaseBar' = [codePhaseBar EXCEPT ![c] = "available"]
  BY <1>1, CodeBars, OneChanged
<1>3. codeResultBar' = [codeResultBar EXCEPT ![c] = codeResultBar'[c]]
  BY <1>1, CodeBars, OneChanged
<1>4. codeResultBar'[c] \in Delegation
  BY <1>1
<1> QED BY <1>2, <1>3, <1>4, CodeBars DEF CodeHandoff!Decide

\* What a posting call clears ends together.
LEMMA CodesClose ==
  ASSUME NEW E \in SUBSET Code,
         \A c \in E : /\ CodePhase(codes[c], claims[c]) = "available"
                      /\ CodePhase(codes'[c], claims'[c]) = "over"
                      /\ CodeResult(codes'[c], claims'[c]) = NoDelegation,
         \A c \in Code \ E :
           /\ CodePhase(codes'[c], claims'[c]) = CodePhase(codes[c], claims[c])
           /\ CodeResult(codes'[c], claims'[c]) = CodeResult(codes[c], claims[c])
  PROVE  CodeHandoff!CloseAll(E)
BY DEF CodeHandoff!CloseAll, codePhaseBar, codeResultBar

LEMMA ClearingCloses ==
  ASSUME CodeInv, NEW s \in Poster, ClearCodes(s) \/ ClearClaims(s)
  PROVE  CodeHandoff!Next
<1> USE DEF CodeInv, CodeTypeOK
<1>1. CASE ClearCodes(s)
  <2>1. PICK E \in SUBSET Code :
          E = {c \in Code : codes[c].state = "live" /\ codes[c].expiresAt <= post[s].at}
    OBVIOUS
  <2>2. ASSUME NEW c \in E
        PROVE  /\ CodePhase(codes[c], claims[c]) = "available"
               /\ CodePhase(codes'[c], claims'[c]) = "over"
               /\ CodeResult(codes'[c], claims'[c]) = NoDelegation
    <3>1. /\ c \in Code /\ codes[c].state = "live" /\ claims'[c] = claims[c]
          /\ codes'[c] = [NoCodeRow EXCEPT !.state = "gone"]
      BY <1>1, <2>1 DEF ClearCodes
    <3>2. claims[c].state = "none" /\ claims[c].delegation = NoDelegation
      BY <3>1 DEF Keeps
    <3>3. codes'[c].state = "gone"
      BY <3>1, GoneRows
    <3> QED BY <3>1, <3>2, <3>3 DEF CodePhase, CodeResult
  <2>3. ASSUME NEW c \in Code \ E PROVE codes'[c] = codes[c] /\ claims'[c] = claims[c]
    BY <1>1, <2>1 DEF ClearCodes
  <2>4. CodeHandoff!CloseAll(E)
    BY <2>2, <2>3, CodesClose
  <2> QED BY <2>4 DEF CodeHandoff!Next
<1>2. CASE ClearClaims(s)
  <2>1. PICK E \in SUBSET Code :
          E = {c \in Code : claims[c].state = "held" /\ Outdated(c, post[s].at)}
    OBVIOUS
  <2>2. ASSUME NEW c \in E
        PROVE  /\ CodePhase(codes[c], claims[c]) = "available"
               /\ CodePhase(codes'[c], claims'[c]) = "over"
               /\ CodeResult(codes'[c], claims'[c]) = NoDelegation
    <3>1. /\ c \in Code /\ claims[c].state = "held" /\ codes'[c] = codes[c]
          /\ claims'[c] = [NoClaimRow EXCEPT !.state = "gone"]
      BY <1>2, <2>1 DEF ClearClaims
    <3>2. codes[c].state = "gone"
      BY <3>1 DEF Keeps, CodeRow
    <3> QED BY <3>1, <3>2, GoneRows DEF CodePhase, CodeResult
  <2>3. ASSUME NEW c \in Code \ E
        PROVE  /\ CodePhase(codes'[c], claims'[c]) = CodePhase(codes[c], claims[c])
               /\ CodeResult(codes'[c], claims'[c]) = CodeResult(codes[c], claims[c])
    <3>1. CASE claims'[c] = claims[c]
      BY <1>2, <3>1 DEF ClearClaims
    <3>2. CASE claims[c].state = "acknowledged"
               /\ claims'[c] = [NoClaimRow EXCEPT !.state = "gone"]
      <4>1. codes[c].state = "gone" /\ claims[c].delegation = NoDelegation /\ codes' = codes
        BY <1>2, <3>2 DEF Keeps, CodeRow, ClearClaims
      <4> QED BY <3>2, <4>1, GoneRows DEF CodePhase, CodeResult
    <3> QED BY <1>2, <2>1, <3>1, <3>2 DEF ClearClaims
  <2>4. CodeHandoff!CloseAll(E)
    BY <2>2, <2>3, CodesClose
  <2> QED BY <2>4 DEF CodeHandoff!Next
<1> QED BY <1>1, <1>2

\* The code's row goes and the claim's row takes its place.
LEMMA TakingStutters ==
  ASSUME CodeInv, NEW r \in Redeemer, ClaimTake(r)
  PROVE  UNCHANGED <<codePhaseBar, codeResultBar>>
<1> USE DEF CodeInv, CodeTypeOK
<1> DEFINE c == redeem[r].code
<1>1. /\ c \in Code
      /\ codes[c].state = "live" => codes[c].delegation = redeem[r].delegation
  BY DEF ClaimTake, CodeCallsBound
<1>2. CASE UNCHANGED <<codes, claims>>
  BY <1>2, SameCodes
<1>3. CASE /\ StillThere(c)
           /\ codes' = [codes EXCEPT ![c] = [NoCodeRow EXCEPT !.state = "gone"]]
           /\ claims' = [claims EXCEPT ![c] =
                [state |-> "held", claim |-> redeem[r].claim,
                 delegation |-> redeem[r].delegation, redeemedAt |-> redeem[r].at]]
  <2>1. /\ codes'[c].state = "gone" /\ claims'[c].state = "held"
        /\ claims'[c].delegation = codes[c].delegation
        /\ codes[c].state = "live"
    BY <1>1, <1>3, GoneRows DEF StillThere
  <2>2. \A o \in Code \ {c} : codes'[o] = codes[o] /\ claims'[o] = claims[o]
    BY <1>3
  <2>3. /\ CodePhase(codes'[c], claims'[c]) = CodePhase(codes[c], claims[c])
        /\ CodeResult(codes'[c], claims'[c]) = CodeResult(codes[c], claims[c])
    BY <2>1 DEF CodePhase, CodeResult
  <2> QED BY <2>2, <2>3, SameCodes
<1> QED BY <1>2, <1>3 DEF ClaimTake

LEMMA AckClearCloses ==
  ASSUME CodeInv, NEW r \in Redeemer, AckClear(r)
  PROVE  [CodeHandoff!Next]_<<codePhaseBar, codeResultBar>>
<1> USE DEF CodeInv, CodeTypeOK
<1> DEFINE c == redeem[r].code
<1>1. c \in Code /\ codes' = codes
  BY DEF AckClear, CodeCallsBound
<1>2. CASE claims' = claims
  BY <1>1, <1>2, SameCodes
<1>3. CASE /\ claims[c].state = "held"
           /\ claims' = [claims EXCEPT ![c].state = "acknowledged",
                                       ![c].delegation = NoDelegation]
  <2>1. /\ claims'[c].state = "acknowledged" /\ claims'[c].delegation = NoDelegation
        /\ \A o \in Code \ {c} : claims'[o] = claims[o]
    BY <1>1, <1>3 DEF ClaimRow
  <2>2. codes[c].state = "gone"
    BY <1>1, <1>3 DEF Keeps, CodeRow
  <2>3. /\ CodePhase(codes[c], claims[c]) # "over"
        /\ CodePhase(codes'[c], claims'[c]) = "over"
        /\ CodeResult(codes'[c], claims'[c]) = NoDelegation
    BY <1>1, <1>3, <2>1, <2>2 DEF CodePhase, CodeResult
  <2>4. CodeHandoff!Close(c)
    BY <1>1, <2>1, <2>3, CodeCloses
  <2> QED BY <1>1, <2>4 DEF CodeHandoff!Next
<1> QED BY <1>2, <1>3 DEF AckClear

LEMMA CodeStep ==
  CodeInv /\ [CodeNext]_<<now, codeVars>> => [CodeHandoff!Next]_<<codePhaseBar, codeResultBar>>
<1> SUFFICES ASSUME CodeInv, [CodeNext]_<<now, codeVars>>
             PROVE  [CodeHandoff!Next]_<<codePhaseBar, codeResultBar>>
  OBVIOUS
<1>1. ASSUME UNCHANGED <<codes, claims>>
      PROVE  [CodeHandoff!Next]_<<codePhaseBar, codeResultBar>>
  BY <1>1, SameCodes
<1>2. ASSUME NEW s \in Poster, NEW c \in Code, Draw(s, c) PROVE CodeHandoff!Next
  <2>1. /\ codes[c].state = "none" /\ codes'[c].state = "live"
        /\ codes'[c].delegation \in Delegation /\ claims' = claims
        /\ \A o \in Code \ {c} : codes'[o] = codes[o]
    BY <1>2 DEF Draw, CodeInv, CodeTypeOK, CodeCallsBound
  <2>2. claims[c].state = "none"
    BY <2>1 DEF CodeInv, Keeps
  <2>3. /\ CodePhase(codes[c], claims[c]) = "open"
        /\ CodePhase(codes'[c], claims'[c]) = "available"
        /\ CodeResult(codes'[c], claims'[c]) \in Delegation
    BY <2>1, <2>2 DEF CodePhase, CodeResult
  <2>4. CodeHandoff!Decide(c)
    BY <2>1, <2>3, CodeDecides
  <2> QED BY <2>4 DEF CodeHandoff!Next
<1>3. ASSUME NEW r \in Redeemer, NEW c \in Code, Consume(r, c) PROVE CodeHandoff!Next
  <2>1. /\ codes[c].state = "live" /\ codes'[c].state = "gone" /\ claims' = claims
        /\ \A o \in Code \ {c} : codes'[o] = codes[o]
    BY <1>3, GoneRows DEF Consume, CodeInv, CodeTypeOK
  <2>2. claims[c].state = "none" /\ claims[c].delegation = NoDelegation
    BY <2>1 DEF CodeInv, Keeps
  <2>3. /\ CodePhase(codes[c], claims[c]) # "over"
        /\ CodePhase(codes'[c], claims'[c]) = "over"
        /\ CodeResult(codes'[c], claims'[c]) = NoDelegation
    BY <2>1, <2>2 DEF CodePhase, CodeResult
  <2>4. CodeHandoff!Close(c)
    BY <2>1, <2>3, CodeCloses
  <2> QED BY <2>4 DEF CodeHandoff!Next
<1> QED
  BY <1>1, <1>2, <1>3, ClearingCloses, TakingStutters, AckClearCloses DEF CodeNext, Post,
     PostEnds, Redeem, AckFind, ClaimRead, Hand, RedeemEnds, codeVars

-------------------------------------------------------------------------------
(* Codes: the theorems.                                                    *)

\* The inductive invariant of delegation codes holds in every reachable state.
THEOREM CodeInvariant == CodeSpec => []CodeInv
BY CodeInitInv, CodeNextInv, PTL DEF CodeSpec

\* Every row and every call keeps its type.
THEOREM CodeTypes == CodeSpec => []CodeTypeOK
<1>1. CodeInv => CodeTypeOK
  BY DEF CodeInv
<1> QED BY <1>1, CodeInvariant, PTL

\* A code serves one redeemer, for any number of calls that redeem, acknowledge and post, and
\* that one until it acknowledged or its retention ended.
THEOREM OneRedeemer == CodeSpec => []RedeemedByOne
<1>1. ASSUME CodeInv, NEW c \in Code
      PROVE  LET given == receipts[c]
             IN  /\ \A k, l \in given.claims : k = l
                 /\ given.plain <= 1
                 /\ given.plain = 1 => given.claims = {}
                 /\ given.claims # {} /\ ~ given.acknowledged
                       /\ now < given.since + ClaimRetention
                      => claims[c].state = "held" /\ claims[c].claim \in given.claims
  <2> DEFINE given == receipts[c]
  <2>1. /\ Keeps(codes[c], claims[c], given, now)
        /\ claims[c].state \in {"none", "held", "acknowledged", "gone"}
        /\ now \in Nat /\ given.since \in Nat
    BY <1>1 DEF CodeInv, CodeTypeOK, ClaimRow, Receipt
  <2>2. CASE claims[c].state = "none"
    BY <2>1, <2>2 DEF Keeps
  <2>3. CASE claims[c].state \in {"held", "acknowledged"}
    BY <2>1, <2>3 DEF Keeps
  <2>4. CASE claims[c].state = "gone"
    <3>1. given.plain = 0 /\ \E k \in Claim : given.claims = {k}
      BY <2>1, <2>4 DEF Keeps
    <3>2. given.acknowledged \/ ~ (now < given.since + ClaimRetention)
      BY <2>1, <2>4, CodeAssumption DEF Keeps
    <3> QED BY <3>1, <3>2
  <2> QED BY <2>1, <2>2, <2>3, <2>4
<1>2. CodeInv => RedeemedByOne
  BY <1>1 DEF RedeemedByOne
<1> QED BY <1>2, CodeInvariant, PTL

\* Every behaviour of delegation codes is one of a one-time handoff: what a code stands for is
\* set once, and is gone for good when it was taken, acknowledged or left until its end.
THEOREM CodesImplementHandoff == CodeSpec => CodeOnce
<1>1. CodeInit => CodeHandoff!Init
  BY DEF CodeInit, CodeHandoff!Init, NoCodeRow, NoClaimRow, codePhaseBar, codeResultBar,
     CodePhase, CodeResult
<1> QED
  BY <1>1, CodeStep, CodeInvariant, PTL DEF CodeSpec, CodeOnce, CodeHandoff!Spec
-------------------------------------------------------------------------------
(* Widgets: the inductive invariant.                                       *)

\* The listeners of a call come with their deadline and their cancellation.
Armed(r) ==
  /\ r.frame # "none" <=> "overall" \in r.timers
  /\ "ready" \in r.timers => r.frame # "none"
  /\ r.frame # "none" => "frame" \in r.cancels
  /\ r.listening <=> "window" \in r.timers
  /\ r.listening => "window" \in r.cancels
  /\ "oauth" \in r.timers => r.kind = "oauth"

\* A call that was not made.
Untouched(r) ==
  /\ r.frame = "none" /\ ~ r.closing /\ ~ r.listening /\ r.picker = "none"
  /\ r.timers = {} /\ r.cancels = {} /\ r.answer = "none" /\ r.fresh

\* Every call that a sign-out found has lost its listeners.
Quiet(r) == ~ r.fresh => r.frame = "none" /\ ~ r.listening /\ r.kind # "none"

Deadline(r) ==
  r.kind # "none" /\ r.answer = "none" =>
    r.picker # "none" \/ r.timers \cap {"overall", "window", "oauth"} # {}

Kept(r, c) ==
  /\ Armed(r) /\ Quiet(r)
  /\ r.answer = "resolved" => r.from = c
  /\ r.kind = "none" => Untouched(r)
  /\ r.kind = "oauth" => r.frame = "none" /\ ~ r.listening

WidgetInv ==
  /\ WidgetTypeOK
  /\ \A c \in Call : Kept(call[c], c) /\ Deadline(call[c])

-------------------------------------------------------------------------------
(* Widgets: records.                                                       *)

LEMMA NotCalledFits == \A c \in Call :
  NotCalled \in CallState /\ Kept(NotCalled, c) /\ Deadline(NotCalled)
BY DEF NotCalled, CallState, Kept, Armed, Quiet, Deadline, Untouched

LEMMA WidgetInitInv == WidgetInit => WidgetInv
BY NotCalledFits DEF WidgetInit, WidgetInv, WidgetTypeOK, NoTab, TabState

\* A settled promise needs no deadline.
LEMMA RejectFits ==
  ASSUME NEW c \in Call, NEW r \in CallState, Kept(r, c), r.kind # "none"
  PROVE  /\ Reject(r) \in CallState /\ Kept(Reject(r), c) /\ Deadline(Reject(r))
         /\ Reject(r).answer # "none" /\ Reject(r).kind = r.kind
         /\ Reject(r).frame = r.frame /\ Reject(r).listening = r.listening
BY DEF Reject, CallState, Kept, Armed, Quiet, Deadline

LEMMA ResolveFits ==
  ASSUME NEW c \in Call, NEW r \in CallState, Kept(r, c), r.kind # "none"
  PROVE  /\ Resolve(r, c) \in CallState /\ Kept(Resolve(r, c), c) /\ Deadline(Resolve(r, c))
<1> DEFINE s == [r EXCEPT !.answer = "resolved", !.from = c]
<1>1. CASE r.answer = "none"
  <2>1. s \in CallState
    BY DEF CallState
  <2>2. /\ s.answer = "resolved" /\ s.from = c /\ s.kind = r.kind /\ s.fresh = r.fresh
        /\ s.frame = r.frame /\ s.listening = r.listening
        /\ s.timers = r.timers /\ s.cancels = r.cancels
    BY DEF CallState
  <2> HIDE DEF s
  <2>3. Armed(s) /\ Quiet(s)
    BY <2>2 DEF Kept, Armed, Quiet
  <2>4. Kept(s, c) /\ Deadline(s)
    BY <2>2, <2>3 DEF Kept, Deadline
  <2> QED BY <1>1, <2>1, <2>4 DEF Resolve, s
<1>2. CASE r.answer # "none"
  BY <1>2 DEF Resolve, Deadline
<1> QED BY <1>1, <1>2

LEMMA DropFrameFits ==
  ASSUME NEW c \in Call, NEW r \in CallState, Kept(r, c), r.kind # "none"
  PROVE  /\ DropFrame(r) \in CallState /\ Kept(DropFrame(r), c)
         /\ DropFrame(r).kind = r.kind /\ DropFrame(r).frame = "none"
         /\ DropFrame(r).listening = r.listening /\ DropFrame(r).answer = r.answer
         /\ DropFrame(r).fresh = r.fresh
BY DEF DropFrame, CallState, Kept, Armed, Quiet

LEMMA StopListeningFits ==
  ASSUME NEW c \in Call, NEW r \in CallState, Kept(r, c), r.kind # "none"
  PROVE  /\ StopListening(r) \in CallState /\ Kept(StopListening(r), c)
         /\ StopListening(r).kind = r.kind /\ StopListening(r).frame = r.frame
         /\ ~ StopListening(r).listening
<1> DEFINE s == StopListening(r)
<1>1. s \in CallState
  BY DEF StopListening, CallState
<1>2. /\ s.answer = r.answer /\ s.from = r.from /\ s.kind = r.kind /\ s.fresh = r.fresh
      /\ s.frame = r.frame /\ ~ s.listening
      /\ s.timers = r.timers \ {"window"} /\ s.cancels = r.cancels \ {"window"}
  BY DEF StopListening, CallState
<1> HIDE DEF s
<1>3. Armed(s)
  BY <1>2 DEF Kept, Armed
<1>4. Quiet(s)
  BY <1>2 DEF Kept, Quiet
<1>5. Kept(s, c)
  BY <1>2, <1>3, <1>4 DEF Kept
<1> QED BY <1>1, <1>2, <1>5 DEF s

LEMMA DropWindowFits ==
  ASSUME NEW c \in Call, NEW r \in CallState, Kept(r, c), r.kind # "none"
  PROVE  /\ DropWindow(r) \in CallState /\ Kept(DropWindow(r), c)
         /\ DropWindow(r).kind = r.kind /\ DropWindow(r).frame = r.frame
         /\ ~ DropWindow(r).listening
<1>1. StopListening(r) \in CallState /\ Kept(StopListening(r), c)
  BY StopListeningFits
<1>2. StopListening(r).kind = r.kind /\ StopListening(r).frame = r.frame
      /\ ~ StopListening(r).listening
  BY StopListeningFits
<1> QED BY <1>1, <1>2 DEF DropWindow, CallState, Kept, Armed, Quiet

\* A cancelled call has no listener left.
LEMMA CancelledFits ==
  ASSUME NEW c \in Call, NEW r \in CallState, Kept(r, c), Deadline(r)
  PROVE  /\ Cancelled(r) \in CallState /\ Kept(Cancelled(r), c) /\ Deadline(Cancelled(r))
         /\ Cancelled(r).frame = "none" /\ ~ Cancelled(r).listening
         /\ Cancelled(r).kind = r.kind
<1>1. CASE r.kind = "none"
  <2>1. Untouched(r)
    BY <1>1 DEF Kept
  <2>2. Cancelled(r) = r /\ r.frame = "none" /\ ~ r.listening
    BY <2>1 DEF Cancelled, Untouched
  <2> QED BY <2>2
<1>2. CASE r.kind # "none"
  <2> DEFINE framed == IF "frame" \in r.cancels THEN Reject(DropFrame(r)) ELSE r
  <2>1. framed \in CallState /\ Kept(framed, c) /\ Deadline(framed) /\ framed.frame = "none"
        /\ framed.kind = r.kind
    <3>1. CASE "frame" \in r.cancels
      BY <1>2, <3>1, DropFrameFits, RejectFits
    <3>2. CASE "frame" \notin r.cancels
      BY <3>2 DEF Kept, Armed, CallState
    <3> QED BY <3>1, <3>2
  <2>2. CASE "window" \in r.cancels
    <3>1. /\ DropWindow(framed) \in CallState /\ Kept(DropWindow(framed), c)
          /\ DropWindow(framed).kind = r.kind /\ DropWindow(framed).frame = "none"
          /\ ~ DropWindow(framed).listening
      BY <1>2, <2>1, DropWindowFits
    <3> QED BY <1>2, <2>2, <3>1, RejectFits DEF Cancelled
  <2>3. CASE "window" \notin r.cancels
    <3>1. Cancelled(r) = framed
      BY <2>3 DEF Cancelled
    <3>2. ~ r.listening
      BY <2>3 DEF Kept, Armed
    <3>3. ~ framed.listening
      BY <1>2, <3>2, DropFrameFits, RejectFits
    <3> QED BY <2>1, <3>1, <3>3
  <2> QED BY <2>2, <2>3
<1> QED BY <1>1, <1>2

\* A call gets an iframe, or a window, or neither.
LEMMA FramedFits ==
  ASSUME NEW c \in Call, NEW b \in CallState, Untouched(b),
         b.kind \in {"connect", "sign", "sign-out"}
  PROVE  Framed(b) \in CallState /\ Kept(Framed(b), c) /\ Deadline(Framed(b))
BY DEF Framed, CallState, Kept, Armed, Quiet, Deadline, Untouched

LEMMA WindowedFits ==
  ASSUME NEW c \in Call, NEW b \in CallState, Kept(b, c), b.kind \notin {"none", "oauth"}, b.fresh
  PROVE  Windowed(b) \in CallState /\ Kept(Windowed(b), c) /\ Deadline(Windowed(b))
<1> DEFINE r == Windowed(b)
<1>1. r \in CallState
  BY DEF Windowed, CallState
<1>2. /\ r.answer = b.answer /\ r.from = b.from /\ r.kind = b.kind /\ r.fresh = b.fresh
      /\ r.frame = b.frame /\ r.listening
      /\ r.timers = b.timers \cup {"window"} /\ r.cancels = b.cancels \cup {"window"}
  BY DEF Windowed, CallState
<1> HIDE DEF r
<1>3. Armed(r) /\ Quiet(r) /\ Deadline(r)
  BY <1>2 DEF Kept, Armed, Quiet, Deadline
<1>4. Kept(r, c)
  BY <1>2, <1>3 DEF Kept
<1> QED BY <1>1, <1>3, <1>4 DEF r

-------------------------------------------------------------------------------
(* Widgets: steps.                                                         *)

\* A step of one call.
LEMMA OneCallMoves ==
  ASSUME WidgetInv, NEW c \in Call, NEW r \in CallState, Kept(r, c), Deadline(r),
         call' = [call EXCEPT ![c] = r],
         auth' \in Call \cup {NoCall}, popup' \in Call \cup {NoCall, Tab}, tab' \in TabState
  PROVE  WidgetInv'
<1>1. call' \in [Call -> CallState]
  BY DEF WidgetInv, WidgetTypeOK
<1>2. \A d \in Call : Kept(call'[d], d) /\ Deadline(call'[d])
  BY DEF WidgetInv, WidgetTypeOK
<1> QED BY <1>1, <1>2 DEF WidgetInv, WidgetTypeOK

\* What is known of a call that exists.
LEMMA CallFacts ==
  ASSUME WidgetInv, NEW c \in Call
  PROVE  /\ call[c] \in CallState /\ Kept(call[c], c) /\ Deadline(call[c])
         /\ Forget(c) \in Call \cup {NoCall, Tab}
         /\ auth \in Call \cup {NoCall} /\ popup \in Call \cup {NoCall, Tab} /\ tab \in TabState
BY DEF WidgetInv, WidgetTypeOK, Forget

\* A call that holds something was made.
LEMMA MadeCall ==
  ASSUME WidgetInv, NEW c \in Call,
         \/ call[c].frame # "none" \/ call[c].closing \/ call[c].listening
         \/ call[c].picker # "none" \/ call[c].timers # {}
  PROVE  call[c].kind # "none"
BY CallFacts DEF Kept, Untouched

LEMMA WindowOpens ==
  ASSUME NEW calls \in [Call -> CallState], NEW c \in Call,
         \A d \in Call \ {c} : Kept(calls[d], d) /\ Deadline(calls[d]),
         Kept(calls[c], c), calls[c].kind \notin {"none", "oauth"}, calls[c].fresh,
         OpenWindow(calls, c),
         auth' \in Call \cup {NoCall}, tab' \in TabState
  PROVE  WidgetInv'
<1>1. ASSUME NEW r \in CallState, Kept(r, c), Deadline(r), call' = [calls EXCEPT ![c] = r],
             popup' \in Call \cup {NoCall, Tab}
      PROVE  WidgetInv'
  BY <1>1 DEF WidgetInv, WidgetTypeOK
<1>2. CASE call' = [calls EXCEPT ![c] = Windowed(calls[c])] /\ popup' = c
  <2>1. /\ Windowed(calls[c]) \in CallState /\ Kept(Windowed(calls[c]), c)
        /\ Deadline(Windowed(calls[c]))
    BY WindowedFits
  <2> QED BY <1>1, <1>2, <2>1
<1>3. CASE call' = [calls EXCEPT ![c] = Reject(calls[c])] /\ popup' = NoCall
  <2>1. Reject(calls[c]) \in CallState /\ Kept(Reject(calls[c]), c) /\ Deadline(Reject(calls[c]))
    BY RejectFits
  <2> QED BY <1>1, <1>3, <2>1
<1> QED BY <1>2, <1>3 DEF OpenWindow

LEMMA FrameOpens ==
  ASSUME NEW calls \in [Call -> CallState], NEW c \in Call, NEW forgotten,
         \A d \in Call \ {c} : Kept(calls[d], d) /\ Deadline(calls[d]),
         Untouched(calls[c]),
         calls[c].kind \in {"connect", "sign", "sign-out"},
         OpenFrame(calls, c, forgotten), forgotten \in Call \cup {NoCall, Tab},
         auth' \in Call \cup {NoCall}, tab' \in TabState
  PROVE  WidgetInv'
<1>1. /\ Framed(calls[c]) \in CallState /\ Kept(Framed(calls[c]), c)
      /\ Deadline(Framed(calls[c]))
  BY FramedFits
<1>2. call' = [calls EXCEPT ![c] = Framed(calls[c])] /\ popup' = forgotten
  BY DEF OpenFrame
<1> QED BY <1>1, <1>2 DEF WidgetInv, WidgetTypeOK

\* The record of a call that is about to open its widget.
LEMMA StartedFits ==
  ASSUME NEW c \in Call, NEW kind \in {"connect", "sign", "sign-out", "oauth"},
         NEW b \in CallState, Untouched(b)
  PROVE  LET r == [b EXCEPT !.kind = kind] IN
         /\ r \in CallState /\ Kept(r, c) /\ r.kind = kind /\ r.fresh
         /\ Untouched(r)
BY DEF CallState, Kept, Armed, Quiet, Untouched

LEMMA StartedCalls ==
  ASSUME NEW calls \in [Call -> CallState], NEW c \in Call, Untouched(calls[c]),
         NEW kind \in {"connect", "sign", "sign-out", "oauth"}
  PROVE  LET started == Start(calls, c, kind) IN
         /\ started \in [Call -> CallState]
         /\ Kept(started[c], c) /\ started[c].kind = kind /\ started[c].fresh
         /\ Untouched(started[c])
         /\ \A d \in Call \ {c} : started[d] = calls[d]
<1>1. calls[c] \in CallState
  OBVIOUS
<1> DEFINE r == [calls[c] EXCEPT !.kind = kind]
<1>2. /\ r \in CallState /\ Kept(r, c) /\ r.kind = kind /\ r.fresh
      /\ Untouched(r)
  BY <1>1, StartedFits
<1>3. Start(calls, c, kind) = [calls EXCEPT ![c] = r]
  BY DEF Start
<1> HIDE DEF r
<1> QED BY <1>2, <1>3

LEMMA BeginKeeps ==
  ASSUME WidgetInv, NEW c \in Call, NEW kind, Begin(c, kind)
  PROVE  WidgetInv'
<1>1. Untouched(call[c]) /\ kind \in {"connect", "sign"} /\ auth' = auth /\ tab' = tab
  BY CallFacts DEF Begin, Kept
<1>2. call \in [Call -> CallState]
  BY DEF WidgetInv, WidgetTypeOK
<1> DEFINE calls == Start(call, c, kind)
<1>3. /\ calls \in [Call -> CallState]
      /\ Kept(calls[c], c) /\ calls[c].kind = kind /\ calls[c].fresh
      /\ Untouched(calls[c])
      /\ \A d \in Call \ {c} : calls[d] = call[d]
  BY <1>1, <1>2, StartedCalls
<1>4. \A d \in Call \ {c} : Kept(calls[d], d) /\ Deadline(calls[d])
  BY <1>3, CallFacts
<1>6. OpenFrame(calls, c, popup) \/ OpenWindow(calls, c)
  BY DEF Begin
<1> HIDE DEF calls
<1>7. CASE OpenFrame(calls, c, popup)
  BY <1>1, <1>3, <1>4, <1>7, CallFacts, FrameOpens
<1>8. CASE OpenWindow(calls, c)
  BY <1>1, <1>3, <1>4, <1>8, CallFacts, WindowOpens
<1> QED BY <1>6, <1>7, <1>8

LEMMA SignOutKeeps ==
  ASSUME WidgetInv, NEW c \in Call, SignOut(c)
  PROVE  WidgetInv'
<1> DEFINE cancelled == [d \in Call |->
        IF call[d].kind = "none" THEN call[d] ELSE [Cancelled(call[d]) EXCEPT !.fresh = FALSE]]
           calls == Start(cancelled, c, "sign-out")
<1>1. ASSUME NEW d \in Call
      PROVE  cancelled[d] \in CallState /\ Kept(cancelled[d], d) /\ Deadline(cancelled[d])
  <2>1. CASE call[d].kind = "none"
    BY <2>1, CallFacts
  <2>2. CASE call[d].kind # "none"
    <3> DEFINE r == Cancelled(call[d])
    <3>1. r \in CallState /\ Kept(r, d) /\ Deadline(r) /\ r.frame = "none" /\ ~ r.listening
          /\ r.kind = call[d].kind
      BY CallFacts, CancelledFits
    <3> HIDE DEF r
    <3> DEFINE s == [r EXCEPT !.fresh = FALSE]
    <3>2. /\ s \in CallState /\ s.fresh = FALSE /\ s.frame = r.frame /\ s.kind = r.kind
          /\ s.listening = r.listening /\ s.answer = r.answer /\ s.from = r.from
          /\ s.timers = r.timers /\ s.cancels = r.cancels /\ s.picker = r.picker
      BY <3>1 DEF CallState
    <3>3. cancelled[d] = s
      BY <2>2 DEF r
    <3> HIDE DEF s, cancelled
    <3>4. Armed(s) /\ Quiet(s) /\ Deadline(s)
      BY <2>2, <3>1, <3>2 DEF Kept, Armed, Quiet, Deadline
    <3>5. Kept(s, d)
      BY <2>2, <3>1, <3>2, <3>4 DEF Kept
    <3> QED BY <3>2, <3>3, <3>4, <3>5
  <2> QED BY <2>1, <2>2
<1>2. cancelled \in [Call -> CallState]
  BY <1>1
<1>3. Untouched(cancelled[c])
  BY CallFacts DEF SignOut, Kept
<1>4. OpenFrame(calls, c, ForgetCancelled) \/ OpenWindow(calls, c)
  BY DEF SignOut
<1>5. auth' \in Call \cup {NoCall} /\ tab' \in TabState
  BY CallFacts DEF SignOut
<1>6. ForgetCancelled \in Call \cup {NoCall, Tab}
  BY CallFacts DEF ForgetCancelled
<1> HIDE DEF cancelled
<1>7. /\ calls \in [Call -> CallState]
      /\ Kept(calls[c], c) /\ calls[c].kind = "sign-out" /\ calls[c].fresh
      /\ Untouched(calls[c])
      /\ \A d \in Call \ {c} : calls[d] = cancelled[d]
  BY <1>2, <1>3, StartedCalls
<1>8. \A d \in Call \ {c} : Kept(calls[d], d) /\ Deadline(calls[d])
  BY <1>1, <1>7
<1> HIDE DEF calls
<1>10. CASE OpenFrame(calls, c, ForgetCancelled)
  BY <1>5, <1>6, <1>7, <1>8, <1>10, FrameOpens
<1>11. CASE OpenWindow(calls, c)
  BY <1>5, <1>7, <1>8, <1>11, WindowOpens
<1> QED BY <1>4, <1>10, <1>11

LEMMA DisconnectKeeps ==
  ASSUME WidgetInv, Disconnect
  PROVE  WidgetInv'
<1>1. \A d \in Call : call'[d] \in CallState /\ Kept(call'[d], d) /\ Deadline(call'[d])
  BY CallFacts, CancelledFits DEF Disconnect
<1>2. call' \in [Call -> CallState]
  BY <1>1 DEF Disconnect
<1>3. auth' = auth /\ popup' = NoCall /\ tab' \in TabState
  BY DEF Disconnect, WidgetInv, WidgetTypeOK, TabState
<1> QED BY <1>1, <1>2, <1>3 DEF WidgetInv, WidgetTypeOK

\* The close animation changes nothing else.
LEMMA ClosingIsFree ==
  ASSUME NEW c \in Call, NEW b \in CallState, Kept(b, c), Deadline(b), b.kind # "none",
         NEW on \in BOOLEAN
  PROVE  LET r == [b EXCEPT !.closing = on] IN r \in CallState /\ Kept(r, c) /\ Deadline(r)
<1> DEFINE r == [b EXCEPT !.closing = on]
<1>1. r \in CallState
  BY DEF CallState
<1>2. /\ r.kind = b.kind /\ r.answer = b.answer /\ r.from = b.from
      /\ r.fresh = b.fresh /\ r.frame = b.frame /\ r.listening = b.listening
      /\ r.timers = b.timers /\ r.cancels = b.cancels /\ r.picker = b.picker
  BY DEF CallState
<1> HIDE DEF r
<1>3. Armed(r) /\ Quiet(r) /\ Deadline(r)
  BY <1>2 DEF Kept, Armed, Quiet, Deadline
<1>4. Kept(r, c)
  BY <1>2, <1>3 DEF Kept
<1> QED BY <1>1, <1>3, <1>4 DEF r

LEMMA FrameSteps ==
  ASSUME WidgetInv, NEW c \in Call,
         \/ FrameReady(c) \/ FrameToWallet(c) \/ ClickClose(c) \/ FinishClose(c)
         \/ ReadyTimeout(c) \/ OverallTimeout(c)
  PROVE  WidgetInv'
<1>1. call[c] \in CallState /\ Kept(call[c], c) /\ Deadline(call[c])
  BY CallFacts
<1>2. auth \in Call \cup {NoCall} /\ popup \in Call \cup {NoCall, Tab} /\ tab \in TabState
  BY CallFacts
<1>3. call \in [Call -> CallState]
  BY DEF WidgetInv, WidgetTypeOK
<1>4. CASE FrameReady(c)
  <2> DEFINE r == [call[c] EXCEPT !.frame = "ready"]
  <2>1. r \in CallState /\ Kept(r, c) /\ Deadline(r)
    BY <1>1, <1>4, MadeCall DEF FrameReady, CallState, Kept, Armed, Quiet, Deadline
  <2>2. call' = [call EXCEPT ![c] = r]
    BY <1>4 DEF FrameReady
  <2> HIDE DEF r
  <2> QED BY <1>2, <1>4, <2>1, <2>2, OneCallMoves DEF FrameReady
<1>5. CASE FrameToWallet(c)
  <2> DEFINE b == DropFrame(call[c])
             r == [b EXCEPT !.picker = "choosing"]
  <2>1. b \in CallState /\ Kept(b, c) /\ b.kind # "none"
    BY <1>1, MadeCall, <1>5, DropFrameFits DEF FrameToWallet
  <2>2. call' = [call EXCEPT ![c] = r]
    BY <1>5 DEF FrameToWallet
  <2> HIDE DEF b
  <2>3. r \in CallState /\ Kept(r, c) /\ Deadline(r)
    BY <2>1 DEF CallState, Kept, Armed, Quiet, Deadline
  <2> HIDE DEF r
  <2> QED BY <1>2, <1>5, <2>2, <2>3, OneCallMoves DEF FrameToWallet
<1>6. CASE ClickClose(c)
  <2> DEFINE r == [call[c] EXCEPT !.closing = TRUE]
  <2>1. call[c].kind # "none"
    BY <1>6, MadeCall DEF ClickClose
  <2>2. r \in CallState /\ Kept(r, c) /\ Deadline(r)
    BY <1>1, <2>1, ClosingIsFree
  <2>3. call' = [call EXCEPT ![c] = r]
    BY <1>6 DEF ClickClose
  <2> HIDE DEF r
  <2> QED BY <1>2, <1>6, <2>2, <2>3, OneCallMoves DEF ClickClose
<1>7. CASE FinishClose(c)
  <2> DEFINE b == Reject(DropFrame(call[c]))
             r == [b EXCEPT !.closing = FALSE]
  <2>1. call[c].kind # "none"
    BY <1>7, MadeCall DEF FinishClose
  <2>2. b \in CallState /\ Kept(b, c) /\ Deadline(b) /\ b.kind # "none"
    BY <1>1, <2>1, DropFrameFits, RejectFits
  <2>3. call' = [call EXCEPT ![c] = r]
    BY <1>7 DEF FinishClose
  <2> HIDE DEF b
  <2>4. r \in CallState /\ Kept(r, c) /\ Deadline(r)
    BY <2>2, ClosingIsFree
  <2> HIDE DEF r
  <2> QED BY <1>2, <1>7, <2>3, <2>4, OneCallMoves DEF FinishClose
<1>8. CASE ReadyTimeout(c)
  <2> DEFINE b == DropFrame(call[c])
             dropped == [call EXCEPT ![c] = b]
             r == [call[c] EXCEPT !.timers = @ \ {"ready"}]
  <2>1. call[c].kind # "none"
    BY <1>8, MadeCall DEF ReadyTimeout
  <2>2. call[c].fresh /\ call[c].kind # "oauth"
    BY <1>1, <1>8 DEF ReadyTimeout, Kept, Armed, Quiet, CallState
  <2>3. b \in CallState /\ Kept(b, c) /\ b.kind \notin {"none", "oauth"} /\ b.fresh
    BY <1>1, <2>1, <2>2, DropFrameFits
  <2>4. CASE call[c].frame = "ready" /\ call' = [call EXCEPT ![c] = r] /\ UNCHANGED popup
    <3>1. r \in CallState /\ Kept(r, c) /\ Deadline(r)
      BY <1>1, <2>1, <2>4 DEF CallState, Kept, Armed, Quiet, Deadline
    <3> HIDE DEF r
    <3> QED BY <1>2, <1>8, <2>4, <3>1, OneCallMoves DEF ReadyTimeout
  <2>5. CASE OpenWindow(dropped, c)
    <3> HIDE DEF b
    <3>1. dropped \in [Call -> CallState] /\ dropped[c] = b
          /\ \A d \in Call \ {c} : dropped[d] = call[d]
      BY <1>3, <2>3
    <3>2. \A d \in Call \ {c} : Kept(dropped[d], d) /\ Deadline(dropped[d])
      BY <3>1, CallFacts
    <3>3. auth' \in Call \cup {NoCall} /\ tab' \in TabState
      BY <1>2, <1>8 DEF ReadyTimeout
    <3> HIDE DEF dropped
    <3> QED BY <2>3, <2>5, <3>1, <3>2, <3>3, WindowOpens
  <2>6. CASE call' = [call EXCEPT ![c] = Reject(b)] /\ UNCHANGED popup
    <3>1. Reject(b) \in CallState /\ Kept(Reject(b), c) /\ Deadline(Reject(b))
      BY <2>3, RejectFits
    <3> HIDE DEF b
    <3> QED BY <1>2, <1>8, <2>6, <3>1, OneCallMoves DEF ReadyTimeout
  <2> QED BY <1>8, <2>4, <2>5, <2>6 DEF ReadyTimeout
<1>9. CASE OverallTimeout(c)
  <2>1. call[c].kind # "none"
    BY <1>9, MadeCall DEF OverallTimeout
  <2> DEFINE r == Reject(DropFrame(call[c]))
  <2>2. r \in CallState /\ Kept(r, c) /\ Deadline(r)
    BY <1>1, <2>1, DropFrameFits, RejectFits
  <2>3. call' = [call EXCEPT ![c] = r]
    BY <1>9 DEF OverallTimeout
  <2> HIDE DEF r
  <2> QED BY <1>2, <1>9, <2>2, <2>3, OneCallMoves DEF OverallTimeout
<1> QED BY <1>4, <1>5, <1>6, <1>7, <1>8, <1>9

LEMMA AnswerSteps ==
  ASSUME WidgetInv, NEW c \in Call, NEW ok \in BOOLEAN, FrameAnswer(c, ok) \/ WindowAnswer(c, ok)
  PROVE  WidgetInv'
<1>1. call[c] \in CallState /\ Kept(call[c], c) /\ call[c].kind # "none"
  BY CallFacts, MadeCall DEF FrameAnswer, WindowAnswer
<1>2. ASSUME NEW r \in CallState, Kept(r, c), r.kind # "none", Answer(c, r, ok),
             popup' \in Call \cup {NoCall, Tab}, tab' = tab
      PROVE  WidgetInv'
  <2> DEFINE s == IF ok THEN Resolve(r, c) ELSE Reject(r)
  <2>1. s \in CallState /\ Kept(s, c) /\ Deadline(s)
    BY <1>2, RejectFits, ResolveFits
  <2>2. call' = [call EXCEPT ![c] = s]
    BY <1>2 DEF Answer
  <2>3. auth' \in Call \cup {NoCall} /\ tab' \in TabState
    BY <1>2, CallFacts DEF Answer
  <2> HIDE DEF s
  <2> QED BY <1>2, <2>1, <2>2, <2>3, OneCallMoves
<1>3. CASE FrameAnswer(c, ok)
  BY <1>1, <1>2, <1>3, DropFrameFits, CallFacts DEF FrameAnswer
<1>4. CASE WindowAnswer(c, ok)
  BY <1>1, <1>2, <1>4, DropWindowFits, CallFacts DEF WindowAnswer
<1> QED BY <1>3, <1>4

LEMMA WindowSteps ==
  ASSUME WidgetInv, NEW c \in Call,
         WindowToWallet(c) \/ UserClosesWindow(c) \/ PollClosed(c) \/ WindowTimeout(c)
  PROVE  WidgetInv'
<1>1. call[c] \in CallState /\ Kept(call[c], c) /\ Deadline(call[c])
  BY CallFacts
<1>3. auth' \in Call \cup {NoCall} /\ popup' \in Call \cup {NoCall, Tab} /\ tab' \in TabState
  BY CallFacts DEF WindowToWallet, UserClosesWindow, PollClosed, WindowTimeout
<1>4. CASE WindowToWallet(c)
  <2> DEFINE b == DropWindow(call[c])
             r == [b EXCEPT !.picker = "choosing"]
  <2>1. b \in CallState /\ Kept(b, c) /\ b.kind # "none"
    BY <1>1, MadeCall, <1>4, DropWindowFits DEF WindowToWallet
  <2>2. call' = [call EXCEPT ![c] = r]
    BY <1>4 DEF WindowToWallet
  <2> HIDE DEF b
  <2>3. r \in CallState /\ Kept(r, c) /\ Deadline(r)
    BY <2>1 DEF CallState, Kept, Armed, Quiet, Deadline
  <2> HIDE DEF r
  <2> QED BY <1>3, <2>2, <2>3, OneCallMoves
<1>5. CASE UserClosesWindow(c)
  <2> DEFINE r == [call[c] EXCEPT !.window = "closed"]
  <2>1. r \in CallState /\ Kept(r, c) /\ Deadline(r)
    BY <1>1 DEF CallState, Kept, Armed, Quiet, Deadline, Untouched
  <2>2. call' = [call EXCEPT ![c] = r]
    BY <1>5 DEF UserClosesWindow
  <2> HIDE DEF r
  <2> QED BY <1>3, <2>1, <2>2, OneCallMoves
<1>6. CASE PollClosed(c)
  <2> DEFINE r == Reject(StopListening(call[c]))
  <2>1. r \in CallState /\ Kept(r, c) /\ Deadline(r)
    BY <1>1, MadeCall, <1>6, StopListeningFits, RejectFits DEF PollClosed
  <2>2. call' = [call EXCEPT ![c] = r]
    BY <1>6 DEF PollClosed
  <2> HIDE DEF r
  <2> QED BY <1>3, <2>1, <2>2, OneCallMoves
<1>7. CASE WindowTimeout(c)
  <2> DEFINE r == Reject(DropWindow(call[c]))
  <2>1. r \in CallState /\ Kept(r, c) /\ Deadline(r)
    BY <1>1, MadeCall, <1>7, DropWindowFits, RejectFits DEF WindowTimeout
  <2>2. call' = [call EXCEPT ![c] = r]
    BY <1>7 DEF WindowTimeout
  <2> HIDE DEF r
  <2> QED BY <1>3, <2>1, <2>2, OneCallMoves
<1> QED BY <1>4, <1>5, <1>6, <1>7

\* A settled call may close its picker.
LEMMA PickerCloses ==
  ASSUME NEW c \in Call, NEW b \in CallState, Kept(b, c), b.kind # "none", b.answer # "none"
  PROVE  LET r == [b EXCEPT !.picker = "none"] IN r \in CallState /\ Kept(r, c) /\ Deadline(r)
BY DEF CallState, Kept, Armed, Quiet, Deadline

LEMMA PickerSteps ==
  ASSUME WidgetInv, NEW c \in Call, PickerSelect(c) \/ PickerFails(c) \/ PickerAnswers(c)
  PROVE  WidgetInv'
<1>1. call[c] \in CallState /\ Kept(call[c], c) /\ Deadline(call[c])
  BY CallFacts
<1>2. call[c].kind # "none"
  BY MadeCall DEF PickerSelect, PickerFails, PickerAnswers
<1>3. auth' \in Call \cup {NoCall} /\ popup' \in Call \cup {NoCall, Tab} /\ tab' \in TabState
  BY CallFacts DEF PickerSelect, PickerFails, PickerAnswers
<1>4. CASE PickerSelect(c)
  <2> DEFINE r == [call[c] EXCEPT !.picker = "asking"]
  <2>1. r \in CallState /\ Kept(r, c) /\ Deadline(r)
    BY <1>1, <1>2 DEF CallState, Kept, Armed, Quiet, Deadline
  <2>2. call' = [call EXCEPT ![c] = r]
    BY <1>4 DEF PickerSelect
  <2> HIDE DEF r
  <2> QED BY <1>3, <2>1, <2>2, OneCallMoves
<1>5. CASE PickerFails(c)
  <2> DEFINE b == Reject(call[c])
             r == [b EXCEPT !.picker = "none"]
  <2>1. b \in CallState /\ Kept(b, c) /\ b.kind # "none" /\ b.answer # "none"
    BY <1>1, <1>2, RejectFits
  <2>2. call' = [call EXCEPT ![c] = r]
    BY <1>5 DEF PickerFails
  <2> HIDE DEF b
  <2>3. r \in CallState /\ Kept(r, c) /\ Deadline(r)
    BY <2>1, PickerCloses
  <2> HIDE DEF r
  <2> QED BY <1>3, <2>2, <2>3, OneCallMoves
<1>6. CASE PickerAnswers(c)
  <2> DEFINE b == Resolve(call[c], c)
             r == [b EXCEPT !.picker = "none"]
  <2>1. b \in CallState /\ Kept(b, c)
    BY <1>1, <1>2, ResolveFits
  <2>2. b.kind # "none" /\ b.answer # "none"
    BY <1>1, <1>2 DEF Resolve, CallState
  <2>3. call' = [call EXCEPT ![c] = r]
    BY <1>6 DEF PickerAnswers
  <2> HIDE DEF b
  <2>4. r \in CallState /\ Kept(r, c) /\ Deadline(r)
    BY <2>1, <2>2, PickerCloses
  <2> HIDE DEF r
  <2> QED BY <1>3, <2>3, <2>4, OneCallMoves
<1> QED BY <1>4, <1>5, <1>6

LEMMA OAuthConnectKeeps ==
  ASSUME WidgetInv, NEW c \in Call, OAuthConnect(c)
  PROVE  WidgetInv'
<1>1. call[c] \in CallState /\ Untouched(call[c])
  BY CallFacts DEF OAuthConnect, Kept
<1>2. call \in [Call -> CallState]
  BY DEF WidgetInv, WidgetTypeOK
<1> DEFINE b == [call[c] EXCEPT !.kind = "oauth"]
           r == [call[c] EXCEPT !.kind = "oauth", !.timers = {"oauth"}]
<1>3. b \in CallState /\ Kept(b, c) /\ b.kind = "oauth"
  BY <1>1, StartedFits
<1>4. r \in CallState /\ Kept(r, c) /\ Deadline(r)
  BY <1>1 DEF Untouched, CallState, Kept, Armed, Quiet, Deadline
<1>5. Reject(b) \in CallState /\ Kept(Reject(b), c) /\ Deadline(Reject(b))
  BY <1>3, RejectFits
<1>6. auth' \in Call \cup {NoCall} /\ popup' \in Call \cup {NoCall, Tab} /\ tab' \in TabState
  <2>1. auth' = auth /\ popup' \in {Tab, NoCall}
    BY DEF OAuthConnect
  <2>2. tab' = [open |-> TRUE, at |-> c, back |-> "none"] \/ tab' = tab
    BY DEF OAuthConnect
  <2>3. tab' \in TabState
    <3>1. tab \in TabState
      BY CallFacts
    <3>2. [open |-> TRUE, at |-> c, back |-> "none"] \in TabState
      BY DEF TabState
    <3> QED BY <2>2, <3>1, <3>2
  <2> QED BY <2>1, <2>3, CallFacts
<1>7. call' = [call EXCEPT ![c] = r] \/ call' = [call EXCEPT ![c] = Reject(b)]
  BY DEF OAuthConnect
<1> HIDE DEF b, r
<1> QED BY <1>4, <1>5, <1>6, <1>7, OneCallMoves

\* An OAuth connect that ends is settled.
LEMMA OAuthDoneFits ==
  ASSUME WidgetInv, NEW c \in Call, "oauth" \in call[c].timers
  PROVE  OAuthDone(c) \in CallState /\ Kept(OAuthDone(c), c) /\ OAuthDone(c).kind # "none"
<1>1. call[c] \in CallState /\ Kept(call[c], c) /\ call[c].kind # "none"
  BY CallFacts, MadeCall
<1> QED BY <1>1 DEF OAuthDone, CallState, Kept, Armed, Quiet

LEMMA OAuthPollKeeps ==
  ASSUME WidgetInv, NEW c \in Call, OAuthPoll(c)
  PROVE  WidgetInv'
<1> DEFINE b == OAuthDone(c)
<1>1. b \in CallState /\ Kept(b, c) /\ b.kind # "none"
  BY OAuthDoneFits DEF OAuthPoll
<1>2. auth' \in Call \cup {NoCall} /\ popup' \in Call \cup {NoCall, Tab} /\ tab' \in TabState
  BY CallFacts DEF OAuthPoll, TabState
<1>3. call' = [call EXCEPT ![c] = Reject(b)] \/ call' = [call EXCEPT ![c] = Resolve(b, c)]
  BY DEF OAuthPoll, ReturnedTo
<1>4. Reject(b) \in CallState /\ Kept(Reject(b), c) /\ Deadline(Reject(b))
  BY <1>1, RejectFits
<1>5. Resolve(b, c) \in CallState /\ Kept(Resolve(b, c), c) /\ Deadline(Resolve(b, c))
  BY <1>1, ResolveFits
<1> HIDE DEF b
<1> QED BY <1>2, <1>3, <1>4, <1>5, OneCallMoves

\* The timeout of an OAuth connect may close the window of another call.
LEMMA OAuthTimeoutKeeps ==
  ASSUME WidgetInv, NEW c \in Call, OAuthTimeout(c)
  PROVE  WidgetInv'
<1> DEFINE b == Reject(OAuthDone(c))
           ended == [call EXCEPT ![c] = b]
<1>1. b \in CallState /\ Kept(b, c) /\ Deadline(b) /\ b.kind # "none"
  BY OAuthDoneFits, RejectFits DEF OAuthTimeout
<1>2. call \in [Call -> CallState]
  BY DEF WidgetInv, WidgetTypeOK
<1>3. auth' = auth /\ popup' = popup /\ tab' \in TabState
  BY CallFacts DEF OAuthTimeout, TabState
<1> HIDE DEF b
<1>4. ended \in [Call -> CallState] /\ \A d \in Call : Kept(ended[d], d) /\ Deadline(ended[d])
  BY <1>1, <1>2, CallFacts
<1>5. CASE popup \notin Call
  <2>1. call' = ended
    BY <1>5 DEF OAuthTimeout, b
  <2> QED BY <1>3, <1>4, <2>1, CallFacts DEF WidgetInv, WidgetTypeOK
<1>6. CASE popup \in Call
  <2> HIDE DEF ended
  <2> DEFINE r == [ended[popup] EXCEPT !.window = "closed"]
  <2>1. call' = [ended EXCEPT ![popup] = r]
    BY <1>6 DEF OAuthTimeout, b, ended
  <2>3. r \in CallState /\ Kept(r, popup) /\ Deadline(r)
    BY <1>4, <1>6 DEF CallState, Kept, Armed, Quiet, Deadline, Untouched
  <2> HIDE DEF r
  <2>4. call' \in [Call -> CallState] /\ \A d \in Call : Kept(call'[d], d) /\ Deadline(call'[d])
    BY <1>4, <1>6, <2>1, <2>3
  <2> QED BY <1>3, <2>4, CallFacts DEF WidgetInv, WidgetTypeOK
<1> QED BY <1>5, <1>6

LEMMA TabSteps ==
  ASSUME WidgetInv, UserClosesTab \/ \E back \in {"code", "error"} : TabReturns(back)
  PROVE  WidgetInv'
BY DEF WidgetInv, WidgetTypeOK, TabState, UserClosesTab, TabReturns

LEMMA WidgetStutter ==
  ASSUME WidgetInv, UNCHANGED widgetVars
  PROVE  WidgetInv'
BY DEF WidgetInv, WidgetTypeOK, widgetVars

LEMMA WidgetStep == WidgetInv /\ [WidgetNext]_widgetVars => WidgetInv'
<1> SUFFICES ASSUME WidgetInv, [WidgetNext]_widgetVars PROVE WidgetInv'
  OBVIOUS
<1>1. ASSUME NEW c \in Call,
             \/ \E kind \in {"connect", "sign"} : Begin(c, kind)
             \/ SignOut(c) \/ OAuthConnect(c)
      PROVE  WidgetInv'
  BY <1>1, BeginKeeps, SignOutKeeps, OAuthConnectKeeps
<1>2. ASSUME NEW c \in Call,
             \/ FrameReady(c) \/ FrameToWallet(c) \/ ClickClose(c) \/ FinishClose(c)
             \/ ReadyTimeout(c) \/ OverallTimeout(c)
             \/ \E ok \in BOOLEAN : FrameAnswer(c, ok) \/ WindowAnswer(c, ok)
      PROVE  WidgetInv'
  BY <1>2, FrameSteps, AnswerSteps
<1>3. ASSUME NEW c \in Call,
             \/ WindowToWallet(c) \/ UserClosesWindow(c) \/ PollClosed(c) \/ WindowTimeout(c)
             \/ PickerSelect(c) \/ PickerFails(c) \/ PickerAnswers(c)
             \/ OAuthPoll(c) \/ OAuthTimeout(c)
      PROVE  WidgetInv'
  BY <1>3, WindowSteps, PickerSteps, OAuthPollKeeps, OAuthTimeoutKeeps
<1>4. CASE (\E back \in {"code", "error"} : TabReturns(back)) \/ UserClosesTab \/ Disconnect
  BY <1>4, TabSteps, DisconnectKeeps
<1> QED BY <1>1, <1>2, <1>3, <1>4, WidgetStutter DEF WidgetNext

-------------------------------------------------------------------------------
(* Widgets: theorems.                                                      *)

\* The inductive invariant holds in every state: a call's listeners come with a deadline and
\* with a cancellation, and a call that a sign-out found has none (openIframeModal, openPopup).
THEOREM WidgetInvariant == WidgetSpec => []WidgetInv
<1> QED BY WidgetInitInv, WidgetStep, PTL DEF WidgetSpec

\* The variables of the SDK's instance keep their types.
THEOREM WidgetTypes == WidgetSpec => []WidgetTypeOK
<1>1. WidgetInv => WidgetTypeOK
  BY DEF WidgetInv
<1> QED BY <1>1, WidgetInvariant, PTL

\* No fallback, cancellation or window of another call leaves a call unanswered without a
\* deadline, unless the user is choosing a wallet.
THEOREM NobodyIsStranded == WidgetSpec => []NeverStranded
<1>1. WidgetInv => NeverStranded
  BY DEF WidgetInv, NeverStranded, Deadline
<1> QED BY <1>1, WidgetInvariant, PTL

\* A call is resolved with the answer to itself only, although OAuth connects share a window.
THEOREM AnswersAreOwn == WidgetSpec => []OwnAnswer
<1>1. WidgetInv => OwnAnswer
  BY DEF WidgetInv, OwnAnswer, Kept
<1> QED BY <1>1, WidgetInvariant, PTL

\* No widget opened before a sign-out sets the account after it (signOut, cancelActiveFlows).
THEOREM SignOutsHold == WidgetSpec => SignOutHolds
<1> DEFINE Late == \A c \in Call : auth # c /\ auth' = c => call[c].fresh \/ call[c].picker = "asking"
<1>1. WidgetInv /\ [WidgetNext]_widgetVars => [Late]_widgetVars
  <2> SUFFICES ASSUME WidgetInv, WidgetNext, NEW c \in Call, auth # c, auth' = c
               PROVE  call[c].fresh \/ call[c].picker = "asking"
    OBVIOUS
  <2>1. auth' # auth /\ auth' # NoCall
    BY WidgetAssumption
  <2>2. PICK d \in Call : (\E ok \in BOOLEAN : FrameAnswer(d, ok) \/ WindowAnswer(d, ok))
                          \/ PickerAnswers(d)
    <3>1. \A d \in Call : SignOut(d) => auth' = NoCall
      BY DEF SignOut
    <3>2. \A d \in Call, kind \in {"connect", "sign"} : Begin(d, kind) => auth' = auth
      BY DEF Begin
    <3>3. \A d \in Call :
            (\/ FrameReady(d) \/ FrameToWallet(d) \/ ClickClose(d) \/ FinishClose(d)
             \/ ReadyTimeout(d) \/ OverallTimeout(d)) => auth' = auth
      BY DEF FrameReady, FrameToWallet, ClickClose, FinishClose, ReadyTimeout, OverallTimeout
    <3>4. \A d \in Call :
            WindowToWallet(d) \/ UserClosesWindow(d) \/ PollClosed(d) \/ WindowTimeout(d)
              => auth' = auth
      BY DEF WindowToWallet, UserClosesWindow, PollClosed, WindowTimeout
    <3>5. \A d \in Call :
            (\/ PickerSelect(d) \/ PickerFails(d)
             \/ OAuthConnect(d) \/ OAuthPoll(d) \/ OAuthTimeout(d)) => auth' = auth
      BY DEF PickerSelect, PickerFails, OAuthConnect, OAuthPoll, OAuthTimeout
    <3>6. (\E back \in {"code", "error"} : TabReturns(back)) \/ UserClosesTab \/ Disconnect
            => auth' = auth
      BY DEF TabReturns, UserClosesTab, Disconnect
    <3> QED BY <2>1, <3>1, <3>2, <3>3, <3>4, <3>5, <3>6 DEF WidgetNext
  <2>3. d = c
    BY <2>1, <2>2 DEF FrameAnswer, WindowAnswer, PickerAnswers, Answer
  <2>4. CASE PickerAnswers(c)
    BY <2>4 DEF PickerAnswers
  <2>5. CASE call[c].frame = "ready" \/ call[c].listening
    BY <2>5, CallFacts DEF Kept, Quiet
  <2> QED BY <2>2, <2>3, <2>4, <2>5 DEF FrameAnswer, WindowAnswer
<1> QED BY <1>1, WidgetInvariant, PTL DEF WidgetSpec, SignOutHolds

-------------------------------------------------------------------------------
(* Widgets: calls end.  A call's deadlines are set when it begins, and once    *)
(* more where an iframe gives way to a window: they can run out twice only.    *)

Sheds(r, s) == s.kind = r.kind /\ s.timers \subseteq r.timers

\* What a step may do to a call that was made.
Ages(r, s) ==
  /\ s.kind = r.kind
  /\ "overall" \in s.timers => "overall" \in r.timers
  /\ "window" \in s.timers => {"window", "overall"} \cap r.timers # {}

LEMMA OpsShed ==
  ASSUME NEW r \in CallState
  PROVE  /\ Sheds(r, Reject(r)) /\ \A d \in Call : Sheds(r, Resolve(r, d))
         /\ Sheds(r, DropFrame(r)) /\ Sheds(r, StopListening(r)) /\ Sheds(r, DropWindow(r))
         /\ Reject(r) \in CallState /\ DropFrame(r) \in CallState
         /\ StopListening(r) \in CallState /\ DropWindow(r) \in CallState
         /\ \A d \in Call : Resolve(r, d) \in CallState
<1>1. /\ Reject(r) \in CallState /\ Sheds(r, Reject(r))
      /\ \A d \in Call : Resolve(r, d) \in CallState /\ Sheds(r, Resolve(r, d))
  <2>1. Reject(r) \in CallState /\ Sheds(r, Reject(r))
    BY DEF Reject, Sheds, CallState
  <2>2. ASSUME NEW d \in Call PROVE Resolve(r, d) \in CallState /\ Sheds(r, Resolve(r, d))
    <3> DEFINE s == [r EXCEPT !.answer = "resolved", !.from = d]
    <3>1. s \in CallState /\ s.kind = r.kind /\ s.timers = r.timers
      BY DEF CallState
    <3>2. Resolve(r, d) = r \/ Resolve(r, d) = s
      BY DEF Resolve
    <3> HIDE DEF s
    <3> QED BY <3>1, <3>2 DEF Sheds
  <2> QED BY <2>1, <2>2
<1>2. DropFrame(r) \in CallState /\ Sheds(r, DropFrame(r))
  BY DEF DropFrame, Sheds, CallState
<1>3. StopListening(r) \in CallState /\ Sheds(r, StopListening(r))
  BY DEF StopListening, Sheds, CallState
<1>4. DropWindow(r) \in CallState /\ Sheds(r, DropWindow(r))
  BY <1>3 DEF DropWindow, Sheds, CallState
<1> QED BY <1>1, <1>2, <1>3, <1>4

LEMMA CancelSheds ==
  ASSUME NEW r \in CallState
  PROVE  Cancelled(r) \in CallState /\ Sheds(r, Cancelled(r))
<1> DEFINE framed == IF "frame" \in r.cancels THEN Reject(DropFrame(r)) ELSE r
<1>1. framed \in CallState /\ Sheds(r, framed)
  <2>1. DropFrame(r) \in CallState /\ Sheds(r, DropFrame(r))
    BY OpsShed
  <2>2. /\ Reject(DropFrame(r)) \in CallState
        /\ Sheds(DropFrame(r), Reject(DropFrame(r)))
    BY <2>1, OpsShed
  <2> QED BY <2>1, <2>2 DEF Sheds
<1>2. Cancelled(r) = IF "window" \in r.cancels THEN Reject(DropWindow(framed)) ELSE framed
  BY DEF Cancelled
<1> HIDE DEF framed
<1>3. DropWindow(framed) \in CallState /\ Sheds(framed, DropWindow(framed))
  BY <1>1, OpsShed
<1>4. /\ Reject(DropWindow(framed)) \in CallState
      /\ Sheds(DropWindow(framed), Reject(DropWindow(framed)))
  BY <1>3, OpsShed
<1> QED BY <1>1, <1>2, <1>3, <1>4 DEF Sheds

\* A step of one call ages every call.
LEMMA OneCallAges ==
  ASSUME WidgetInv, NEW d \in Call, NEW r, call' = [call EXCEPT ![d] = r], Ages(call[d], r)
  PROVE  \A c \in Call : Ages(call[c], call'[c])
<1>1. call \in [Call -> CallState]
  BY DEF WidgetInv, WidgetTypeOK
<1> QED BY <1>1 DEF Ages

LEMMA ShedAges ==
  ASSUME NEW r, NEW s, Sheds(r, s)
  PROVE  Ages(r, s)
BY DEF Sheds, Ages

\* Only a call that was not made yet gets deadlines without having any.
LEMMA StepAges ==
  ASSUME WidgetInv, [WidgetNext]_widgetVars, NEW c \in Call, call[c].kind # "none"
  PROVE  Ages(call[c], call'[c])
<1>1. call \in [Call -> CallState] /\ \A d \in Call : call[d] \in CallState
  BY DEF WidgetInv, WidgetTypeOK
<1>2. ASSUME NEW d \in Call, NEW r, Sheds(call[d], r), call' = [call EXCEPT ![d] = r]
      PROVE  Ages(call[c], call'[c])
  BY <1>2, ShedAges, OneCallAges
<1>3. ASSUME NEW d \in Call, NEW r, d # c, call' = [call EXCEPT ![d] = r]
      PROVE  Ages(call[c], call'[c])
  BY <1>1, <1>3 DEF Ages
<1>4. ASSUME NEW d \in Call, NEW kind, Begin(d, kind) PROVE Ages(call[c], call'[c])
  <2>1. call' = [Start(call, d, kind) EXCEPT ![d] = Framed(Start(call, d, kind)[d])]
        \/ call' = [Start(call, d, kind) EXCEPT ![d] = Windowed(Start(call, d, kind)[d])]
        \/ call' = [Start(call, d, kind) EXCEPT ![d] = Reject(Start(call, d, kind)[d])]
    BY <1>4 DEF Begin, OpenFrame, OpenWindow
  <2>2. d # c
    BY <1>4 DEF Begin
  <2>3. \A r : [Start(call, d, kind) EXCEPT ![d] = r][c] = call[c]
    BY <1>1, <2>2 DEF Start
  <2> QED BY <2>1, <2>3 DEF Ages
<1>5. ASSUME NEW d \in Call, SignOut(d) PROVE Ages(call[c], call'[c])
  <2> DEFINE cancelled == [e \in Call |->
        IF call[e].kind = "none" THEN call[e] ELSE [Cancelled(call[e]) EXCEPT !.fresh = FALSE]]
             calls == Start(cancelled, d, "sign-out")
  <2>1. call' = [calls EXCEPT ![d] = Framed(calls[d])]
        \/ call' = [calls EXCEPT ![d] = Windowed(calls[d])]
        \/ call' = [calls EXCEPT ![d] = Reject(calls[d])]
    BY <1>5 DEF SignOut, OpenFrame, OpenWindow
  <2>2. d # c
    BY <1>5 DEF SignOut
  <2>3. \A r : [calls EXCEPT ![d] = r][c] = cancelled[c]
    BY <2>2 DEF Start
  <2>4. cancelled[c] = [Cancelled(call[c]) EXCEPT !.fresh = FALSE]
    OBVIOUS
  <2>5. Cancelled(call[c]) \in CallState /\ Sheds(call[c], Cancelled(call[c]))
    BY <1>1, CancelSheds
  <2> HIDE DEF cancelled, calls
  <2>6. Sheds(call[c], cancelled[c])
    BY <2>4, <2>5 DEF Sheds, CallState
  <2>7. call'[c] = cancelled[c]
    BY <2>1, <2>3
  <2> QED BY <2>6, <2>7, ShedAges
<1>6. ASSUME NEW d \in Call, OAuthConnect(d) PROVE Ages(call[c], call'[c])
  BY <1>3, <1>6 DEF OAuthConnect
<1>7. ASSUME NEW d \in Call, FrameReady(d) \/ ClickClose(d) \/ UserClosesWindow(d) \/ PickerSelect(d)
      PROVE  Ages(call[c], call'[c])
  <2>1. \/ call' = [call EXCEPT ![d] = [call[d] EXCEPT !.frame = "ready"]]
        \/ call' = [call EXCEPT ![d] = [call[d] EXCEPT !.closing = TRUE]]
        \/ call' = [call EXCEPT ![d] = [call[d] EXCEPT !.window = "closed"]]
        \/ call' = [call EXCEPT ![d] = [call[d] EXCEPT !.picker = "asking"]]
    BY <1>7 DEF FrameReady, ClickClose, UserClosesWindow, PickerSelect
  <2>2. /\ Sheds(call[d], [call[d] EXCEPT !.frame = "ready"])
        /\ Sheds(call[d], [call[d] EXCEPT !.closing = TRUE])
        /\ Sheds(call[d], [call[d] EXCEPT !.window = "closed"])
        /\ Sheds(call[d], [call[d] EXCEPT !.picker = "asking"])
    BY <1>1 DEF Sheds, CallState
  <2> QED BY <1>2, <2>1, <2>2
<1>8. ASSUME NEW d \in Call, FrameToWallet(d) \/ WindowToWallet(d)
      PROVE  Ages(call[c], call'[c])
  <2>1. PICK b \in {DropFrame(call[d]), DropWindow(call[d])} :
          call' = [call EXCEPT ![d] = [b EXCEPT !.picker = "choosing"]]
    BY <1>8 DEF FrameToWallet, WindowToWallet
  <2>2. b \in CallState /\ Sheds(call[d], b)
    BY <1>1, OpsShed
  <2>3. Sheds(call[d], [b EXCEPT !.picker = "choosing"])
    BY <2>2 DEF Sheds, CallState
  <2> QED BY <1>2, <2>1, <2>3
<1>9. ASSUME NEW d \in Call, FinishClose(d) \/ OverallTimeout(d) \/ PickerFails(d) \/ PickerAnswers(d)
      PROVE  Ages(call[c], call'[c])
  <2>1. \/ call' = [call EXCEPT ![d] = [Reject(DropFrame(call[d])) EXCEPT !.closing = FALSE]]
        \/ call' = [call EXCEPT ![d] = Reject(DropFrame(call[d]))]
        \/ call' = [call EXCEPT ![d] = [Reject(call[d]) EXCEPT !.picker = "none"]]
        \/ call' = [call EXCEPT ![d] = [Resolve(call[d], d) EXCEPT !.picker = "none"]]
    BY <1>9 DEF FinishClose, OverallTimeout, PickerFails, PickerAnswers
  <2>2. DropFrame(call[d]) \in CallState /\ Sheds(call[d], DropFrame(call[d]))
    BY <1>1, OpsShed
  <2>3. ASSUME NEW b \in {Reject(DropFrame(call[d])), Reject(call[d]), Resolve(call[d], d)}
        PROVE  b \in CallState /\ Sheds(call[d], b)
    BY <1>1, <2>2, OpsShed DEF Sheds
  <2>4. ASSUME NEW b \in CallState, Sheds(call[d], b)
        PROVE  Sheds(call[d], [b EXCEPT !.closing = FALSE]) /\ Sheds(call[d], [b EXCEPT !.picker = "none"])
    BY <2>4 DEF Sheds, CallState
  <2> QED BY <1>2, <2>1, <2>3, <2>4
<1>10. ASSUME NEW d \in Call, ReadyTimeout(d) PROVE Ages(call[c], call'[c])
  <2> DEFINE b == DropFrame(call[d])
             r == [call[d] EXCEPT !.timers = @ \ {"ready"}]
  <2>1. b \in CallState /\ Sheds(call[d], b) /\ Sheds(b, Reject(b))
    BY <1>1, OpsShed
  <2>2. CASE call' = [call EXCEPT ![d] = r]
    <3>1. Sheds(call[d], r)
      BY <1>1 DEF Sheds, CallState
    <3> QED BY <1>2, <2>2, <3>1
  <2>3. CASE OpenWindow([call EXCEPT ![d] = b], d) /\ call[d].frame = "loading"
    <3>1. "overall" \in call[d].timers
      BY <2>3 DEF WidgetInv, Kept, Armed
    <3>2. Ages(call[d], Windowed(b))
      BY <2>1, <3>1 DEF Ages, Windowed, Sheds, CallState
    <3>3. Ages(call[d], Reject(b))
      BY <2>1 DEF Ages, Sheds
    <3>4. call' = [call EXCEPT ![d] = Windowed(b)] \/ call' = [call EXCEPT ![d] = Reject(b)]
      BY <1>1, <2>3 DEF OpenWindow
    <3> HIDE DEF b
    <3> QED BY <3>2, <3>3, <3>4, OneCallAges
  <2>4. CASE call' = [call EXCEPT ![d] = Reject(b)]
    <3>1. Sheds(call[d], Reject(b))
      BY <2>1 DEF Sheds
    <3> QED BY <1>2, <2>4, <3>1
  <2> QED BY <1>10, <2>2, <2>3, <2>4 DEF ReadyTimeout
<1>11. ASSUME NEW d \in Call, NEW ok \in BOOLEAN, FrameAnswer(d, ok) \/ WindowAnswer(d, ok)
       PROVE  Ages(call[c], call'[c])
  <2>1. PICK b \in {DropFrame(call[d]), DropWindow(call[d])} :
          call' = [call EXCEPT ![d] = IF ok THEN Resolve(b, d) ELSE Reject(b)]
    BY <1>11 DEF FrameAnswer, WindowAnswer, Answer
  <2>2. b \in CallState /\ Sheds(call[d], b)
    BY <1>1, OpsShed
  <2>3. Sheds(call[d], Resolve(b, d)) /\ Sheds(call[d], Reject(b))
    BY <2>2, OpsShed DEF Sheds
  <2> QED BY <1>2, <2>1, <2>3
<1>12. ASSUME NEW d \in Call, PollClosed(d) \/ WindowTimeout(d) PROVE Ages(call[c], call'[c])
  <2>1. PICK b \in {StopListening(call[d]), DropWindow(call[d])} :
          call' = [call EXCEPT ![d] = Reject(b)]
    BY <1>12 DEF PollClosed, WindowTimeout
  <2>2. b \in CallState /\ Sheds(call[d], b)
    BY <1>1, OpsShed
  <2>3. Sheds(call[d], Reject(b))
    BY <2>2, OpsShed DEF Sheds
  <2> QED BY <1>2, <2>1, <2>3
<1>13. ASSUME NEW d \in Call
       PROVE  /\ OAuthDone(d) \in CallState
              /\ Sheds(call[d], Reject(OAuthDone(d)))
              /\ \A e \in Call : Sheds(call[d], Resolve(OAuthDone(d), e))
              /\ Reject(OAuthDone(d)) \in CallState
  <2>1. OAuthDone(d) \in CallState /\ Sheds(call[d], OAuthDone(d))
    BY <1>1 DEF OAuthDone, Sheds, CallState
  <2> QED BY <2>1, OpsShed DEF Sheds
<1>14. ASSUME NEW d \in Call, OAuthPoll(d) PROVE Ages(call[c], call'[c])
  <2>1. \/ call' = [call EXCEPT ![d] = Reject(OAuthDone(d))]
        \/ call' = [call EXCEPT ![d] = Resolve(OAuthDone(d), d)]
    BY <1>14 DEF OAuthPoll, ReturnedTo
  <2> QED BY <1>2, <1>13, <2>1
<1>15. ASSUME NEW d \in Call, OAuthTimeout(d) PROVE Ages(call[c], call'[c])
  <2> DEFINE b == Reject(OAuthDone(d))
             ended == [call EXCEPT ![d] = b]
  <2>1. b \in CallState /\ Sheds(call[d], b)
    BY <1>13
  <2> HIDE DEF b
  <2>2. ended \in [Call -> CallState] /\ Sheds(call[c], ended[c])
    BY <1>1, <2>1 DEF Sheds
  <2>3. call' = ended \/ (popup \in Call /\ call' = [ended EXCEPT ![popup].window = "closed"])
    BY <1>15 DEF OAuthTimeout, b
  <2> HIDE DEF ended
  <2>4. Sheds(call[c], call'[c])
    BY <2>2, <2>3 DEF Sheds, CallState
  <2> QED BY <2>4, ShedAges
<1>16. ASSUME Disconnect PROVE Ages(call[c], call'[c])
  <2>1. call'[c] = Cancelled(call[c])
    BY <1>16 DEF Disconnect
  <2> QED BY <1>1, <2>1, CancelSheds, ShedAges
<1>17. ASSUME call' = call PROVE Ages(call[c], call'[c])
  BY <1>17 DEF Ages
<1> QED
  <2>1. CASE \E d \in Call :
               \/ \E kind \in {"connect", "sign"} : Begin(d, kind)
               \/ SignOut(d) \/ OAuthConnect(d) \/ OAuthPoll(d) \/ OAuthTimeout(d)
    BY <2>1, <1>4, <1>5, <1>6, <1>14, <1>15
  <2>2. CASE \E d \in Call :
               \/ FrameReady(d) \/ FrameToWallet(d) \/ ClickClose(d) \/ FinishClose(d)
               \/ ReadyTimeout(d) \/ OverallTimeout(d)
    BY <2>2, <1>7, <1>8, <1>9, <1>10
  <2>3. CASE \E d \in Call :
               \/ \E ok \in BOOLEAN : FrameAnswer(d, ok) \/ WindowAnswer(d, ok)
               \/ WindowToWallet(d) \/ UserClosesWindow(d) \/ PollClosed(d) \/ WindowTimeout(d)
               \/ PickerSelect(d) \/ PickerFails(d) \/ PickerAnswers(d)
    BY <2>3, <1>7, <1>8, <1>9, <1>11, <1>12
  <2>4. CASE \/ \E back \in {"code", "error"} : TabReturns(back)
             \/ UserClosesTab \/ UNCHANGED widgetVars
    BY <2>4, <1>17 DEF TabReturns, UserClosesTab, widgetVars
  <2> QED BY <2>1, <2>2, <2>3, <2>4, <1>16 DEF WidgetNext

\* A deadline that runs out settles its call.
LEMMA TimeoutsSettle ==
  ASSUME WidgetInv, NEW c \in Call, OverallTimeout(c) \/ WindowTimeout(c) \/ OAuthTimeout(c)
  PROVE  call'[c].answer # "none"
<1>1. call \in [Call -> CallState] /\ call[c] \in CallState
  BY DEF WidgetInv, WidgetTypeOK
<1>2. \A r \in CallState : Reject(r).answer # "none" /\ Reject(r) \in CallState
  BY DEF Reject, CallState
<1>3. CASE OverallTimeout(c) \/ WindowTimeout(c)
  <2>1. PICK b \in {DropFrame(call[c]), DropWindow(call[c])} :
          call' = [call EXCEPT ![c] = Reject(b)]
    BY <1>3 DEF OverallTimeout, WindowTimeout
  <2>2. b \in CallState
    BY <1>1, OpsShed
  <2> QED BY <1>1, <1>2, <2>1, <2>2
<1>4. CASE OAuthTimeout(c)
  <2> DEFINE b == Reject(OAuthDone(c))
             ended == [call EXCEPT ![c] = b]
  <2>1. b \in CallState /\ b.answer # "none"
    <3>1. OAuthDone(c) \in CallState
      BY <1>1 DEF OAuthDone, CallState
    <3> QED BY <1>2, <3>1
  <2> HIDE DEF b
  <2>2. ended \in [Call -> CallState] /\ ended[c].answer # "none"
    BY <1>1, <2>1
  <2>3. call' = ended \/ (popup \in Call /\ call' = [ended EXCEPT ![popup].window = "closed"])
    BY <1>4 DEF OAuthTimeout, b
  <2> HIDE DEF ended
  <2> QED BY <2>2, <2>3 DEF CallState
<1> QED BY <1>3, <1>4

\* Every call to the SDK is answered or waits in the user's wallet, as long as the page's
\* timers fire (openIframeModal, openPopup, openOAuthPopup).
THEOREM AllCallsEnd == WidgetSpec /\ TimersFire => CallsEnd
<1>1. ASSUME NEW c \in Call
      PROVE  WidgetSpec /\ TimersFire =>
               ((call[c].kind # "none") ~> (call[c].answer # "none" \/ call[c].picker # "none"))
  <2> DEFINE Made == call[c].kind # "none"
             Over == call[c].answer # "none" \/ call[c].picker # "none"
             NoOverall == "overall" \notin call[c].timers
             NoWindow == "window" \notin call[c].timers
             NoOAuth == "oauth" \notin call[c].timers
  <2>1. WidgetInv /\ [WidgetNext]_widgetVars => WidgetInv'
    BY WidgetStep
  <2>2. WidgetInv /\ Made /\ NoOverall /\ NoWindow /\ NoOAuth => Over
    BY DEF WidgetInv, Deadline
  <2>3. WidgetInv /\ Made /\ [WidgetNext]_widgetVars =>
          Made' /\ (NoOverall => NoOverall') /\ (NoOverall /\ NoWindow => NoWindow')
    BY StepAges DEF Ages
  <2>4. WidgetInv /\ <<OverallTimeout(c)>>_widgetVars => Over'
    BY TimeoutsSettle
  <2>5. WidgetInv /\ <<WindowTimeout(c)>>_widgetVars => Over'
    BY TimeoutsSettle
  <2>6. WidgetInv /\ <<OAuthTimeout(c)>>_widgetVars => Over'
    BY TimeoutsSettle
  <2>7. TimersFire =>
          /\ []<>NoOverall \/ []<><<OverallTimeout(c)>>_widgetVars
          /\ []<>NoWindow \/ []<><<WindowTimeout(c)>>_widgetVars
          /\ []<>NoOAuth \/ []<><<OAuthTimeout(c)>>_widgetVars
    BY DEF TimersFire
  <2>8. WidgetInit => WidgetInv
    BY WidgetInitInv
  <2> QED BY <2>1, <2>2, <2>3, <2>4, <2>5, <2>6, <2>7, <2>8, PTL DEF WidgetSpec
<1> QED BY <1>1 DEF CallsEnd
=============================================================================
