---------------------------- MODULE ApprovalResults ----------------------------
(***************************************************************************)
(* Approval requests: a command line signs a request, the owner opens its  *)
(* link in a browser and approves it with a delegation or declines it, and *)
(* the command line fetches the sealed result until it acknowledges it.    *)
(* Each handler reads the row, then writes with a statement that names in  *)
(* its condition what must still hold.                                     *)
(***************************************************************************)
EXTENDS WallClock

CONSTANTS
  Request,         \* signed approval requests
  NoRequest,
  Page,            \* browser pages that approve
  Decliner,        \* browser pages that decline
  Fetcher,         \* calls of the command line
  Ack,             \* acknowledgement ids the command line chooses
  NoAck,
  NoResult,
  GrantLifetime,   \* the longest delegation the requester accepts, with the allowance
  RequestLife,     \* the latest expiry of a request
  ResultRetention

ASSUME ApprovalAssumption ==
  /\ NoRequest \notin Request /\ NoAck \notin Ack /\ NoResult \notin Nat
  /\ GrantLifetime \in Nat /\ RequestLife \in Nat /\ ResultRetention \in Nat

VARIABLES
  request,    \* the rows of approval_request
  page,       \* what each approving page is in the middle of
  decline,    \* what each declining page is in the middle of
  fetcher,    \* what each acknowledgement is in the middle of
  told        \* history: what was answered about each request

approvalVars == <<request, page, decline, fetcher, told>>

-------------------------------------------------------------------------------
\* A delegation is named by the moment it expires.  sealed: the ciphertext is there.
RequestRow ==
  [state: {"none", "open", "approved", "denied"}, expiresAt: Nat, delegation: Nat,
   resultExpiresAt: Nat, sealed: BOOLEAN, ack: Ack \cup {NoAck}]

UnloadedRequest ==
  [state |-> "none", expiresAt |-> 0, delegation |-> 0, resultExpiresAt |-> 0,
   sealed |-> FALSE, ack |-> NoAck]

ApproverState ==
  [stage: {"idle", "signed", "sealing"}, request: Request \cup {NoRequest}, delegation: Nat,
   resultExpiresAt: Nat]

IdleApprover ==
  [stage |-> "idle", request |-> NoRequest, delegation |-> 0, resultExpiresAt |-> 0]

DeclinerState ==
  [stage: {"idle", "found", "settling"}, request: Request \cup {NoRequest}, at: Nat]

IdleDecliner == [stage |-> "idle", request |-> NoRequest, at |-> 0]

FetcherState ==
  [stage: {"idle", "acknowledging"}, request: Request \cup {NoRequest}, ack: Ack \cup {NoAck}]

IdleFetcher == [stage |-> "idle", request |-> NoRequest, ack |-> NoAck]

\* approved: the delegations whose approval was answered; fetched: those handed out.
Told == [approved: SUBSET Nat, denied: BOOLEAN, already: BOOLEAN, fetched: SUBSET Nat,
         acked: SUBSET Ack]

NothingTold ==
  [approved |-> {}, denied |-> FALSE, already |-> FALSE, fetched |-> {}, acked |-> {}]

ApprovalTypeOK ==
  /\ now \in Nat
  /\ request \in [Request -> RequestRow]
  /\ page \in [Page -> ApproverState]
  /\ decline \in [Decliner -> DeclinerState]
  /\ fetcher \in [Fetcher -> FetcherState]
  /\ told \in [Request -> Told]

ApprovalInit ==
  /\ now = 0
  /\ request = [q \in Request |-> UnloadedRequest]
  /\ page = [p \in Page |-> IdleApprover]
  /\ decline = [x \in Decliner |-> IdleDecliner]
  /\ fetcher = [f \in Fetcher |-> IdleFetcher]
  /\ told = [q \in Request |-> NothingTold]

-------------------------------------------------------------------------------
\* Opening the link registers the request; opening it again changes nothing.
Load(q) ==
  /\ request[q].state = "none"
  /\ \E expiresAt \in 0..RequestLife :
       request' = [request EXCEPT ![q].state = "open", ![q].expiresAt = expiresAt]
  /\ UNCHANGED <<now, page, decline, fetcher, told>>

\* assertDelegationWindow: the request is pending and accepts the lifetime.
InWindow(q, delegation) ==
  /\ request[q].state = "open" /\ request[q].expiresAt > now
  /\ delegation > now /\ delegation <= now + GrantLifetime

\* The check before the delegation is signed.
SignFor(p, q) ==
  /\ page[p].stage = "idle"
  /\ \E delegation \in now..(now + GrantLifetime) :
       /\ InWindow(q, delegation)
       /\ page' = [page EXCEPT ![p] =
            [IdleApprover EXCEPT !.stage = "signed", !.request = q, !.delegation = delegation]]
  /\ UNCHANGED <<now, request, decline, fetcher, told>>

Earlier(a, b) == IF a < b THEN a ELSE b

\* The check of what was signed; the result is dated before it is sealed.
Seal(p) ==
  /\ page[p].stage = "signed"
  /\ InWindow(page[p].request, page[p].delegation)
  /\ page' = [page EXCEPT ![p].stage = "sealing",
       ![p].resultExpiresAt = Earlier(page[p].delegation, now + ResultRetention)]
  /\ UNCHANGED <<now, request, decline, fetcher, told>>

\* Mutant of Pending: the answer of the check before is trusted.
PendingAsChecked(q) == request[q].expiresAt > now

\* What approve and deny compare when they write.
Pending(q) == request[q].state = "open" /\ request[q].expiresAt > now

Approve(p) ==
  /\ page[p].stage = "sealing"
  /\ LET q == page[p].request
     IN  \/ /\ Pending(q)
            /\ request' = [request EXCEPT ![q].state = "approved", ![q].sealed = TRUE,
                 ![q].delegation = page[p].delegation,
                 ![q].resultExpiresAt = page[p].resultExpiresAt]
            /\ told' = [told EXCEPT ![q].approved = @ \cup {page[p].delegation}]
         \/ /\ ~ Pending(q)
            /\ UNCHANGED <<request, told>>
  /\ page' = [page EXCEPT ![p] = IdleApprover]
  /\ UNCHANGED <<now, decline, fetcher>>

\* A check refuses, the signing is given up, or the process dies.
ApproverEnds(p) ==
  /\ page[p].stage # "idle"
  /\ page' = [page EXCEPT ![p] = IdleApprover]
  /\ UNCHANGED <<now, request, decline, fetcher, told>>

\* The clock is read before the row.
DeclineFind(x, q) ==
  /\ decline[x].stage = "idle"
  /\ request[q].state # "none"
  /\ decline' = [decline EXCEPT ![x] = [stage |-> "found", request |-> q, at |-> now]]
  /\ UNCHANGED <<now, request, page, fetcher, told>>

Deny(x) ==
  /\ decline[x].stage = "found"
  /\ LET q == decline[x].request
     IN  \/ /\ request[q].state = "open" /\ request[q].expiresAt > decline[x].at
            /\ request' = [request EXCEPT ![q].state = "denied"]
            /\ told' = [told EXCEPT ![q].denied = TRUE]
            /\ decline' = [decline EXCEPT ![x] = IdleDecliner]
         \/ /\ ~ (request[q].state = "open" /\ request[q].expiresAt > decline[x].at)
            /\ decline' = [decline EXCEPT ![x].stage = "settling"]
            /\ UNCHANGED <<request, told>>
  /\ UNCHANGED <<now, page, fetcher>>

\* The row is read again to say why: denied before, approved, or expired.
Settle(x) ==
  /\ decline[x].stage = "settling"
  /\ LET q == decline[x].request
     IN  told' = [told EXCEPT ![q].denied = @ \/ request[q].state = "denied",
                              ![q].already = @ \/ request[q].state = "approved"]
  /\ decline' = [decline EXCEPT ![x] = IdleDecliner]
  /\ UNCHANGED <<now, request, page, fetcher>>

DeclinerEnds(x) ==
  /\ decline[x].stage # "idle"
  /\ decline' = [decline EXCEPT ![x] = IdleDecliner]
  /\ UNCHANGED <<now, request, page, fetcher, told>>

Retained(q) == request[q].state = "approved" /\ request[q].resultExpiresAt > now

\* A fetch changes nothing; the answer may be lost and fetched again.
Fetch(q) ==
  /\ Retained(q)
  /\ request[q].ack = NoAck /\ request[q].sealed
  /\ told' = [told EXCEPT ![q].fetched = @ \cup {request[q].delegation}]
  /\ UNCHANGED <<now, request, page, decline, fetcher>>

AckRead(f, q, a) ==
  /\ fetcher[f].stage = "idle"
  /\ Retained(q)
  /\ fetcher' = [fetcher EXCEPT ![f] = [stage |-> "acknowledging", request |-> q, ack |-> a]]
  /\ UNCHANGED <<now, request, page, decline, told>>

\* The first acknowledgement clears the ciphertext, the same one may be repeated.
Acknowledge(f) ==
  /\ fetcher[f].stage = "acknowledging"
  /\ LET q == fetcher[f].request
         a == fetcher[f].ack
     IN  \/ /\ Retained(q) /\ request[q].ack \in {NoAck, a}
            /\ request' = [request EXCEPT ![q].ack = a, ![q].sealed = FALSE]
            /\ told' = [told EXCEPT ![q].acked = @ \cup {a}]
         \/ /\ ~ (Retained(q) /\ request[q].ack \in {NoAck, a})
            /\ UNCHANGED <<request, told>>
  /\ fetcher' = [fetcher EXCEPT ![f] = IdleFetcher]
  /\ UNCHANGED <<now, page, decline>>

FetcherEnds(f) ==
  /\ fetcher[f].stage # "idle"
  /\ fetcher' = [fetcher EXCEPT ![f] = IdleFetcher]
  /\ UNCHANGED <<now, request, page, decline, told>>

ApprovalNext ==
  \/ \E q \in Request : Load(q) \/ Fetch(q)
  \/ \E p \in Page, q \in Request : SignFor(p, q)
  \/ \E p \in Page : Seal(p) \/ Approve(p) \/ ApproverEnds(p)
  \/ \E x \in Decliner, q \in Request : DeclineFind(x, q)
  \/ \E x \in Decliner : Deny(x) \/ Settle(x) \/ DeclinerEnds(x)
  \/ \E f \in Fetcher, q \in Request, a \in Ack : AckRead(f, q, a)
  \/ \E f \in Fetcher : Acknowledge(f) \/ FetcherEnds(f)
  \/ Tick /\ UNCHANGED approvalVars

ApprovalSpec == ApprovalInit /\ [][ApprovalNext]_<<now, approvalVars>>

-------------------------------------------------------------------------------
(* Properties.                                                             *)

\* No two answers about a request contradict each other, in whatever order they were given:
\* at most one approval succeeded and only its delegation was handed out, a request that was
\* declined has neither, and one acknowledgement ended it for good.
AnswersAgree ==
  \A q \in Request :
    LET t == told[q]
    IN  /\ \A d, e \in t.approved \cup t.fetched : d = e
        /\ t.fetched \subseteq t.approved
        /\ t.denied => t.approved = {} /\ ~ t.already
        /\ \A a, b \in t.acked : a = b
        /\ t.acked # {} => t.approved # {} /\ ~ request[q].sealed

\* Where a request stands, and what can be fetched, with its row.
ApprovalPhase(row) ==
  IF row.state \in {"none", "open"} THEN "open"
  ELSE IF row.sealed THEN "available" ELSE "over"

ApprovalResult(row) == IF row.sealed THEN row.delegation ELSE NoResult

approvalPhaseBar == [q \in Request |-> ApprovalPhase(request[q])]

approvalResultBar == [q \in Request |-> ApprovalResult(request[q])]

\* The one-time handoff it implements.
ApprovalHandoff == INSTANCE OneResult WITH
  Exchange <- Request, Result <- Nat, NoResult <- NoResult,
  phase <- approvalPhaseBar, result <- approvalResultBar

\* Every request is decided once, by approval or refusal, and its result is handed over once.
ApprovedOnce == ApprovalHandoff!Spec
===============================================================================
