--------------------------- MODULE PreparedHandoffs ---------------------------
(***************************************************************************)
(* A command line hands a prepared request to its owner's browser: the     *)
(* account claims it, the page prepares a signing context for it, previews *)
(* the bytes, and has them signed, while the command line or the page may  *)
(* cancel.  Handoffs are rows of the database; the signing contexts and    *)
(* the previews of an authorization live in the memory of the process,     *)
(* those of an owner revocation in the token itself.                       *)
(*                                                                         *)
(* One account, whose claims the limit counts.  The bytes a preview seals  *)
(* stand for a selection together with its expiry: the narrowed message is *)
(* a function of them.  A website's own sign-in has no ticket.             *)
(***************************************************************************)
EXTENDS Naturals, FiniteSets

CONSTANTS
  Ticket,
  NoTicket,
  Nonce,
  Context,        \* authorization context tokens, each issued at most once
  NoContext,
  Bytes,          \* messages the narrowing of a request can give
  Kind,           \* what a command line may ask for
  GrantTtl,       \* how long a prepared grant may still last when it is claimed
  Claimer,        \* claims in progress
  Preparer,       \* prepare calls in progress
  Signer,         \* signing calls in progress
  HandoffTtl,     \* 5 min
  ContextTtl,     \* 5 min
  PreviewTtl,     \* 5 min
  ClaimLimit,     \* 5 claims ...
  ClaimWindow,    \* ... in 5 min
  MaxTime         \* bound on the clock

ASSUME HandoffAssumption ==
  /\ NoTicket \notin Ticket /\ NoContext \notin Context
  /\ IsFiniteSet(Ticket)
  /\ Kind \subseteq {"authorization", "revocation"}
  /\ GrantTtl \subseteq Nat \ {0}
  /\ HandoffTtl \in Nat /\ ContextTtl \in Nat /\ PreviewTtl \in Nat
  /\ ClaimLimit \in Nat \ {0} /\ ClaimWindow \in Nat /\ MaxTime \in Nat

VARIABLES
  now,
  handoff,     \* prepared_handoff
  ctx,         \* the context tokens that were issued
  preview,     \* previewApprovals, by context
  claim,       \* what each claim is in the middle of
  prepare,     \* what each prepare call is in the middle of
  sign,        \* what each signing call is in the middle of
  signatures   \* history: how many signatures were made over each context

vars == <<now, handoff, ctx, preview, claim, prepare, sign, signatures>>

-------------------------------------------------------------------------------
Row ==
  [status: {"absent", "PENDING", "CONSUMED", "CANCELLED"}, requestedAt: Nat, expiresAt: Nat,
   nonce: Nonce \cup {NoTicket}, kind: {"authorization", "revocation"},
   context: Context \cup {NoContext}]

AbsentRow ==
  [status |-> "absent", requestedAt |-> 0, expiresAt |-> 0, nonce |-> NoTicket,
   kind |-> "authorization", context |-> NoContext]

ContextState ==
  [stage: {"unused", "live", "gone"}, ticket: Ticket \cup {NoTicket},
   kind: {"authorization", "revocation"}, expiresAt: Nat]

UnusedContext ==
  [stage |-> "unused", ticket |-> NoTicket, kind |-> "authorization", expiresAt |-> 0]

Preview == [bytes: Bytes, expiresAt: Nat]

ClaimState ==
  [stage: {"idle", "claiming"}, at: Nat, ticket: Ticket \cup {NoTicket},
   nonce: Nonce \cup {NoTicket}, kind: {"authorization", "revocation"}, ttl: Nat]

IdleClaim ==
  [stage |-> "idle", at |-> 0, ticket |-> NoTicket, nonce |-> NoTicket,
   kind |-> "authorization", ttl |-> 0]

PrepareState ==
  [stage: {"idle", "asserted", "issued"}, ticket: Ticket \cup {NoTicket},
   context: Context \cup {NoContext}]

IdlePrepare == [stage |-> "idle", ticket |-> NoTicket, context |-> NoContext]

\* The previews a call holds: the one it claims, none for an owner revocation.
SignState ==
  [stage: {"idle", "checked", "reserved", "claimed", "signed"},
   context: Context \cup {NoContext}, previews: SUBSET Preview]

IdleSign == [stage |-> "idle", context |-> NoContext, previews |-> {}]

HandoffTypeOK ==
  /\ now \in Nat
  /\ handoff \in [Ticket -> Row]
  /\ ctx \in [Context -> ContextState]
  /\ preview \in [Context -> SUBSET Preview]
  /\ claim \in [Claimer -> ClaimState]
  /\ prepare \in [Preparer -> PrepareState]
  /\ sign \in [Signer -> SignState]
  /\ signatures \in [Context -> Nat]

Init ==
  /\ now = 0
  /\ handoff = [t \in Ticket |-> AbsentRow]
  /\ ctx = [x \in Context |-> UnusedContext]
  /\ preview = [x \in Context |-> {}]
  /\ claim = [k \in Claimer |-> IdleClaim]
  /\ prepare = [p \in Preparer |-> IdlePrepare]
  /\ sign = [s \in Signer |-> IdleSign]
  /\ signatures = [x \in Context |-> 0]

-------------------------------------------------------------------------------
(* Claiming and cancelling.                                                *)

Smaller(a, b) == IF a < b THEN a ELSE b

Exists(t) == handoff[t].status # "absent"

\* active: pending and not expired.
Active(t) == handoff[t].status = "PENDING" /\ handoff[t].expiresAt > now

\* Mutant of RecentAt: rows of a clock later than the claim's own are not counted.
RecentUpTo(at) ==
  {t \in Ticket : /\ Exists(t) /\ handoff[t].requestedAt <= at
                  /\ at <= handoff[t].requestedAt + ClaimWindow}

\* The rows a claim with this clock counts.
RecentAt(at) == {t \in Ticket : Exists(t) /\ at <= handoff[t].requestedAt + ClaimWindow}

\* The rows that hold the ticket or the nonce.
Holding(t, n) == {u \in Ticket : Exists(u) /\ (u = t \/ handoff[u].nonce = n)}

\* The clock is read, and the request validated, before the transaction.
ClaimBegin(k) ==
  /\ claim[k].stage = "idle"
  /\ \E t \in Ticket, n \in Nonce, kind \in Kind, ttl \in GrantTtl :
       claim' = [claim EXCEPT ![k] =
         [stage |-> "claiming", at |-> now, ticket |-> t, nonce |-> n, kind |-> kind,
          ttl |-> ttl]]
  /\ UNCHANGED <<now, handoff, ctx, preview, prepare, sign, signatures>>

\* Mutant of MayClaim: only the ticket is looked up.
MayClaimNonceAgain(k) ==
  /\ ~ Exists(claim[k].ticket)
  /\ Cardinality(RecentAt(claim[k].at)) < ClaimLimit

MayClaim(k) ==
  /\ Holding(claim[k].ticket, claim[k].nonce) = {}
  /\ Cardinality(RecentAt(claim[k].at)) < ClaimLimit

\* createLimited, under the account's lock.
ClaimInsert(k) ==
  /\ claim[k].stage = "claiming"
  /\ MayClaim(k)
  /\ handoff' = [handoff EXCEPT ![claim[k].ticket] =
       [status |-> "PENDING", requestedAt |-> claim[k].at,
        expiresAt |-> claim[k].at + Smaller(HandoffTtl, claim[k].ttl),
        nonce |-> claim[k].nonce, kind |-> claim[k].kind, context |-> NoContext]]
  /\ claim' = [claim EXCEPT ![k] = IdleClaim]
  /\ UNCHANGED <<now, ctx, preview, prepare, sign, signatures>>

\* The row was there, another handoff has the nonce, the limit is reached, or the call fails.
ClaimEnd(k) ==
  /\ claim[k].stage = "claiming"
  /\ claim' = [claim EXCEPT ![k] = IdleClaim]
  /\ UNCHANGED <<now, handoff, ctx, preview, prepare, sign, signatures>>

\* Mutant of Cancel: a signed handoff can be cancelled as well.
CancelLate(t) ==
  /\ Exists(t) /\ handoff[t].expiresAt > now
  /\ handoff' = [handoff EXCEPT ![t].status = "CANCELLED"]
  /\ UNCHANGED <<now, ctx, preview, claim, prepare, sign, signatures>>

\* By the command line that has the secret, or by the page of the account.
Cancel(t) ==
  /\ Active(t)
  /\ handoff' = [handoff EXCEPT ![t].status = "CANCELLED"]
  /\ UNCHANGED <<now, ctx, preview, claim, prepare, sign, signatures>>

-------------------------------------------------------------------------------
(* Preparing a context.                                                    *)

\* assertRequest, or the first read of an owner revocation.
PrepareRead(p, t) ==
  /\ prepare[p].stage = "idle"
  /\ Active(t)
  /\ handoff[t].kind = "authorization" => handoff[t].context = NoContext
  /\ prepare' = [prepare EXCEPT ![p] = [IdlePrepare EXCEPT !.stage = "asserted", !.ticket = t]]
  /\ UNCHANGED <<now, handoff, ctx, preview, claim, sign, signatures>>

\* A stored context that is over is dropped whenever one is issued.
Pruned(x) == ctx[x].stage = "live" /\ ctx[x].kind = "authorization" /\ ctx[x].expiresAt <= now

CtxIssued(x, t, kind) ==
  [y \in Context |->
     IF y = x
     THEN [stage |-> "live", ticket |-> t, kind |-> kind, expiresAt |-> now + ContextTtl]
     ELSE IF kind = "authorization" /\ Pruned(y) THEN [ctx[y] EXCEPT !.stage = "gone"]
     ELSE ctx[y]]

PrepareIssue(p, x) ==
  /\ prepare[p].stage = "asserted"
  /\ ctx[x].stage = "unused"
  /\ ctx' = CtxIssued(x, prepare[p].ticket, handoff[prepare[p].ticket].kind)
  /\ prepare' = [prepare EXCEPT ![p].stage = "issued", ![p].context = x]
  /\ UNCHANGED <<now, handoff, preview, claim, sign, signatures>>

MayBind(p) == Active(prepare[p].ticket) /\ handoff[prepare[p].ticket].context = NoContext

PrepareBind(p) ==
  /\ prepare[p].stage = "issued"
  /\ MayBind(p)
  /\ handoff' = [handoff EXCEPT ![prepare[p].ticket].context = prepare[p].context]
  /\ prepare' = [prepare EXCEPT ![p] = IdlePrepare]
  /\ UNCHANGED <<now, ctx, preview, claim, sign, signatures>>

\* Refused or failed: a context that was issued stays behind, bound to nothing.
PrepareFail(p) ==
  /\ prepare[p].stage # "idle"
  /\ prepare' = [prepare EXCEPT ![p] = IdlePrepare]
  /\ UNCHANGED <<now, handoff, ctx, preview, claim, sign, signatures>>

\* A website's own sign-in.
PrepareDirect(x) ==
  /\ ctx[x].stage = "unused"
  /\ ctx' = CtxIssued(x, NoTicket, "authorization")
  /\ UNCHANGED <<now, handoff, preview, claim, prepare, sign, signatures>>

-------------------------------------------------------------------------------
(* Previewing and signing.                                                 *)

\* The process still has the context, and it has not expired.
Stored(x) ==
  ctx[x].stage = "live" /\ ctx[x].kind = "authorization" /\ ctx[x].expiresAt > now

\* assertHandoffContext: a handoff's context comes with its ticket.
Bound(x) ==
  ctx[x].ticket # NoTicket =>
    Active(ctx[x].ticket) /\ handoff[ctx[x].ticket].context = x

PreviewBytes(x) ==
  /\ Stored(x) /\ Bound(x)
  /\ \E b \in Bytes :
       preview' = [preview EXCEPT ![x] = @ \cup {[bytes |-> b, expiresAt |-> now + PreviewTtl]}]
  /\ UNCHANGED <<now, handoff, ctx, claim, prepare, sign, signatures>>

\* checkPreviewApproval: the bytes to sign are those of a preview of this context.
Previewed(x) == {q \in preview[x] : q.expiresAt > now}

\* Both single-use records are compared again and deleted together.
Consumable(x, previews) == Stored(x) /\ previews \subseteq Previewed(x)

CtxConsumed(x) == [ctx EXCEPT ![x].stage = "gone"]

PreviewsConsumed(x, previews) == [preview EXCEPT ![x] = @ \ previews]

\* Mutant of Direct: a ticket's context is accepted without its ticket.
DirectAny(x) == TRUE

\* A call without a ticket has to name a context without one.
Direct(x) == ctx[x].ticket = NoTicket

\* Without a ticket nothing is awaited between the checks and the deletion.
SignDirect(s, x) ==
  /\ sign[s].stage = "idle"
  /\ Stored(x) /\ Direct(x)
  /\ \E q \in Previewed(x) :
       /\ sign' = [sign EXCEPT ![s] = [stage |-> "claimed", context |-> x, previews |-> {q}]]
       /\ preview' = PreviewsConsumed(x, {q})
  /\ ctx' = CtxConsumed(x)
  /\ UNCHANGED <<now, handoff, claim, prepare, signatures>>

SignCheck(s, x) ==
  /\ sign[s].stage = "idle"
  /\ Stored(x) /\ ctx[x].ticket # NoTicket /\ Bound(x)
  /\ \E q \in Previewed(x) :
       sign' = [sign EXCEPT ![s] = [stage |-> "checked", context |-> x, previews |-> {q}]]
  /\ UNCHANGED <<now, handoff, ctx, preview, claim, prepare, signatures>>

\* The token of an owner revocation carries the time it was issued.
RevocationCheck(s, x) ==
  /\ sign[s].stage = "idle"
  /\ ctx[x].stage = "live" /\ ctx[x].kind = "revocation"
  /\ ctx[x].ticket # NoTicket /\ Bound(x)
  /\ now <= ctx[x].expiresAt
  /\ sign' = [sign EXCEPT ![s] = [stage |-> "checked", context |-> x, previews |-> {}]]
  /\ UNCHANGED <<now, handoff, ctx, preview, claim, prepare, signatures>>

TicketOf(s) == ctx[sign[s].context].ticket

\* Mutant of MayReserve: the status of the row is not compared.
MayReserveAgain(s) ==
  /\ handoff[TicketOf(s)].context = sign[s].context
  /\ handoff[TicketOf(s)].expiresAt > now

MayReserve(s) ==
  /\ Active(TicketOf(s))
  /\ handoff[TicketOf(s)].context = sign[s].context

\* The update that decides between two signers, and between signing and cancelling.
Reserve(s) ==
  /\ sign[s].stage = "checked"
  /\ MayReserve(s)
  /\ handoff' = [handoff EXCEPT ![TicketOf(s)].status = "CONSUMED"]
  /\ sign' = [sign EXCEPT ![s].stage =
       IF ctx[sign[s].context].kind = "revocation" THEN "claimed" ELSE "reserved"]
  /\ UNCHANGED <<now, ctx, preview, claim, prepare, signatures>>

Consume(s) ==
  /\ sign[s].stage = "reserved"
  /\ Consumable(sign[s].context, sign[s].previews)
  /\ ctx' = CtxConsumed(sign[s].context)
  /\ preview' = PreviewsConsumed(sign[s].context, sign[s].previews)
  /\ sign' = [sign EXCEPT ![s].stage = "claimed"]
  /\ UNCHANGED <<now, handoff, claim, prepare, signatures>>

SignBytes(s) ==
  /\ sign[s].stage = "claimed"
  /\ signatures' = [signatures EXCEPT ![sign[s].context] = @ + 1]
  /\ sign' = [sign EXCEPT ![s].stage = "signed"]
  /\ UNCHANGED <<now, handoff, ctx, preview, claim, prepare>>

\* completeSigning, which gives a handoff's signature its delivery state.
Deliverable(s) ==
  TicketOf(s) # NoTicket =>
    /\ handoff[TicketOf(s)].status = "CONSUMED"
    /\ handoff[TicketOf(s)].context = sign[s].context

Deliver(s) ==
  /\ sign[s].stage = "signed"
  /\ Deliverable(s)
  /\ sign' = [sign EXCEPT ![s] = IdleSign]
  /\ UNCHANGED <<now, handoff, ctx, preview, claim, prepare, signatures>>

\* Refused or failed, wherever the call had come to.
SignFail(s) ==
  /\ sign[s].stage # "idle"
  /\ sign' = [sign EXCEPT ![s] = IdleSign]
  /\ UNCHANGED <<now, handoff, ctx, preview, claim, prepare, signatures>>

\* The process restarts: its contexts, its previews and its calls are gone.
Restart ==
  /\ ctx' = [x \in Context |->
       IF ctx[x].stage = "live" /\ ctx[x].kind = "authorization"
       THEN [ctx[x] EXCEPT !.stage = "gone"] ELSE ctx[x]]
  /\ preview' = [x \in Context |-> {}]
  /\ claim' = [k \in Claimer |-> IdleClaim]
  /\ prepare' = [p \in Preparer |-> IdlePrepare]
  /\ sign' = [s \in Signer |-> IdleSign]
  /\ UNCHANGED <<now, handoff, signatures>>

Tick ==
  /\ now < MaxTime
  /\ now' = now + 1
  /\ UNCHANGED <<handoff, ctx, preview, claim, prepare, sign, signatures>>

Next ==
  \/ \E k \in Claimer : ClaimBegin(k) \/ ClaimInsert(k) \/ ClaimEnd(k)
  \/ \E t \in Ticket : Cancel(t)
  \/ \E p \in Preparer : PrepareBind(p) \/ PrepareFail(p)
  \/ \E p \in Preparer, t \in Ticket : PrepareRead(p, t)
  \/ \E p \in Preparer, x \in Context : PrepareIssue(p, x)
  \/ \E x \in Context : PrepareDirect(x) \/ PreviewBytes(x)
  \/ \E s \in Signer, x \in Context : SignDirect(s, x) \/ SignCheck(s, x) \/ RevocationCheck(s, x)
  \/ \E s \in Signer : Reserve(s) \/ Consume(s) \/ SignBytes(s) \/ Deliver(s) \/ SignFail(s)
  \/ Restart
  \/ Tick

Spec == Init /\ [][Next]_vars

-------------------------------------------------------------------------------
(* Properties.                                                             *)

\* One prepared request is signed at most once: a context is signed over once, and two
\* contexts that were signed over belong to handoffs with different nonces.
OneSignature ==
  /\ \A x \in Context : signatures[x] <= 1
  /\ \A x, y \in Context :
       /\ signatures[x] > 0 /\ signatures[y] > 0 /\ x # y
       /\ ctx[x].ticket # NoTicket /\ ctx[y].ticket # NoTicket
       => handoff[ctx[x].ticket].nonce # handoff[ctx[y].ticket].nonce

\* Once a cancel was answered, nothing was signed for the handoff and no call is past the
\* point where it could still be.
CancelledUnsigned ==
  \A x \in Context :
    ctx[x].ticket # NoTicket /\ handoff[ctx[x].ticket].status = "CANCELLED" =>
      /\ signatures[x] = 0
      /\ \A s \in Signer : sign[s].context = x => sign[s].stage = "checked"

\* A handoff that is spent is spent on a signature: the call that reserved it finds the
\* context and the preview it checked, unless they expired, and its answer is delivered.
ReservationKept ==
  \A s \in Signer :
    /\ /\ sign[s].stage = "reserved"
       /\ ctx[sign[s].context].expiresAt > now
       /\ \A q \in sign[s].previews : q.expiresAt > now
       => Consumable(sign[s].context, sign[s].previews)
    /\ sign[s].stage = "signed" => Deliverable(s)

\* No window of the limit's length holds more claims of the account than the limit,
\* whatever clock the claims in flight had read.
ClaimsLimited ==
  \A t \in Ticket :
    Cardinality({u \in Ticket : /\ Exists(u)
                                /\ handoff[u].requestedAt >= handoff[t].requestedAt
                                /\ handoff[u].requestedAt <= handoff[t].requestedAt + ClaimWindow})
      <= ClaimLimit

\* What a row shows of the one-time handoff: a reserved one has its context as the result.
PhaseOf(r) ==
  IF r.status \in {"absent", "PENDING"} THEN "open"
  ELSE IF r.status = "CONSUMED" THEN "available"
  ELSE "over"

ResultOf(r) == IF r.status = "CONSUMED" THEN r.context ELSE NoContext

phaseBar == [t \in Ticket |-> PhaseOf(handoff[t])]

resultBar == [t \in Ticket |-> ResultOf(handoff[t])]

Handoff == INSTANCE OneResult WITH
  Exchange <- Ticket, Result <- Context, NoResult <- NoContext,
  phase <- phaseBar, result <- resultBar

\* A handoff is reserved once, for one context, or cancelled for good.
ReservedOnce == Handoff!Spec
===============================================================================
