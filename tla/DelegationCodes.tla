---------------------------- MODULE DelegationCodes ----------------------------
(***************************************************************************)
(* Short codes for a signed delegation: the browser posts the delegation   *)
(* and shows a code, and the command line redeems it.  A call with a claim *)
(* of its own may redeem again until it acknowledges; a call without one   *)
(* removes the code.  Old rows are cleared when a code is posted.          *)
(***************************************************************************)
EXTENDS WallClock

CONSTANTS
  Code,             \* codes as drawn, none of them twice while anything is kept of it
  NoCode,
  Delegation,
  NoDelegation,
  Claim,            \* secrets the redeeming clients choose
  NoClaim,
  Poster,           \* calls that post a delegation
  Redeemer,         \* calls that redeem or acknowledge
  CodeTtl,          \* 5 min
  ClaimRetention    \* 5 min

ASSUME CodeAssumption ==
  /\ NoCode \notin Code /\ NoClaim \notin Claim /\ NoDelegation \notin Delegation
  /\ CodeTtl \in Nat /\ ClaimRetention \in Nat

VARIABLES
  codes,      \* delegation_code
  claims,     \* delegation_code_claim
  post,       \* what each posting call is in the middle of
  redeem,     \* what each redeeming call is in the middle of
  receipts    \* history: who was given what a code stands for

codeVars == <<codes, claims, post, redeem, receipts>>

-------------------------------------------------------------------------------
CodeRow ==
  [state: {"none", "live", "gone"}, delegation: Delegation \cup {NoDelegation}, expiresAt: Nat]

NoCodeRow == [state |-> "none", delegation |-> NoDelegation, expiresAt |-> 0]

\* An acknowledged claim keeps its row without the delegation.
ClaimRow ==
  [state: {"none", "held", "acknowledged", "gone"}, claim: Claim \cup {NoClaim},
   delegation: Delegation \cup {NoDelegation}, redeemedAt: Nat]

NoClaimRow ==
  [state |-> "none", claim |-> NoClaim, delegation |-> NoDelegation, redeemedAt |-> 0]

PostState ==
  [stage: {"idle", "posted", "cleared", "drawing"}, delegation: Delegation \cup {NoDelegation},
   at: Nat]

IdlePost == [stage |-> "idle", delegation |-> NoDelegation, at |-> 0]

RedeemState ==
  [stage: {"idle", "claiming", "taking", "consumed", "acknowledging"},
   code: Code \cup {NoCode}, claim: Claim \cup {NoClaim},
   delegation: Delegation \cup {NoDelegation}, expiresAt: Nat, at: Nat]

IdleRedeem ==
  [stage |-> "idle", code |-> NoCode, claim |-> NoClaim, delegation |-> NoDelegation,
   expiresAt |-> 0, at |-> 0]

\* plain: deliveries without a claim; since: when the first claim was redeemed.
Receipt == [claims: SUBSET Claim, plain: Nat, since: Nat, acknowledged: BOOLEAN]

NoReceipt == [claims |-> {}, plain |-> 0, since |-> 0, acknowledged |-> FALSE]

CodeTypeOK ==
  /\ now \in Nat
  /\ codes \in [Code -> CodeRow]
  /\ claims \in [Code -> ClaimRow]
  /\ post \in [Poster -> PostState]
  /\ redeem \in [Redeemer -> RedeemState]
  /\ receipts \in [Code -> Receipt]

CodeInit ==
  /\ now = 0
  /\ codes = [c \in Code |-> NoCodeRow]
  /\ claims = [c \in Code |-> NoClaimRow]
  /\ post = [s \in Poster |-> IdlePost]
  /\ redeem = [r \in Redeemer |-> IdleRedeem]
  /\ receipts = [c \in Code |-> NoReceipt]

-------------------------------------------------------------------------------
(* Posting.                                                                *)

\* The code's expiry and the clearing take the same reading of the clock.
Post(s, d) ==
  /\ post[s].stage = "idle"
  /\ post' = [post EXCEPT ![s] = [stage |-> "posted", delegation |-> d, at |-> now]]
  /\ UNCHANGED <<now, codes, claims, redeem, receipts>>

ClearCodes(s) ==
  /\ post[s].stage = "posted"
  /\ codes' = [c \in Code |->
       IF codes[c].state = "live" /\ codes[c].expiresAt <= post[s].at
       THEN [NoCodeRow EXCEPT !.state = "gone"] ELSE codes[c]]
  /\ post' = [post EXCEPT ![s].stage = "cleared"]
  /\ UNCHANGED <<now, claims, redeem, receipts>>

\* The retention of a claim has ended.
Outdated(c, before) == claims[c].redeemedAt + ClaimRetention <= before

ClearClaims(s) ==
  /\ post[s].stage = "cleared"
  /\ claims' = [c \in Code |->
       IF claims[c].state \in {"held", "acknowledged"} /\ Outdated(c, post[s].at)
       THEN [NoClaimRow EXCEPT !.state = "gone"] ELSE claims[c]]
  /\ post' = [post EXCEPT ![s].stage = "drawing"]
  /\ UNCHANGED <<now, codes, redeem, receipts>>

\* A code that is taken is drawn again.
Draw(s, c) ==
  /\ post[s].stage = "drawing"
  /\ codes[c].state = "none"
  /\ codes' = [codes EXCEPT ![c] =
       [state |-> "live", delegation |-> post[s].delegation, expiresAt |-> post[s].at + CodeTtl]]
  /\ post' = [post EXCEPT ![s] = IdlePost]
  /\ UNCHANGED <<now, claims, redeem, receipts>>

PostEnds(s) ==
  /\ post[s].stage # "idle"
  /\ post' = [post EXCEPT ![s] = IdlePost]
  /\ UNCHANGED <<now, codes, claims, redeem, receipts>>

-------------------------------------------------------------------------------
(* Redeeming with a claim.                                                 *)

Redeem(r, c, k) ==
  /\ redeem[r].stage = "idle"
  /\ redeem' = [redeem EXCEPT ![r] =
       [IdleRedeem EXCEPT !.stage = "claiming", !.code = c, !.claim = k, !.at = now]]
  /\ UNCHANGED <<now, codes, claims, post, receipts>>

\* The holder of the claim gets the delegation again.
RedeemAgain(r) ==
  LET c == redeem[r].code
  IN  /\ claims[c].state = "held" /\ claims[c].claim = redeem[r].claim
      /\ ~ Outdated(c, redeem[r].at)

\* The transaction reads the claim, then the code.
ClaimRead(r) ==
  /\ redeem[r].stage = "claiming"
  /\ LET c == redeem[r].code
     IN  \/ /\ RedeemAgain(r)
            /\ redeem' = [redeem EXCEPT ![r] = IdleRedeem]
            /\ receipts' = [receipts EXCEPT ![c].claims = @ \cup {redeem[r].claim}]
         \/ /\ ~ RedeemAgain(r)
            /\ codes[c].state = "live" /\ codes[c].expiresAt > redeem[r].at
            /\ redeem' = [redeem EXCEPT ![r].stage = "taking",
                                        ![r].delegation = codes[c].delegation]
            /\ UNCHANGED receipts
         \/ /\ ~ RedeemAgain(r)
            /\ ~ (codes[c].state = "live" /\ codes[c].expiresAt > redeem[r].at)
            /\ redeem' = [redeem EXCEPT ![r] = IdleRedeem]
            /\ UNCHANGED receipts
  /\ UNCHANGED <<now, codes, claims, post>>

\* Mutant of StillThere: how many rows were deleted is not looked at.
StillThereAsRead(c) == TRUE

StillThere(c) == codes[c].state = "live"

\* It takes the code if it deletes the row, and commits with the claim's row.
ClaimTake(r) ==
  /\ redeem[r].stage = "taking"
  /\ LET c == redeem[r].code
         k == redeem[r].claim
     IN  \/ /\ StillThere(c)
            /\ codes' = [codes EXCEPT ![c] = [NoCodeRow EXCEPT !.state = "gone"]]
            /\ claims' = [claims EXCEPT ![c] =
                 [state |-> "held", claim |-> k, delegation |-> redeem[r].delegation,
                  redeemedAt |-> redeem[r].at]]
            /\ receipts' = [receipts EXCEPT ![c].claims = @ \cup {k}, ![c].since = redeem[r].at]
         \/ /\ ~ StillThere(c)
            /\ UNCHANGED <<codes, claims, receipts>>
  /\ redeem' = [redeem EXCEPT ![r] = IdleRedeem]
  /\ UNCHANGED <<now, post>>

-------------------------------------------------------------------------------
(* Redeeming without one, and acknowledging.                               *)

\* The row is deleted, then its expiry compared.
Consume(r, c) ==
  /\ redeem[r].stage = "idle"
  /\ codes[c].state = "live"
  /\ codes' = [codes EXCEPT ![c] = [NoCodeRow EXCEPT !.state = "gone"]]
  /\ redeem' = [redeem EXCEPT ![r] =
       [IdleRedeem EXCEPT !.stage = "consumed", !.code = c, !.expiresAt = codes[c].expiresAt]]
  /\ UNCHANGED <<now, claims, post, receipts>>

Hand(r) ==
  /\ redeem[r].stage = "consumed"
  /\ receipts' = IF redeem[r].expiresAt > now
       THEN [receipts EXCEPT ![redeem[r].code].plain = @ + 1] ELSE receipts
  /\ redeem' = [redeem EXCEPT ![r] = IdleRedeem]
  /\ UNCHANGED <<now, codes, claims, post>>

AckFind(r, c, k) ==
  /\ redeem[r].stage = "idle"
  /\ claims[c].state \in {"held", "acknowledged"} /\ claims[c].claim = k
  /\ redeem' = [redeem EXCEPT ![r] =
       [IdleRedeem EXCEPT !.stage = "acknowledging", !.code = c, !.claim = k]]
  /\ UNCHANGED <<now, codes, claims, post, receipts>>

\* The delegation is cleared, unless that was done or the row is gone.
AckClear(r) ==
  /\ redeem[r].stage = "acknowledging"
  /\ LET c == redeem[r].code
     IN  /\ claims' = IF claims[c].state = "held" /\ claims[c].claim = redeem[r].claim
              THEN [claims EXCEPT ![c].state = "acknowledged", ![c].delegation = NoDelegation]
              ELSE claims
         /\ receipts' = [receipts EXCEPT ![c].acknowledged = TRUE]
  /\ redeem' = [redeem EXCEPT ![r] = IdleRedeem]
  /\ UNCHANGED <<now, codes, post>>

\* The call fails or the process dies; a transaction that did not commit leaves nothing.
RedeemEnds(r) ==
  /\ redeem[r].stage # "idle"
  /\ redeem' = [redeem EXCEPT ![r] = IdleRedeem]
  /\ UNCHANGED <<now, codes, claims, post, receipts>>

CodeNext ==
  \/ \E s \in Poster, d \in Delegation : Post(s, d)
  \/ \E s \in Poster : ClearCodes(s) \/ ClearClaims(s) \/ PostEnds(s)
  \/ \E s \in Poster, c \in Code : Draw(s, c)
  \/ \E r \in Redeemer, c \in Code, k \in Claim : Redeem(r, c, k) \/ AckFind(r, c, k)
  \/ \E r \in Redeemer, c \in Code : Consume(r, c)
  \/ \E r \in Redeemer :
       ClaimRead(r) \/ ClaimTake(r) \/ Hand(r) \/ AckClear(r) \/ RedeemEnds(r)
  \/ Tick /\ UNCHANGED codeVars

CodeSpec == CodeInit /\ [][CodeNext]_<<now, codeVars>>

-------------------------------------------------------------------------------
(* Properties.                                                             *)

\* What a code stands for is given to one redeemer, however many try; if that one has a claim,
\* it can ask again until it acknowledged or its retention ended.
RedeemedByOne ==
  \A c \in Code :
    LET given == receipts[c]
    IN  /\ \A k, l \in given.claims : k = l
        /\ given.plain <= 1
        /\ given.plain = 1 => given.claims = {}
        /\ given.claims # {} /\ ~ given.acknowledged /\ now < given.since + ClaimRetention
             => claims[c].state = "held" /\ claims[c].claim \in given.claims

\* Where the exchange of a code stands, and what can be fetched, with its two rows.
CodePhase(row, held) ==
  IF row.state = "live" \/ held.state = "held" THEN "available"
  ELSE IF row.state = "none" THEN "open" ELSE "over"

CodeResult(row, held) == IF row.state = "live" THEN row.delegation ELSE held.delegation

codePhaseBar == [c \in Code |-> CodePhase(codes[c], claims[c])]

codeResultBar == [c \in Code |-> CodeResult(codes[c], claims[c])]

\* The one-time handoff it implements.
CodeHandoff == INSTANCE OneResult WITH
  Exchange <- Code, Result <- Delegation, NoResult <- NoDelegation,
  phase <- codePhaseBar, result <- codeResultBar

\* A delegation that was redeemed, acknowledged or cleared is never there again.
CodeOnce == CodeHandoff!Spec
===============================================================================
