------------------------ MODULE PreparedHandoffsProofs ------------------------
(***************************************************************************)
(* Proofs about PreparedHandoffs.  A context belongs to one ticket for     *)
(* good, and a handoff is bound to one context for good.  A call that is   *)
(* past the reservation of its handoff, or has deleted the context of a    *)
(* website's sign-in, is the only one on its context.                      *)
(***************************************************************************)
EXTENDS PreparedHandoffs, FiniteSetTheorems, TLAPS

(* The inductive invariant.                                                *)

\* Which ticket a context belongs to, and which context a handoff is bound to.
ContextsLinked ==
  /\ \A x \in Context :
       /\ ctx[x].ticket # NoTicket => ctx[x].stage # "unused" /\ Exists(ctx[x].ticket)
       /\ ctx[x].stage = "unused" => signatures[x] = 0
       /\ signatures[x] > 0 /\ ctx[x].ticket # NoTicket => handoff[ctx[x].ticket].context = x
  /\ \A t \in Ticket : handoff[t].context # NoContext =>
       ctx[handoff[t].context].ticket = t /\ Exists(t)

NoncesDiffer ==
  \A t, u \in Ticket : Exists(t) /\ Exists(u) /\ t # u => handoff[t].nonce # handoff[u].nonce

PrepareBound ==
  \A p \in Preparer :
    /\ prepare[p].stage # "idle" => prepare[p].ticket \in Ticket /\ Exists(prepare[p].ticket)
    /\ prepare[p].stage = "issued" =>
         prepare[p].context \in Context /\ ctx[prepare[p].context].ticket = prepare[p].ticket

ClaimBound == \A k \in Claimer : claim[k].stage # "idle" =>
  claim[k].ticket \in Ticket /\ claim[k].nonce \in Nonce

SignBound ==
  \A s \in Signer :
    /\ sign[s].stage = "idle" => sign[s].context = NoContext
    /\ sign[s].stage # "idle" =>
         /\ sign[s].context \in Context /\ ctx[sign[s].context].stage # "unused"
         /\ TicketOf(s) # NoTicket => handoff[TicketOf(s)].context = sign[s].context
    /\ sign[s].stage \in {"checked", "reserved"} => TicketOf(s) # NoTicket

\* The calls that will sign.
Past(s) == sign[s].stage \in {"reserved", "claimed"}

OnlyOnePast ==
  /\ \A s, r \in Signer : Past(s) /\ Past(r) /\ sign[s].context = sign[r].context => s = r
  /\ \A s \in Signer : Past(s) => signatures[sign[s].context] = 0
  /\ \A x \in Context : signatures[x] <= 1

\* Nothing is signed before a handoff is reserved, or before a direct context is deleted.
Unspent(x) ==
  IF ctx[x].ticket # NoTicket THEN handoff[ctx[x].ticket].status # "CONSUMED"
                              ELSE ctx[x].stage # "gone"

UnspentUnsigned ==
  \A x \in Context : Unspent(x) =>
    /\ signatures[x] = 0
    /\ \A s \in Signer : sign[s].context = x => sign[s].stage = "checked"

\* The calls that have reserved their handoff, or still may.
Holds(s) ==
  \/ sign[s].stage = "reserved"
  \/ /\ sign[s].stage = "checked" /\ ctx[sign[s].context].kind = "authorization"
     /\ handoff[TicketOf(s)].status = "PENDING"

\* They keep what they checked.
ReservedKept ==
  \A s \in Signer :
    /\ Holds(s)
    /\ ctx[sign[s].context].expiresAt > now
    /\ \A q \in sign[s].previews : q.expiresAt > now
    => Consumable(sign[s].context, sign[s].previews)

HandoffInv ==
  /\ HandoffTypeOK
  /\ ContextsLinked /\ NoncesDiffer /\ PrepareBound /\ ClaimBound /\ SignBound
  /\ OnlyOnePast /\ UnspentUnsigned /\ ReservedKept

LEMMA InitInv == Init => HandoffInv
<1> SUFFICES ASSUME Init PROVE HandoffInv
  OBVIOUS
<1>1. HandoffTypeOK
  BY DEF Init, HandoffTypeOK, Row, AbsentRow, ContextState, UnusedContext, ClaimState, IdleClaim,
         PrepareState, IdlePrepare, SignState, IdleSign
<1>2. ContextsLinked /\ NoncesDiffer /\ PrepareBound /\ ClaimBound /\ SignBound
  BY DEF Init, ContextsLinked, NoncesDiffer, PrepareBound, ClaimBound, SignBound, Exists,
         AbsentRow, UnusedContext, IdleClaim, IdlePrepare, IdleSign
<1>3. OnlyOnePast /\ UnspentUnsigned /\ ReservedKept
  BY HandoffAssumption
     DEF Init, OnlyOnePast, Past, UnspentUnsigned, Unspent, ReservedKept, Holds, UnusedContext, IdleSign
<1> QED BY <1>1, <1>2, <1>3 DEF HandoffInv

-------------------------------------------------------------------------------
(* Claims.                                                                 *)

\* A claim moves on and touches nothing else.
LEMMA ClaimMoves ==
  ASSUME HandoffInv, NEW k \in Claimer, NEW v \in ClaimState,
         claim' = [claim EXCEPT ![k] = v],
         v.stage # "idle" => v.ticket \in Ticket /\ v.nonce \in Nonce,
         UNCHANGED <<now, handoff, ctx, preview, prepare, sign, signatures>>
  PROVE  HandoffInv'
<1> USE DEF HandoffInv
<1>1. claim'[k] = v /\ \A j \in Claimer \ {k} : claim'[j] = claim[j]
  BY DEF HandoffTypeOK
<1>2. HandoffTypeOK'
  BY DEF HandoffTypeOK
<1>3. ClaimBound'
  BY <1>1 DEF ClaimBound
<1>4. ContextsLinked' /\ NoncesDiffer' /\ PrepareBound'
  BY DEF ContextsLinked, NoncesDiffer, PrepareBound, Exists
<1>5. SignBound' /\ OnlyOnePast' /\ UnspentUnsigned'
  BY DEF SignBound, TicketOf, OnlyOnePast, Past, UnspentUnsigned, Unspent
<1>6. ReservedKept'
  BY DEF ReservedKept, Holds, TicketOf, Consumable, Stored, Previewed
<1> QED BY <1>2, <1>3, <1>4, <1>5, <1>6

LEMMA InsertInv ==
  ASSUME HandoffInv, NEW k \in Claimer, ClaimInsert(k)
  PROVE  HandoffInv'
<1> USE DEF HandoffInv
<1>1. PICK t \in Ticket : t = claim[k].ticket
  BY DEF ClaimInsert, ClaimBound
<1>2. PICK n \in Nonce : n = claim[k].nonce
  BY DEF ClaimInsert, ClaimBound
<1>3. PICK v \in Row :
        /\ v.status = "PENDING" /\ v.nonce = n /\ v.context = NoContext
        /\ handoff' = [handoff EXCEPT ![t] = v]
  <2>1. claim[k] \in ClaimState
    BY DEF HandoffTypeOK
  <2>2. claim[k].at + Smaller(HandoffTtl, claim[k].ttl) \in Nat
    BY <2>1, HandoffAssumption DEF ClaimState, Smaller
  <2>3. [status |-> "PENDING", requestedAt |-> claim[k].at,
         expiresAt |-> claim[k].at + Smaller(HandoffTtl, claim[k].ttl),
         nonce |-> n, kind |-> claim[k].kind, context |-> NoContext] \in Row
    BY <2>1, <2>2 DEF ClaimState, Row
  <2> QED BY <1>1, <1>2, <2>3 DEF ClaimInsert
<1>4. /\ handoff'[t] = v /\ \A u \in Ticket \ {t} : handoff'[u] = handoff[u]
      /\ UNCHANGED <<now, ctx, preview, prepare, sign, signatures>>
  BY <1>3 DEF ClaimInsert, HandoffTypeOK
<1>5. ~Exists(t) /\ \A u \in Ticket : Exists(u) => handoff[u].nonce # n
  BY <1>1, <1>2 DEF ClaimInsert, MayClaim, Holding
<1>6. HandoffTypeOK'
  <2>1. IdleClaim \in ClaimState
    BY DEF IdleClaim, ClaimState
  <2> QED BY <1>3, <1>4, <2>1 DEF HandoffTypeOK, ClaimInsert
<1>7. handoff[t].context = NoContext /\ \A x \in Context : ctx[x].ticket # t
  BY <1>5, HandoffAssumption DEF ContextsLinked, HandoffTypeOK, ContextState
<1>8. ContextsLinked'
  BY <1>3, <1>4, <1>5, <1>7 DEF ContextsLinked, Exists, HandoffTypeOK, ContextState
<1>9. NoncesDiffer'
  BY <1>3, <1>4, <1>5 DEF NoncesDiffer, Exists
<1>10. PrepareBound'
  BY <1>3, <1>4 DEF PrepareBound, Exists
<1>11. ClaimBound'
  BY <1>1, <1>2 DEF ClaimInsert, ClaimBound, IdleClaim, HandoffTypeOK
<1>12. SignBound'
  BY <1>3, <1>4, <1>7 DEF SignBound, TicketOf, HandoffTypeOK, ContextState
<1>13. OnlyOnePast'
  BY <1>4 DEF OnlyOnePast, Past
<1>14. UnspentUnsigned'
  BY <1>3, <1>4, <1>7 DEF UnspentUnsigned, Unspent, HandoffTypeOK, ContextState
<1>15. ReservedKept'
  <2>1. \A s \in Signer : Holds(s)' => Holds(s)
    <3> SUFFICES ASSUME NEW s \in Signer, Holds(s)' PROVE Holds(s)
      OBVIOUS
    <3>1. CASE sign[s].stage = "reserved"
      BY <3>1 DEF Holds
    <3>2. CASE sign[s].stage = "checked"
      <4>1. TicketOf(s) \in Ticket \ {t}
        BY <1>7, <3>2 DEF SignBound, TicketOf, HandoffTypeOK, ContextState
      <4> QED BY <1>4, <3>2, <4>1 DEF Holds, TicketOf
    <3> QED BY <1>4, <3>1, <3>2 DEF Holds
  <2> QED BY <1>4, <2>1 DEF ReservedKept, Consumable, Stored, Previewed
<1> QED BY <1>6, <1>8, <1>9, <1>10, <1>11, <1>12, <1>13, <1>14, <1>15

LEMMA CancelInv ==
  ASSUME HandoffInv, NEW t \in Ticket, Cancel(t)
  PROVE  HandoffInv'
<1> USE DEF HandoffInv
<1>1. /\ handoff[t] \in Row /\ handoff[t].status = "PENDING"
      /\ handoff'[t] = [handoff[t] EXCEPT !.status = "CANCELLED"]
      /\ \A u \in Ticket \ {t} : handoff'[u] = handoff[u]
      /\ UNCHANGED <<now, ctx, preview, claim, prepare, sign, signatures>>
  BY DEF Cancel, Active, HandoffTypeOK
<1>2. /\ handoff'[t] \in Row /\ handoff'[t].status = "CANCELLED"
      /\ handoff'[t].nonce = handoff[t].nonce /\ handoff'[t].context = handoff[t].context
  BY <1>1 DEF Row
<1>3. HandoffTypeOK'
  <2>1. handoff' = [handoff EXCEPT ![t] = handoff'[t]]
    BY <1>1 DEF Cancel, HandoffTypeOK
  <2> QED BY <1>1, <1>2, <2>1 DEF HandoffTypeOK
<1>4. \A u \in Ticket : /\ Exists(u)' = Exists(u) /\ handoff'[u].nonce = handoff[u].nonce
                        /\ handoff'[u].context = handoff[u].context
  BY <1>1, <1>2 DEF Exists
<1>5. ContextsLinked' /\ NoncesDiffer' /\ PrepareBound' /\ ClaimBound'
  BY <1>1, <1>4, HandoffAssumption
     DEF ContextsLinked, NoncesDiffer, PrepareBound, ClaimBound, HandoffTypeOK, ContextState
<1>6. SignBound' /\ OnlyOnePast'
  BY <1>1, <1>4 DEF SignBound, TicketOf, OnlyOnePast, Past, HandoffTypeOK, ContextState
<1>7. UnspentUnsigned'
  BY <1>1 DEF UnspentUnsigned, Unspent, HandoffTypeOK, ContextState
<1>8. ReservedKept'
  <2>1. \A s \in Signer : Holds(s)' => Holds(s)
    BY <1>1 DEF Holds, TicketOf, SignBound, HandoffTypeOK, ContextState
  <2> QED BY <1>1, <2>1 DEF ReservedKept, Consumable, Stored, Previewed
<1> QED BY <1>3, <1>5, <1>6, <1>7, <1>8

-------------------------------------------------------------------------------
(* Prepare calls.                                                          *)

\* A prepare call moves on and touches nothing else.
LEMMA PrepareMoves ==
  ASSUME HandoffInv, NEW p \in Preparer, NEW v \in PrepareState,
         prepare' = [prepare EXCEPT ![p] = v],
         v.stage # "idle" => v.ticket \in Ticket /\ Exists(v.ticket),
         v.stage # "issued",
         UNCHANGED <<now, handoff, ctx, preview, claim, sign, signatures>>
  PROVE  HandoffInv'
<1> USE DEF HandoffInv
<1>1. prepare'[p] = v /\ \A q \in Preparer \ {p} : prepare'[q] = prepare[q]
  BY DEF HandoffTypeOK
<1>2. HandoffTypeOK'
  BY DEF HandoffTypeOK
<1>3. PrepareBound'
  BY <1>1 DEF PrepareBound, Exists
<1>4. ContextsLinked' /\ NoncesDiffer' /\ ClaimBound'
  BY DEF ContextsLinked, NoncesDiffer, ClaimBound, Exists
<1>5. SignBound' /\ OnlyOnePast' /\ UnspentUnsigned'
  BY DEF SignBound, TicketOf, OnlyOnePast, Past, UnspentUnsigned, Unspent
<1>6. ReservedKept'
  BY DEF ReservedKept, Holds, TicketOf, Consumable, Stored, Previewed
<1> QED BY <1>2, <1>3, <1>4, <1>5, <1>6

\* Issuing a context changes no other but the ones that are over.
LEMMA IssuedContexts ==
  ASSUME HandoffTypeOK, NEW x \in Context, NEW t \in Ticket \cup {NoTicket},
         NEW kind \in {"authorization", "revocation"}, ctx' = CtxIssued(x, t, kind)
  PROVE  /\ ctx' \in [Context -> ContextState]
         /\ ctx'[x].stage = "live" /\ ctx'[x].ticket = t
         /\ \A y \in Context \ {x} :
              /\ ctx'[y].ticket = ctx[y].ticket /\ ctx'[y].kind = ctx[y].kind
              /\ ctx'[y].expiresAt = ctx[y].expiresAt
              /\ ctx[y].stage = "unused" <=> ctx'[y].stage = "unused"
              /\ ctx[y].stage = "gone" => ctx'[y].stage = "gone"
              /\ ctx[y].expiresAt > now => ctx'[y].stage = ctx[y].stage
<1>1. \A y \in Context : ctx[y] \in ContextState
  BY DEF HandoffTypeOK
<1>2. now + ContextTtl \in Nat /\ now \in Nat
  BY HandoffAssumption DEF HandoffTypeOK
<1>3. [stage |-> "live", ticket |-> t, kind |-> kind, expiresAt |-> now + ContextTtl]
        \in ContextState
  BY <1>2 DEF ContextState
<1>4. \A y \in Context : [ctx[y] EXCEPT !.stage = "gone"] \in ContextState
  BY <1>1 DEF ContextState
<1>5. ctx' \in [Context -> ContextState]
  BY <1>1, <1>3, <1>4 DEF CtxIssued
<1>6. ctx'[x].stage = "live" /\ ctx'[x].ticket = t
  BY DEF CtxIssued
<1>7. ASSUME NEW y \in Context \ {x}
      PROVE  /\ ctx'[y].ticket = ctx[y].ticket /\ ctx'[y].kind = ctx[y].kind
             /\ ctx'[y].expiresAt = ctx[y].expiresAt
             /\ ctx[y].stage = "unused" <=> ctx'[y].stage = "unused"
             /\ ctx[y].stage = "gone" => ctx'[y].stage = "gone"
             /\ ctx[y].expiresAt > now => ctx'[y].stage = ctx[y].stage
  <2>1. CASE kind = "authorization" /\ Pruned(y)
    <3>1. ctx'[y] = [ctx[y] EXCEPT !.stage = "gone"]
      BY <2>1 DEF CtxIssued
    <3>2. ctx[y].stage = "live" /\ ~(ctx[y].expiresAt > now)
      BY <1>1, <1>2, <2>1 DEF Pruned, ContextState
    <3> QED BY <1>1, <3>1, <3>2 DEF ContextState
  <2>2. CASE ~(kind = "authorization" /\ Pruned(y))
    BY <2>2 DEF CtxIssued
  <2> QED BY <2>1, <2>2
<1> QED BY <1>5, <1>6, <1>7

LEMMA IssueKeeps ==
  ASSUME HandoffInv, NEW x \in Context, NEW t \in Ticket \cup {NoTicket},
         NEW kind \in {"authorization", "revocation"}, ctx' = CtxIssued(x, t, kind),
         ctx[x].stage = "unused", t # NoTicket => Exists(t) /\ handoff[t].status # "absent",
         UNCHANGED <<now, handoff, preview, claim, sign, signatures>>
  PROVE  /\ ContextsLinked' /\ NoncesDiffer' /\ ClaimBound' /\ SignBound'
         /\ OnlyOnePast' /\ UnspentUnsigned' /\ ReservedKept'
<1> USE DEF HandoffInv
<1>1. /\ ctx'[x].stage = "live" /\ ctx'[x].ticket = t
      /\ \A y \in Context \ {x} :
           /\ ctx'[y].ticket = ctx[y].ticket /\ ctx'[y].kind = ctx[y].kind
           /\ ctx'[y].expiresAt = ctx[y].expiresAt
           /\ ctx[y].stage = "unused" <=> ctx'[y].stage = "unused"
           /\ ctx[y].stage = "gone" => ctx'[y].stage = "gone"
           /\ ctx[y].expiresAt > now => ctx'[y].stage = ctx[y].stage
  BY IssuedContexts
<1>2. /\ ctx[x].ticket = NoTicket /\ signatures[x] = 0
      /\ \A u \in Ticket : handoff[u].context # x
      /\ \A s \in Signer : sign[s].context # x
  BY HandoffAssumption DEF ContextsLinked, SignBound
<1>3. ContextsLinked'
  BY <1>1, <1>2 DEF ContextsLinked, Exists, HandoffTypeOK, Row
<1>4. NoncesDiffer' /\ ClaimBound'
  BY DEF NoncesDiffer, ClaimBound, Exists
<1>5. SignBound' /\ OnlyOnePast'
  BY <1>1, <1>2 DEF SignBound, TicketOf, OnlyOnePast, Past
<1>6. UnspentUnsigned'
  BY <1>1, <1>2 DEF UnspentUnsigned, Unspent
<1>7. ReservedKept'
  <2> SUFFICES ASSUME NEW s \in Signer, Holds(s)',
                      ctx'[sign[s].context].expiresAt > now,
                      \A q \in sign[s].previews : q.expiresAt > now
               PROVE  Consumable(sign[s].context, sign[s].previews)'
    BY DEF ReservedKept
  <2>1. sign[s].context \in Context \ {x}
    BY <1>2 DEF SignBound, Holds
  <2>2. Holds(s)
    BY <1>1, <2>1 DEF Holds, TicketOf
  <2>3. Consumable(sign[s].context, sign[s].previews)
    BY <1>1, <2>1, <2>2 DEF ReservedKept
  <2> QED BY <1>1, <2>1, <2>3 DEF Consumable, Stored, Previewed
<1> QED BY <1>3, <1>4, <1>5, <1>6, <1>7

LEMMA PrepareIssueInv ==
  ASSUME HandoffInv, NEW p \in Preparer, NEW x \in Context, PrepareIssue(p, x)
  PROVE  HandoffInv'
<1> USE DEF HandoffInv
<1>1. PICK t \in Ticket : t = prepare[p].ticket
  BY DEF PrepareIssue, PrepareBound
<1>2. PICK kind \in {"authorization", "revocation"} : kind = handoff[t].kind
  BY DEF HandoffTypeOK, Row
<1>3. Exists(t) /\ ctx' = CtxIssued(x, t, kind) /\ ctx[x].stage = "unused"
  BY <1>1, <1>2 DEF PrepareIssue, PrepareBound
<1>4. /\ ContextsLinked' /\ NoncesDiffer' /\ ClaimBound' /\ SignBound'
      /\ OnlyOnePast' /\ UnspentUnsigned' /\ ReservedKept'
  BY <1>3, IssueKeeps DEF PrepareIssue, Exists
<1>5. /\ ctx' \in [Context -> ContextState] /\ ctx'[x].ticket = t
      /\ \A y \in Context \ {x} : ctx'[y].ticket = ctx[y].ticket
  BY <1>3, IssuedContexts
<1>6. /\ prepare[p] \in PrepareState
      /\ prepare' = [prepare EXCEPT ![p] = [prepare[p] EXCEPT !.stage = "issued", !.context = x]]
  BY DEF PrepareIssue, HandoffTypeOK
<1>7. /\ prepare'[p].stage = "issued" /\ prepare'[p].context = x /\ prepare'[p].ticket = t
      /\ prepare'[p] \in PrepareState
      /\ \A q \in Preparer \ {p} : prepare'[q] = prepare[q]
  BY <1>1, <1>6 DEF HandoffTypeOK, PrepareState
<1>8. HandoffTypeOK'
  BY <1>5, <1>6, <1>7 DEF HandoffTypeOK, PrepareIssue
<1>9. PrepareBound'
  <2>1. ASSUME NEW q \in Preparer \ {p}, prepare[q].stage = "issued"
        PROVE  prepare[q].context \in Context \ {x}
    BY <2>1, <1>3, HandoffAssumption DEF PrepareBound, ContextsLinked
  <2>2. UNCHANGED handoff
    BY DEF PrepareIssue
  <2>3. ASSUME NEW q \in Preparer \ {p}
        PROVE  /\ prepare'[q].stage # "idle" => prepare'[q].ticket \in Ticket /\ Exists(prepare[q].ticket)'
               /\ prepare'[q].stage = "issued" =>
                    /\ prepare'[q].context \in Context
                    /\ ctx'[prepare'[q].context].ticket = prepare'[q].ticket
    <3>1. /\ prepare'[q] = prepare[q]
          /\ prepare[q].stage # "idle" => prepare[q].ticket \in Ticket /\ Exists(prepare[q].ticket)
          /\ prepare[q].stage = "issued" => ctx[prepare[q].context].ticket = prepare[q].ticket
      BY <1>7 DEF PrepareBound
    <3> QED BY <1>5, <2>1, <2>2, <3>1 DEF Exists
  <2>4. Exists(t)'
    BY <1>3, <2>2 DEF Exists
  <2>5. prepare'[p].ticket \in Ticket /\ Exists(prepare[p].ticket)'
    BY <1>7, <2>4
  <2>6. prepare'[p].context \in Context /\ ctx'[prepare'[p].context].ticket = prepare'[p].ticket
    BY <1>5, <1>7
  <2> QED BY <2>3, <2>5, <2>6 DEF PrepareBound
<1> QED BY <1>4, <1>8, <1>9

LEMMA PrepareDirectInv ==
  ASSUME HandoffInv, NEW x \in Context, PrepareDirect(x)
  PROVE  HandoffInv'
<1> USE DEF HandoffInv
<1>1. /\ ctx[x].stage = "unused" /\ ctx' = CtxIssued(x, NoTicket, "authorization")
      /\ UNCHANGED <<now, handoff, preview, claim, prepare, sign, signatures>>
  BY DEF PrepareDirect
<1>2. /\ ContextsLinked' /\ NoncesDiffer' /\ ClaimBound' /\ SignBound'
      /\ OnlyOnePast' /\ UnspentUnsigned' /\ ReservedKept'
  BY <1>1, IssueKeeps
<1>3. /\ ctx' \in [Context -> ContextState]
      /\ \A y \in Context \ {x} : ctx'[y].ticket = ctx[y].ticket
  BY <1>1, IssuedContexts
<1>4. HandoffTypeOK'
  BY <1>1, <1>3 DEF HandoffTypeOK
<1>5. PrepareBound'
  <2>1. ASSUME NEW q \in Preparer, prepare[q].stage = "issued"
        PROVE  prepare[q].context \in Context \ {x}
    BY <2>1, <1>1, HandoffAssumption DEF PrepareBound, ContextsLinked
  <2> QED BY <1>1, <1>3, <2>1 DEF PrepareBound, Exists
<1> QED BY <1>2, <1>4, <1>5

LEMMA BindInv ==
  ASSUME HandoffInv, NEW p \in Preparer, PrepareBind(p)
  PROVE  HandoffInv'
<1> USE DEF HandoffInv
<1>1. PICK t \in Ticket : t = prepare[p].ticket
  BY DEF PrepareBind, PrepareBound
<1>2. PICK x \in Context : x = prepare[p].context
  BY DEF PrepareBind, PrepareBound
<1>3. /\ ctx[x].ticket = t /\ x # NoContext
      /\ handoff[t].status = "PENDING" /\ handoff[t].context = NoContext
  BY <1>1, <1>2, HandoffAssumption DEF PrepareBind, PrepareBound, MayBind, Active
<1>4. /\ handoff'[t] = [handoff[t] EXCEPT !.context = x] /\ handoff[t] \in Row
      /\ \A u \in Ticket \ {t} : handoff'[u] = handoff[u]
      /\ UNCHANGED <<now, ctx, preview, claim, sign, signatures>>
  BY <1>1, <1>2 DEF PrepareBind, HandoffTypeOK
<1>5. /\ handoff'[t] \in Row /\ handoff'[t].context = x
      /\ \A u \in Ticket : /\ handoff'[u].status = handoff[u].status
                           /\ handoff'[u].nonce = handoff[u].nonce
  BY <1>4 DEF Row
<1>6. HandoffTypeOK'
  <2>1. handoff' = [handoff EXCEPT ![t] = handoff'[t]]
    BY <1>1, <1>4 DEF PrepareBind, HandoffTypeOK
  <2>2. IdlePrepare \in PrepareState
    BY DEF IdlePrepare, PrepareState
  <2> QED BY <1>4, <1>5, <2>1, <2>2 DEF HandoffTypeOK, PrepareBind
<1>7. ContextsLinked' /\ NoncesDiffer' /\ ClaimBound'
  <2>1. \A y \in Context : signatures[y] > 0 => ctx[y].ticket # t
    BY <1>3, HandoffAssumption DEF ContextsLinked
  <2>2. ContextsLinked'
    <3>1. \A u \in Ticket : Exists(u)' = Exists(u)
      BY <1>5 DEF Exists
    <3>2. \A u \in Ticket \ {t} : handoff'[u].context = handoff[u].context
      BY <1>4
    <3>3. Exists(t)
      BY <1>3 DEF Exists
    <3>4. \A y \in Context : ctx[y].ticket \in Ticket \cup {NoTicket}
      BY DEF HandoffTypeOK, ContextState
    <3>5. UNCHANGED <<ctx, signatures>>
      BY <1>4
    <3>6. \A y \in Context : ctx[y].ticket # NoTicket => Exists(ctx[y].ticket)'
      <4> SUFFICES ASSUME NEW y \in Context, ctx[y].ticket # NoTicket
                   PROVE  Exists(ctx[y].ticket)'
        OBVIOUS
      <4>1. PICK u \in Ticket : u = ctx[y].ticket
        BY <3>4
      <4>2. Exists(u)
        BY <4>1 DEF ContextsLinked
      <4> QED BY <1>4, <3>1, <4>1, <4>2
    <3>7. \A y \in Context : signatures[y] > 0 /\ ctx[y].ticket # NoTicket =>
            handoff'[ctx[y].ticket].context = y
      BY <2>1, <3>2, <3>4 DEF ContextsLinked
    <3>8. \A u \in Ticket : handoff'[u].context # NoContext =>
            ctx[handoff'[u].context].ticket = u /\ Exists(u)'
      BY <1>3, <1>5, <3>1, <3>2, <3>3 DEF ContextsLinked
    <3> QED BY <3>5, <3>6, <3>7, <3>8 DEF ContextsLinked
  <2> QED BY <1>4, <1>5, <2>2 DEF NoncesDiffer, ClaimBound, Exists
<1>8. PrepareBound'
  BY <1>4, <1>5 DEF PrepareBind, PrepareBound, Exists, IdlePrepare, HandoffTypeOK
<1>9. SignBound'
  <2>1. \A s \in Signer : sign[s].stage # "idle" => TicketOf(s) # t
    BY <1>1, <1>3, HandoffAssumption DEF SignBound
  <2> QED BY <1>4, <2>1 DEF SignBound, TicketOf, HandoffTypeOK, ContextState
<1>10. OnlyOnePast' /\ UnspentUnsigned'
  BY <1>4, <1>5 DEF OnlyOnePast, Past, UnspentUnsigned, Unspent, HandoffTypeOK, ContextState
<1>11. ReservedKept'
  <2>1. \A s \in Signer : Holds(s)' => Holds(s)
    BY <1>4, <1>5 DEF Holds, TicketOf, SignBound, HandoffTypeOK, ContextState
  <2> QED BY <1>4, <2>1 DEF ReservedKept, Consumable, Stored, Previewed
<1> QED BY <1>6, <1>7, <1>8, <1>9, <1>10, <1>11

-------------------------------------------------------------------------------
(* Previews and signing calls.                                             *)

LEMMA PreviewInv ==
  ASSUME HandoffInv, NEW x \in Context, PreviewBytes(x)
  PROVE  HandoffInv'
<1> USE DEF HandoffInv
<1>1. PICK b \in Bytes :
        preview' = [preview EXCEPT ![x] = @ \cup {[bytes |-> b, expiresAt |-> now + PreviewTtl]}]
  BY DEF PreviewBytes
<1>2. UNCHANGED <<now, handoff, ctx, claim, prepare, sign, signatures>>
  BY DEF PreviewBytes
<1>3. [bytes |-> b, expiresAt |-> now + PreviewTtl] \in Preview
  BY HandoffAssumption DEF Preview, HandoffTypeOK
<1>4. HandoffTypeOK'
  BY <1>1, <1>2, <1>3 DEF HandoffTypeOK
<1>5. \A y \in Context : preview[y] \subseteq preview'[y]
  BY <1>1 DEF HandoffTypeOK
<1>6. ContextsLinked' /\ NoncesDiffer' /\ PrepareBound' /\ ClaimBound'
  BY <1>2 DEF ContextsLinked, NoncesDiffer, PrepareBound, ClaimBound, Exists
<1>7. SignBound' /\ OnlyOnePast' /\ UnspentUnsigned'
  BY <1>2 DEF SignBound, TicketOf, OnlyOnePast, Past, UnspentUnsigned, Unspent
<1>8. ReservedKept'
  <2>1. \A s \in Signer : Holds(s)' => Holds(s) /\ sign[s].context \in Context
    BY <1>2 DEF Holds, TicketOf, SignBound
  <2> QED BY <1>2, <1>5, <2>1 DEF ReservedKept, Consumable, Stored, Previewed
<1> QED BY <1>4, <1>6, <1>7, <1>8

\* A call gets to a stage that does not sign, on a context it may be on.
LEMMA SignMoves ==
  ASSUME HandoffInv, NEW s \in Signer, NEW v \in SignState,
         sign' = [sign EXCEPT ![s] = v],
         v.stage \in {"idle", "checked"},
         v.stage = "idle" => v.context = NoContext,
         v.stage = "checked" =>
           /\ v.context \in Context /\ ctx[v.context].stage # "unused"
           /\ ctx[v.context].ticket # NoTicket
           /\ handoff[ctx[v.context].ticket].context = v.context
           /\ ctx[v.context].kind = "authorization" => Consumable(v.context, v.previews),
         UNCHANGED <<now, handoff, ctx, preview, claim, prepare, signatures>>
  PROVE  HandoffInv'
<1> USE DEF HandoffInv
<1>1. sign'[s] = v /\ \A r \in Signer \ {s} : sign'[r] = sign[r]
  BY DEF HandoffTypeOK
<1>2. HandoffTypeOK'
  BY DEF HandoffTypeOK
<1>3. ContextsLinked' /\ NoncesDiffer' /\ PrepareBound' /\ ClaimBound'
  BY DEF ContextsLinked, NoncesDiffer, PrepareBound, ClaimBound, Exists
<1>4. SignBound'
  BY <1>1 DEF SignBound, TicketOf
<1>5. OnlyOnePast'
  BY <1>1 DEF OnlyOnePast, Past
<1>6. UnspentUnsigned'
  BY <1>1, HandoffAssumption DEF UnspentUnsigned, Unspent
<1>7. ReservedKept'
  <2>1. \A r \in Signer \ {s} : Holds(r)' => Holds(r)
    BY <1>1 DEF Holds, TicketOf
  <2>2. Holds(s)' => Consumable(v.context, v.previews)
    BY <1>1 DEF Holds
  <2> QED BY <1>1, <2>1, <2>2 DEF ReservedKept, Consumable, Stored, Previewed
<1> QED BY <1>2, <1>3, <1>4, <1>5, <1>6, <1>7

\* What the deletion of a context and its previews leaves.
LEMMA Deleted ==
  ASSUME HandoffTypeOK, NEW x \in Context, NEW P \in SUBSET Preview,
         ctx' = CtxConsumed(x), preview' = PreviewsConsumed(x, P)
  PROVE  /\ ctx' \in [Context -> ContextState] /\ preview' \in [Context -> SUBSET Preview]
         /\ ctx'[x].stage = "gone"
         /\ \A y \in Context : /\ ctx'[y].ticket = ctx[y].ticket /\ ctx'[y].kind = ctx[y].kind
                                /\ ctx'[y].expiresAt = ctx[y].expiresAt
         /\ \A y \in Context \ {x} : ctx'[y] = ctx[y] /\ preview'[y] = preview[y]
<1>1. \A y \in Context : ctx[y] \in ContextState
  BY DEF HandoffTypeOK
<1>2. /\ ctx'[x] = [ctx[x] EXCEPT !.stage = "gone"]
      /\ \A y \in Context \ {x} : ctx'[y] = ctx[y]
  BY DEF CtxConsumed, HandoffTypeOK
<1>3. [ctx[x] EXCEPT !.stage = "gone"] \in ContextState
  BY <1>1 DEF ContextState
<1>4. ctx' \in [Context -> ContextState]
  BY <1>3 DEF CtxConsumed, HandoffTypeOK
<1>5. /\ preview' \in [Context -> SUBSET Preview]
      /\ \A y \in Context \ {x} : preview'[y] = preview[y]
  BY DEF PreviewsConsumed, HandoffTypeOK
<1> QED BY <1>1, <1>2, <1>4, <1>5 DEF ContextState

\* A call deletes a context that only it may still sign over.
LEMMA DeleteInv ==
  ASSUME HandoffInv, NEW s \in Signer, NEW x \in Context, NEW P \in SUBSET Preview,
         ctx' = CtxConsumed(x), preview' = PreviewsConsumed(x, P),
         sign' = [sign EXCEPT ![s] = [stage |-> "claimed", context |-> x, previews |-> P]],
         ctx[x].stage # "unused", signatures[x] = 0,
         ctx[x].ticket # NoTicket => /\ handoff[ctx[x].ticket].status = "CONSUMED"
                                     /\ handoff[ctx[x].ticket].context = x,
         \A r \in Signer \ {s} : sign[r].context = x => ~Past(r),
         UNCHANGED <<now, handoff, claim, prepare, signatures>>
  PROVE  HandoffInv'
<1> USE DEF HandoffInv
<1>1. /\ ctx' \in [Context -> ContextState] /\ preview' \in [Context -> SUBSET Preview]
      /\ ctx'[x].stage = "gone"
      /\ \A y \in Context : /\ ctx'[y].ticket = ctx[y].ticket /\ ctx'[y].kind = ctx[y].kind
                             /\ ctx'[y].expiresAt = ctx[y].expiresAt
      /\ \A y \in Context \ {x} : ctx'[y] = ctx[y] /\ preview'[y] = preview[y]
  BY Deleted
<1>2. [stage |-> "claimed", context |-> x, previews |-> P] \in SignState
  BY DEF SignState
<1>3. /\ sign'[s].stage = "claimed" /\ sign'[s].context = x
      /\ \A r \in Signer \ {s} : sign'[r] = sign[r]
  BY DEF HandoffTypeOK
<1>4. HandoffTypeOK'
  BY <1>1, <1>2 DEF HandoffTypeOK
<1>5. ContextsLinked' /\ NoncesDiffer' /\ PrepareBound' /\ ClaimBound'
  <2>1. \A y \in Context : ctx'[y].stage = "unused" => ctx[y].stage = "unused"
    BY <1>1
  <2>2. \A y \in Context : ctx[y].stage # "unused" => ctx'[y].stage # "unused"
    BY <1>1
  <2>3. \A t \in Ticket : handoff[t].context # NoContext => handoff[t].context \in Context
    BY DEF HandoffTypeOK, Row
  <2> QED BY <1>1, <2>1, <2>2, <2>3
          DEF ContextsLinked, NoncesDiffer, PrepareBound, ClaimBound, Exists
<1>6. SignBound'
  BY <1>1, <1>3 DEF SignBound, TicketOf
<1>7. OnlyOnePast'
  BY <1>3 DEF OnlyOnePast, Past
<1>8. UnspentUnsigned'
  <2>1. ~Unspent(x)'
    BY <1>1 DEF Unspent
  <2>2. \A y \in Context \ {x} : Unspent(y)' => Unspent(y)
    BY <1>1 DEF Unspent
  <2> QED BY <1>3, <2>1, <2>2 DEF UnspentUnsigned
<1>9. ReservedKept'
  <2> SUFFICES ASSUME NEW r \in Signer, Holds(r)',
                      ctx'[sign'[r].context].expiresAt > now,
                      \A q \in sign'[r].previews : q.expiresAt > now
               PROVE  Consumable(sign[r].context, sign[r].previews)'
    BY DEF ReservedKept
  <2>1. r # s /\ sign'[r] = sign[r] /\ sign[r].stage \in {"checked", "reserved"}
    BY <1>3 DEF Holds
  <2>2. sign[r].context \in Context \ {x}
    <3>1. sign[r].context \in Context /\ ctx[sign[r].context].ticket # NoTicket
      BY <2>1 DEF SignBound, TicketOf
    <3>2. CASE sign[r].stage = "reserved"
      BY <2>1, <3>1, <3>2 DEF Past
    <3>3. CASE sign[r].stage = "checked"
      BY <1>1, <2>1, <3>1, <3>3 DEF Holds, TicketOf
    <3> QED BY <2>1, <3>2, <3>3
  <2>3. Holds(r)
    BY <1>1, <2>1, <2>2 DEF Holds, TicketOf
  <2>4. Consumable(sign[r].context, sign[r].previews)
    BY <1>1, <2>1, <2>2, <2>3 DEF ReservedKept
  <2> QED BY <1>1, <2>1, <2>2, <2>4 DEF Consumable, Stored, Previewed
<1> QED BY <1>4, <1>5, <1>6, <1>7, <1>8, <1>9

LEMMA SignDirectInv ==
  ASSUME HandoffInv, NEW s \in Signer, NEW x \in Context, SignDirect(s, x)
  PROVE  HandoffInv'
<1> USE DEF HandoffInv
<1>1. PICK q \in Previewed(x) :
        /\ sign' = [sign EXCEPT ![s] = [stage |-> "claimed", context |-> x, previews |-> {q}]]
        /\ preview' = PreviewsConsumed(x, {q})
  BY DEF SignDirect
<1>2. {q} \in SUBSET Preview
  BY DEF Previewed, HandoffTypeOK
<1>3. ctx[x].stage = "live" /\ ctx[x].ticket = NoTicket /\ ctx' = CtxConsumed(x)
  BY DEF SignDirect, Stored, Direct
<1>4. signatures[x] = 0 /\ \A r \in Signer : sign[r].context = x => ~Past(r)
  BY <1>3 DEF UnspentUnsigned, Unspent, Past
<1> QED BY <1>1, <1>2, <1>3, <1>4, DeleteInv DEF SignDirect

LEMMA ConsumeInv ==
  ASSUME HandoffInv, NEW s \in Signer, Consume(s)
  PROVE  HandoffInv'
<1> USE DEF HandoffInv
<1>1. PICK x \in Context : x = sign[s].context
  BY DEF Consume, SignBound
<1>2. PICK P \in SUBSET Preview : P = sign[s].previews
  BY DEF HandoffTypeOK, SignState
<1>3. /\ sign[s].stage = "reserved" /\ ctx[x].ticket # NoTicket /\ ctx[x].stage # "unused"
      /\ handoff[ctx[x].ticket].context = x
  BY <1>1 DEF Consume, SignBound, TicketOf
<1>4. handoff[ctx[x].ticket].status = "CONSUMED"
  BY <1>1, <1>3 DEF UnspentUnsigned, Unspent
<1>5. signatures[x] = 0 /\ \A r \in Signer \ {s} : sign[r].context = x => ~Past(r)
  BY <1>1, <1>3 DEF OnlyOnePast, Past
<1>6. sign' = [sign EXCEPT ![s] = [stage |-> "claimed", context |-> x, previews |-> P]]
  <2>1. sign[s] \in SignState /\ sign' = [sign EXCEPT ![s] = [sign[s] EXCEPT !.stage = "claimed"]]
    BY DEF HandoffTypeOK, Consume
  <2>2. [sign[s] EXCEPT !.stage = "claimed"] = [stage |-> "claimed", context |-> x, previews |-> P]
    BY <1>1, <1>2, <2>1 DEF SignState
  <2> QED BY <2>1, <2>2
<1>7. ctx' = CtxConsumed(x) /\ preview' = PreviewsConsumed(x, P)
  BY <1>1, <1>2 DEF Consume
<1>8. UNCHANGED <<now, handoff, claim, prepare, signatures>>
  BY DEF Consume
<1> QED BY <1>3, <1>4, <1>5, <1>6, <1>7, <1>8, DeleteInv

LEMMA ReserveInv ==
  ASSUME HandoffInv, NEW s \in Signer, Reserve(s)
  PROVE  HandoffInv'
<1> USE DEF HandoffInv
<1>1. PICK x \in Context : x = sign[s].context
  BY DEF Reserve, SignBound
<1>2. PICK t \in Ticket : t = ctx[x].ticket
  BY <1>1 DEF Reserve, SignBound, TicketOf, HandoffTypeOK, ContextState
<1>3. /\ sign[s].stage = "checked" /\ handoff[t].status = "PENDING" /\ handoff[t].context = x
      /\ t # NoTicket
  BY <1>1, <1>2, HandoffAssumption DEF Reserve, MayReserve, Active, TicketOf
<1>4. /\ handoff'[t] = [handoff[t] EXCEPT !.status = "CONSUMED"] /\ handoff[t] \in Row
      /\ \A u \in Ticket \ {t} : handoff'[u] = handoff[u]
      /\ UNCHANGED <<now, ctx, preview, claim, prepare, signatures>>
  BY <1>1, <1>2 DEF Reserve, TicketOf, HandoffTypeOK
<1>5. /\ handoff'[t] \in Row /\ handoff'[t].status = "CONSUMED"
      /\ \A u \in Ticket : /\ Exists(u)' = Exists(u) /\ handoff'[u].nonce = handoff[u].nonce
                            /\ handoff'[u].context = handoff[u].context
  BY <1>3, <1>4 DEF Row, Exists
<1>6. PICK v \in SignState : /\ sign' = [sign EXCEPT ![s] = v]
                             /\ v.stage \in {"reserved", "claimed"} /\ v.context = x
                             /\ v.stage = "reserved" => ctx[x].kind # "revocation"
                             /\ v.previews = sign[s].previews
  <2>1. sign[s] \in SignState
    BY DEF HandoffTypeOK
  <2>2. CASE ctx[x].kind = "revocation"
    <3>1. sign' = [sign EXCEPT ![s] = [sign[s] EXCEPT !.stage = "claimed"]]
      BY <1>1, <2>2 DEF Reserve, HandoffTypeOK
    <3>2. [sign[s] EXCEPT !.stage = "claimed"] \in SignState
      BY <2>1 DEF SignState
    <3> QED BY <1>1, <2>1, <3>1, <3>2 DEF SignState
  <2>3. CASE ctx[x].kind # "revocation"
    <3>1. sign' = [sign EXCEPT ![s] = [sign[s] EXCEPT !.stage = "reserved"]]
      BY <1>1, <2>3 DEF Reserve, HandoffTypeOK
    <3>2. [sign[s] EXCEPT !.stage = "reserved"] \in SignState
      BY <2>1 DEF SignState
    <3> QED BY <1>1, <2>1, <2>3, <3>1, <3>2 DEF SignState
  <2> QED BY <2>2, <2>3
<1>7. sign'[s] = v /\ \A r \in Signer \ {s} : sign'[r] = sign[r]
  BY <1>6 DEF HandoffTypeOK
<1>8. HandoffTypeOK'
  <2>1. handoff' = [handoff EXCEPT ![t] = handoff'[t]]
    BY <1>1, <1>2, <1>4 DEF Reserve, TicketOf, HandoffTypeOK
  <2> QED BY <1>4, <1>5, <1>6, <2>1 DEF HandoffTypeOK
<1>9. ContextsLinked' /\ NoncesDiffer' /\ PrepareBound' /\ ClaimBound'
  <2>1. \A y \in Context : ctx[y].ticket \in Ticket \cup {NoTicket}
    BY DEF HandoffTypeOK, ContextState
  <2>2. ContextsLinked'
    BY <1>4, <1>5, <2>1 DEF ContextsLinked
  <2> QED BY <1>4, <1>5, <2>2 DEF NoncesDiffer, PrepareBound, ClaimBound
<1>10. SignBound'
  BY <1>1, <1>2, <1>3, <1>4, <1>5, <1>6, <1>7
     DEF SignBound, TicketOf, HandoffTypeOK, ContextState
<1>11. signatures[x] = 0 /\ \A r \in Signer : sign[r].context = x => sign[r].stage = "checked"
  BY <1>2, <1>3 DEF UnspentUnsigned, Unspent
<1>12. OnlyOnePast'
  BY <1>4, <1>6, <1>7, <1>11 DEF OnlyOnePast, Past
<1>13. UnspentUnsigned'
  <2>1. ~Unspent(x)'
    BY <1>2, <1>3, <1>4, <1>5 DEF Unspent
  <2>2. \A y \in Context \ {x} : Unspent(y)' => Unspent(y)
    BY <1>3, <1>4, <1>5 DEF Unspent, HandoffTypeOK, ContextState
  <2> QED BY <1>4, <1>6, <1>7, <2>1, <2>2 DEF UnspentUnsigned
<1>14. ReservedKept'
  <2>1. \A r \in Signer \ {s} : Holds(r)' => Holds(r)
    <3> SUFFICES ASSUME NEW r \in Signer \ {s}, Holds(r)' PROVE Holds(r)
      OBVIOUS
    <3>1. CASE sign[r].stage = "reserved"
      BY <3>1 DEF Holds
    <3>2. CASE sign[r].stage # "reserved"
      <4>1. /\ sign[r].stage = "checked" /\ ctx[sign[r].context].kind = "authorization"
            /\ handoff'[TicketOf(r)].status = "PENDING"
        BY <1>4, <1>7, <3>2 DEF Holds, TicketOf
      <4>2. PICK u \in Ticket : u = TicketOf(r)
        BY <4>1 DEF SignBound, TicketOf, HandoffTypeOK, ContextState
      <4>3. handoff[u].status = "PENDING"
        BY <1>4, <1>5, <4>1, <4>2
      <4> QED BY <4>1, <4>2, <4>3 DEF Holds
    <3> QED BY <3>1, <3>2
  <2>2. Holds(s)' => Holds(s)
    <3>1. ctx[x].kind \in {"authorization", "revocation"}
      BY DEF HandoffTypeOK, ContextState
    <3> QED BY <1>1, <1>2, <1>3, <1>6, <1>7, <3>1 DEF Holds, TicketOf
  <2> QED BY <1>1, <1>4, <1>6, <1>7, <2>1, <2>2 DEF ReservedKept, Consumable, Stored, Previewed
<1> QED BY <1>8, <1>9, <1>10, <1>12, <1>13, <1>14
\* A signature is made by the only call past the reservation.
LEMMA SignBytesInv ==
  ASSUME HandoffInv, NEW s \in Signer, SignBytes(s)
  PROVE  HandoffInv'
<1> USE DEF HandoffInv
<1>1. PICK x \in Context : x = sign[s].context
  BY DEF SignBytes, SignBound
<1>2. Past(s) /\ signatures[x] = 0
  BY <1>1 DEF SignBytes, Past, OnlyOnePast
<1>3. /\ signatures'[x] = 1 /\ \A y \in Context \ {x} : signatures'[y] = signatures[y]
      /\ signatures' \in [Context -> Nat]
  BY <1>1, <1>2 DEF SignBytes, HandoffTypeOK
<1>4. PICK v \in SignState : sign' = [sign EXCEPT ![s] = v] /\ v.stage = "signed" /\ v.context = x
  <2>1. sign[s] \in SignState /\ sign' = [sign EXCEPT ![s] = [sign[s] EXCEPT !.stage = "signed"]]
    BY DEF SignBytes, HandoffTypeOK
  <2>2. [sign[s] EXCEPT !.stage = "signed"] \in SignState
    BY <2>1 DEF SignState
  <2> QED BY <1>1, <2>1, <2>2 DEF SignState
<1>5. sign'[s] = v /\ \A r \in Signer \ {s} : sign'[r] = sign[r]
  BY <1>4 DEF HandoffTypeOK
<1>6. UNCHANGED <<now, handoff, ctx, preview, claim, prepare>>
  BY DEF SignBytes
<1>7. HandoffTypeOK'
  BY <1>3, <1>4, <1>6 DEF HandoffTypeOK
<1>8. ~Unspent(x)
  BY <1>1 DEF SignBytes, UnspentUnsigned
<1>9. ContextsLinked' /\ NoncesDiffer' /\ PrepareBound' /\ ClaimBound'
  <2>1. ctx[x].stage # "unused" /\ (ctx[x].ticket # NoTicket => handoff[ctx[x].ticket].context = x)
    BY <1>1 DEF SignBytes, SignBound, TicketOf
  <2> QED BY <1>3, <1>6, <2>1 DEF ContextsLinked, NoncesDiffer, PrepareBound, ClaimBound, Exists
<1>10. SignBound'
  BY <1>1, <1>4, <1>5, <1>6 DEF SignBytes, SignBound, TicketOf
<1>11. OnlyOnePast'
  <2>1. \A r \in Signer \ {s} : Past(r) => sign[r].context # x
    BY <1>1, <1>2 DEF OnlyOnePast
  <2>2. \A r \in Signer : Past(r)' => r # s /\ Past(r) /\ sign'[r] = sign[r]
    BY <1>4, <1>5 DEF Past
  <2>3. \A r \in Signer : Past(r) => sign[r].context \in Context
    BY DEF Past, SignBound
  <2> QED BY <1>3, <2>1, <2>2, <2>3 DEF OnlyOnePast
<1>12. UnspentUnsigned'
  BY <1>3, <1>4, <1>5, <1>6, <1>8 DEF UnspentUnsigned, Unspent
<1>13. ReservedKept'
  BY <1>4, <1>5, <1>6 DEF ReservedKept, Holds, TicketOf, Consumable, Stored, Previewed
<1> QED BY <1>7, <1>9, <1>10, <1>11, <1>12, <1>13

\* Whatever was in progress ends, and nothing that was spent comes back.
LEMMA RestartInv ==
  ASSUME HandoffInv, Restart
  PROVE  HandoffInv'
<1> USE DEF HandoffInv
<1>1. \A x \in Context : ctx[x] \in ContextState /\ [ctx[x] EXCEPT !.stage = "gone"] \in ContextState
  BY DEF HandoffTypeOK, ContextState
<1>2. ctx' \in [Context -> ContextState]
  BY <1>1 DEF Restart
<1>2a. \A x \in Context : ctx'[x].ticket = ctx[x].ticket
  <2> SUFFICES ASSUME NEW x \in Context PROVE ctx'[x].ticket = ctx[x].ticket
    OBVIOUS
  <2>1. ctx'[x] = ctx[x] \/ ctx'[x] = [ctx[x] EXCEPT !.stage = "gone"]
    BY DEF Restart
  <2> QED BY <1>1, <2>1 DEF ContextState
<1>2b. \A x \in Context : ctx'[x].stage = "unused" => ctx[x].stage = "unused"
  <2> SUFFICES ASSUME NEW x \in Context PROVE ctx'[x].stage = "unused" => ctx[x].stage = "unused"
    OBVIOUS
  <2>1. ctx'[x] = ctx[x] \/ ctx'[x] = [ctx[x] EXCEPT !.stage = "gone"]
    BY DEF Restart
  <2> QED BY <1>1, <2>1 DEF ContextState
<1>2c. \A x \in Context : ctx[x].stage = "unused" => ctx'[x] = ctx[x]
  BY DEF Restart
<1>2d. \A x \in Context : ctx[x].stage = "gone" => ctx'[x] = ctx[x]
  BY DEF Restart
<1>3. /\ UNCHANGED <<now, handoff, signatures>>
      /\ claim' = [k \in Claimer |-> IdleClaim] /\ prepare' = [p \in Preparer |-> IdlePrepare]
      /\ sign' = [s \in Signer |-> IdleSign] /\ preview' = [x \in Context |-> {}]
  BY DEF Restart
<1>4. IdleClaim \in ClaimState /\ IdlePrepare \in PrepareState /\ IdleSign \in SignState
  BY DEF IdleClaim, ClaimState, IdlePrepare, PrepareState, IdleSign, SignState
<1>5. HandoffTypeOK'
  BY <1>2, <1>3, <1>4 DEF HandoffTypeOK
<1>6. ContextsLinked' /\ NoncesDiffer'
  <2>1. \A t \in Ticket : handoff[t].context # NoContext => handoff[t].context \in Context
    BY DEF HandoffTypeOK, Row
  <2>3. UNCHANGED <<handoff, signatures>>
    BY <1>3
  <2>4. \A x \in Context :
          /\ ctx'[x].ticket # NoTicket => ctx'[x].stage # "unused" /\ Exists(ctx[x].ticket)
          /\ ctx'[x].stage = "unused" => signatures[x] = 0
          /\ signatures[x] > 0 /\ ctx'[x].ticket # NoTicket => handoff[ctx'[x].ticket].context = x
    BY <1>2a, <1>2b DEF ContextsLinked
  <2>5. \A t \in Ticket : handoff[t].context # NoContext =>
          ctx'[handoff[t].context].ticket = t /\ Exists(t)
    BY <1>2a, <2>1 DEF ContextsLinked
  <2> QED BY <1>2a, <2>3, <2>4, <2>5 DEF ContextsLinked, NoncesDiffer, Exists
<1>7. PrepareBound' /\ ClaimBound' /\ SignBound'
  BY <1>3 DEF PrepareBound, ClaimBound, SignBound, IdleClaim, IdlePrepare, IdleSign
<1>8. OnlyOnePast'
  BY <1>3 DEF OnlyOnePast, Past, IdleSign
<1>9. UnspentUnsigned'
  <2>1. \A x \in Context : Unspent(x)' => Unspent(x)
    <3> SUFFICES ASSUME NEW x \in Context PROVE Unspent(x)' => Unspent(x)
      OBVIOUS
    <3>1. ctx'[x].ticket = ctx[x].ticket /\ handoff' = handoff
      BY <1>2a, <1>3
    <3>2. ctx[x].stage = "gone" => ctx'[x].stage = "gone"
      BY <1>2d
    <3> QED BY <3>1, <3>2 DEF Unspent
  <2>2. \A x \in Context, s \in Signer : sign'[s].context # x
    BY <1>3, HandoffAssumption DEF IdleSign
  <2> QED BY <1>3, <2>1, <2>2 DEF UnspentUnsigned
<1>10. ReservedKept'
  BY <1>3 DEF ReservedKept, Holds, IdleSign
<1> QED BY <1>5, <1>6, <1>7, <1>8, <1>9, <1>10

LEMMA TickInv ==
  ASSUME HandoffInv, Tick
  PROVE  HandoffInv'
<1> USE DEF HandoffInv
<1>1. now' = now + 1 /\ now \in Nat
      /\ UNCHANGED <<handoff, ctx, preview, claim, prepare, sign, signatures>>
  BY DEF Tick, HandoffTypeOK
<1>2. HandoffTypeOK'
  BY <1>1 DEF HandoffTypeOK
<1>3. ContextsLinked' /\ NoncesDiffer' /\ PrepareBound' /\ ClaimBound'
  BY <1>1 DEF ContextsLinked, NoncesDiffer, PrepareBound, ClaimBound, Exists
<1>4. SignBound' /\ OnlyOnePast' /\ UnspentUnsigned'
  BY <1>1 DEF SignBound, TicketOf, OnlyOnePast, Past, UnspentUnsigned, Unspent
<1>5. ReservedKept'
  <2> SUFFICES ASSUME NEW s \in Signer, Holds(s)',
                      ctx'[sign'[s].context].expiresAt > now',
                      \A q \in sign'[s].previews : q.expiresAt > now'
               PROVE  Consumable(sign[s].context, sign[s].previews)'
    BY DEF ReservedKept
  <2>1. Holds(s) /\ sign[s].context \in Context
    BY <1>1 DEF Holds, TicketOf, SignBound
  <2>2. ctx[sign[s].context].expiresAt \in Nat /\ ctx[sign[s].context].expiresAt > now + 1
    BY <1>1, <2>1 DEF HandoffTypeOK, ContextState
  <2>3. \A q \in sign[s].previews : q.expiresAt \in Nat /\ q.expiresAt > now + 1
    BY <1>1 DEF HandoffTypeOK, SignState, Preview
  <2>4. Consumable(sign[s].context, sign[s].previews)
    BY <1>1, <2>1, <2>2, <2>3 DEF ReservedKept
  <2> QED BY <1>1, <2>2, <2>3, <2>4 DEF Consumable, Stored, Previewed
<1> QED BY <1>2, <1>3, <1>4, <1>5

-------------------------------------------------------------------------------
(* Every step.                                                             *)

LEMMA StepInv == HandoffInv /\ [Next]_vars => HandoffInv'
<1> SUFFICES ASSUME HandoffInv, [Next]_vars PROVE HandoffInv'
  OBVIOUS
<1>t. HandoffTypeOK /\ SignBound /\ PrepareBound /\ now \in Nat
  BY DEF HandoffInv, HandoffTypeOK
<1>i. IdleClaim \in ClaimState /\ IdlePrepare \in PrepareState /\ IdleSign \in SignState
  BY DEF IdleClaim, ClaimState, IdlePrepare, PrepareState, IdleSign, SignState
<1>1. ASSUME NEW k \in Claimer, ClaimBegin(k) PROVE HandoffInv'
  <2>1. PICK t \in Ticket, n \in Nonce, kind \in Kind, ttl \in GrantTtl :
          claim' = [claim EXCEPT ![k] =
            [stage |-> "claiming", at |-> now, ticket |-> t, nonce |-> n, kind |-> kind,
             ttl |-> ttl]]
    BY <1>1 DEF ClaimBegin
  <2>2. [stage |-> "claiming", at |-> now, ticket |-> t, nonce |-> n, kind |-> kind,
         ttl |-> ttl] \in ClaimState
    BY <1>t, HandoffAssumption DEF ClaimState
  <2> QED BY <1>1, <2>1, <2>2, ClaimMoves DEF ClaimBegin
<1>2. ASSUME NEW k \in Claimer, ClaimEnd(k) PROVE HandoffInv'
  BY <1>2, <1>i, ClaimMoves DEF ClaimEnd, IdleClaim
<1>3. ASSUME NEW k \in Claimer, ClaimInsert(k) PROVE HandoffInv'
  BY <1>3, InsertInv
<1>4. ASSUME NEW t \in Ticket, Cancel(t) PROVE HandoffInv'
  BY <1>4, CancelInv
<1>5. ASSUME NEW p \in Preparer, NEW t \in Ticket, PrepareRead(p, t) PROVE HandoffInv'
  <2>1. [IdlePrepare EXCEPT !.stage = "asserted", !.ticket = t] \in PrepareState
    BY DEF IdlePrepare, PrepareState
  <2>2. Exists(t)
    BY <1>5 DEF PrepareRead, Active, Exists
  <2>3. /\ [IdlePrepare EXCEPT !.stage = "asserted", !.ticket = t].stage = "asserted"
        /\ [IdlePrepare EXCEPT !.stage = "asserted", !.ticket = t].ticket = t
    BY DEF IdlePrepare
  <2> QED BY <1>5, <2>1, <2>2, <2>3, PrepareMoves DEF PrepareRead
<1>6. ASSUME NEW p \in Preparer, PrepareFail(p) PROVE HandoffInv'
  BY <1>6, <1>i, PrepareMoves DEF PrepareFail, IdlePrepare
<1>7. ASSUME NEW p \in Preparer, NEW x \in Context, PrepareIssue(p, x) PROVE HandoffInv'
  BY <1>7, PrepareIssueInv
<1>8. ASSUME NEW p \in Preparer, PrepareBind(p) PROVE HandoffInv'
  BY <1>8, BindInv
<1>9. ASSUME NEW x \in Context, PrepareDirect(x) \/ PreviewBytes(x) PROVE HandoffInv'
  BY <1>9, PrepareDirectInv, PreviewInv
<1>10. ASSUME NEW s \in Signer, NEW x \in Context, SignDirect(s, x) PROVE HandoffInv'
  BY <1>10, SignDirectInv
<1>11. ASSUME NEW s \in Signer, NEW x \in Context, SignCheck(s, x) PROVE HandoffInv'
  <2>1. PICK q \in Previewed(x) :
          sign' = [sign EXCEPT ![s] = [stage |-> "checked", context |-> x, previews |-> {q}]]
    BY <1>11 DEF SignCheck
  <2>2. q \in Preview
    BY <1>t DEF Previewed, HandoffTypeOK
  <2>3. [stage |-> "checked", context |-> x, previews |-> {q}] \in SignState
    BY <2>2 DEF SignState
  <2>4. /\ Consumable(x, {q}) /\ ctx[x].stage # "unused" /\ ctx[x].ticket # NoTicket
        /\ handoff[ctx[x].ticket].context = x
    BY <1>11 DEF SignCheck, Consumable, Stored, Bound
  <2> QED BY <1>11, <2>1, <2>3, <2>4, SignMoves DEF SignCheck
<1>12. ASSUME NEW s \in Signer, NEW x \in Context, RevocationCheck(s, x) PROVE HandoffInv'
  <2>1. [stage |-> "checked", context |-> x, previews |-> {}] \in SignState
    BY DEF SignState
  <2> QED BY <1>12, <2>1, SignMoves DEF RevocationCheck, Bound
<1>13. ASSUME NEW s \in Signer, Reserve(s) PROVE HandoffInv'
  BY <1>13, ReserveInv
<1>14. ASSUME NEW s \in Signer, Consume(s) PROVE HandoffInv'
  BY <1>14, ConsumeInv
<1>15. ASSUME NEW s \in Signer, SignBytes(s) PROVE HandoffInv'
  BY <1>15, SignBytesInv
<1>16. ASSUME NEW s \in Signer, Deliver(s) \/ SignFail(s) PROVE HandoffInv'
  BY <1>16, <1>i, SignMoves DEF Deliver, SignFail, IdleSign
<1>17. ASSUME Restart \/ Tick PROVE HandoffInv'
  BY <1>17, RestartInv, TickInv
<1>18. ASSUME UNCHANGED vars PROVE HandoffInv'
  <2>1. HandoffTypeOK'
    BY <1>t, <1>18 DEF vars, HandoffTypeOK
  <2>2. ContextsLinked' /\ NoncesDiffer' /\ PrepareBound' /\ ClaimBound'
    BY <1>18 DEF HandoffInv, vars, ContextsLinked, NoncesDiffer, PrepareBound, ClaimBound, Exists
  <2>3. SignBound' /\ OnlyOnePast' /\ UnspentUnsigned'
    BY <1>18 DEF HandoffInv, vars, SignBound, TicketOf, OnlyOnePast, Past, UnspentUnsigned, Unspent
  <2>4. ReservedKept'
    BY <1>18 DEF HandoffInv, vars, ReservedKept, Holds, TicketOf, Consumable, Stored, Previewed
  <2> QED BY <2>1, <2>2, <2>3, <2>4 DEF HandoffInv
<1> QED
  BY <1>1, <1>2, <1>3, <1>4, <1>5, <1>6, <1>7, <1>8, <1>9, <1>10, <1>11, <1>12, <1>13, <1>14,
     <1>15, <1>16, <1>17, <1>18 DEF Next
-------------------------------------------------------------------------------
(* The limit.                                                              *)

\* The rows a window that begins with a row's claim holds.
Within(a) == {u \in Ticket : /\ Exists(u) /\ handoff[u].requestedAt >= a
                             /\ handoff[u].requestedAt <= a + ClaimWindow}

LimitInv == \A a \in Nat : Cardinality(Within(a)) <= ClaimLimit

\* No row of the table changes the time of its claim, and no row goes away.
LEMMA LimitFrame ==
  ASSUME LimitInv,
         \A t \in Ticket : Exists(t)' = Exists(t) /\ handoff'[t].requestedAt = handoff[t].requestedAt
  PROVE  LimitInv'
<1>1. ASSUME NEW a \in Nat PROVE Within(a)' = Within(a)
  BY DEF Within
<1> QED BY <1>1 DEF LimitInv

\* An admitted claim counted every row of each window its own row lies in.
LEMMA LimitInsert ==
  ASSUME HandoffInv, LimitInv, NEW k \in Claimer, ClaimInsert(k)
  PROVE  LimitInv'
<1> USE DEF HandoffInv
<1>1. PICK t \in Ticket : t = claim[k].ticket
  BY DEF ClaimInsert, ClaimBound
<1>2. PICK at \in Nat : at = claim[k].at
  BY DEF HandoffTypeOK, ClaimState
<1>3. /\ handoff'[t].status = "PENDING" /\ handoff'[t].requestedAt = at
      /\ \A u \in Ticket \ {t} : handoff'[u] = handoff[u]
  BY <1>1, <1>2 DEF ClaimInsert, HandoffTypeOK
<1>4. ~Exists(t) /\ Cardinality(RecentAt(at)) < ClaimLimit
  BY <1>1, <1>2 DEF ClaimInsert, MayClaim, Holding
<1> SUFFICES ASSUME NEW a \in Nat PROVE Cardinality(Within(a)') <= ClaimLimit
  BY DEF LimitInv
<1>5. IsFiniteSet(Within(a)) /\ IsFiniteSet(RecentAt(at))
  BY HandoffAssumption, FS_Subset DEF Within, RecentAt
<1>6. t \notin Within(a)
  BY <1>4 DEF Within
<1>7. CASE a <= at /\ at <= a + ClaimWindow
  <2>1. Within(a) \subseteq RecentAt(at)
    BY <1>7, HandoffAssumption DEF Within, RecentAt, HandoffTypeOK, Row
  <2>2. Cardinality(Within(a)) <= Cardinality(RecentAt(at))
    BY <1>5, <2>1, FS_Subset
  <2>3. Within(a)' = Within(a) \cup {t}
    BY <1>3, <1>7 DEF Within, Exists
  <2>4. Cardinality(Within(a) \cup {t}) = Cardinality(Within(a)) + 1
    BY <1>5, <1>6, FS_AddElement
  <2>5. Cardinality(Within(a)) \in Nat /\ Cardinality(RecentAt(at)) \in Nat
    BY <1>5, FS_CardinalityType
  <2> QED BY <1>4, <2>2, <2>3, <2>4, <2>5, HandoffAssumption
<1>8. CASE ~(a <= at /\ at <= a + ClaimWindow)
  <2>1. Within(a)' = Within(a)
    BY <1>3, <1>4, <1>8 DEF Within, Exists
  <2> QED BY <2>1 DEF LimitInv
<1> QED BY <1>7, <1>8

LEMMA LimitStep == HandoffInv /\ LimitInv /\ [Next]_vars => LimitInv'
<1> SUFFICES ASSUME HandoffInv, LimitInv, [Next]_vars PROVE LimitInv'
  OBVIOUS
<1>t. handoff \in [Ticket -> Row] /\ PrepareBound /\ SignBound
  BY DEF HandoffInv, HandoffTypeOK
<1>1. ASSUME UNCHANGED handoff PROVE LimitInv'
  BY <1>1, LimitFrame DEF Exists
<1>2. ASSUME NEW k \in Claimer, ClaimInsert(k) PROVE LimitInv'
  BY <1>2, LimitInsert
<1>3. ASSUME NEW t \in Ticket, Cancel(t) PROVE LimitInv'
  <2>1. \A u \in Ticket : Exists(u)' = Exists(u) /\ handoff'[u].requestedAt = handoff[u].requestedAt
    BY <1>3, <1>t DEF Cancel, Active, Exists, Row
  <2> QED BY <2>1, LimitFrame
<1>4. ASSUME NEW p \in Preparer, PrepareBind(p) PROVE LimitInv'
  <2>1. \A u \in Ticket : Exists(u)' = Exists(u) /\ handoff'[u].requestedAt = handoff[u].requestedAt
    BY <1>4, <1>t DEF PrepareBind, Exists, Row
  <2> QED BY <2>1, LimitFrame
<1>5. ASSUME NEW s \in Signer, Reserve(s) PROVE LimitInv'
  <2>1. \A u \in Ticket : Exists(u)' = Exists(u) /\ handoff'[u].requestedAt = handoff[u].requestedAt
    BY <1>5, <1>t DEF Reserve, MayReserve, Active, Exists, Row
  <2> QED BY <2>1, LimitFrame
<1>6. ASSUME UNCHANGED handoff PROVE LimitInv'
  BY <1>1, <1>6
<1> QED
  BY <1>2, <1>3, <1>4, <1>5, <1>6 DEF Next, vars, ClaimBegin, ClaimEnd, PrepareRead, PrepareIssue,
     PrepareFail, PrepareDirect, PreviewBytes, SignDirect, SignCheck, RevocationCheck, Consume,
     SignBytes, Deliver, SignFail, Restart, Tick

-------------------------------------------------------------------------------
(* Refinement.                                                             *)

LEMMA SameHandoff ==
  ASSUME \A u \in Ticket : /\ PhaseOf(handoff'[u]) = PhaseOf(handoff[u])
                           /\ ResultOf(handoff'[u]) = ResultOf(handoff[u])
  PROVE  UNCHANGED <<phaseBar, resultBar>>
BY DEF phaseBar, resultBar

LEMMA HandoffStep == HandoffInv /\ [Next]_vars => [Handoff!Next]_<<phaseBar, resultBar>>
<1> SUFFICES ASSUME HandoffInv, [Next]_vars PROVE [Handoff!Next]_<<phaseBar, resultBar>>
  OBVIOUS
<1>r. handoff \in [Ticket -> Row] /\ ClaimBound /\ PrepareBound /\ SignBound
  BY DEF HandoffInv, HandoffTypeOK
<1>1. ASSUME NEW k \in Claimer, ClaimInsert(k) PROVE UNCHANGED <<phaseBar, resultBar>>
  <2>1. PICK t \in Ticket : t = claim[k].ticket
    BY <1>1, <1>r DEF ClaimInsert, ClaimBound
  <2>2. /\ handoff[t].status = "absent" /\ handoff'[t].status = "PENDING"
        /\ \A u \in Ticket \ {t} : handoff'[u] = handoff[u]
    BY <1>1, <1>r, <2>1 DEF ClaimInsert, MayClaim, Holding, Exists
  <2>3. PhaseOf(handoff'[t]) = PhaseOf(handoff[t]) /\ ResultOf(handoff'[t]) = ResultOf(handoff[t])
    BY <2>2 DEF PhaseOf, ResultOf
  <2> QED BY <2>2, <2>3, SameHandoff
<1>2. ASSUME NEW t \in Ticket, Cancel(t) PROVE Handoff!Next
  <2>1. /\ handoff[t].status = "PENDING" /\ handoff'[t].status = "CANCELLED"
        /\ \A u \in Ticket \ {t} : handoff'[u] = handoff[u]
    BY <1>2, <1>r DEF Cancel, Active, Row
  <2>2. /\ PhaseOf(handoff[t]) = "open" /\ PhaseOf(handoff'[t]) = "over"
        /\ ResultOf(handoff[t]) = NoContext /\ ResultOf(handoff'[t]) = NoContext
    BY <2>1 DEF PhaseOf, ResultOf
  <2>3. phaseBar' = [phaseBar EXCEPT ![t] = "over"]
    <3>1. phaseBar' = [u \in Ticket |-> PhaseOf(handoff'[u])]
      BY DEF phaseBar
    <3>2. [phaseBar EXCEPT ![t] = "over"] =
            [u \in Ticket |-> IF u = t THEN "over" ELSE PhaseOf(handoff[u])]
      BY DEF phaseBar
    <3>3. \A u \in Ticket : PhaseOf(handoff'[u]) = IF u = t THEN "over" ELSE PhaseOf(handoff[u])
      BY <2>1, <2>2
    <3> QED BY <3>1, <3>2, <3>3
  <2>4. resultBar' = [resultBar EXCEPT ![t] = NoContext]
    <3>1. resultBar' = [u \in Ticket |-> ResultOf(handoff'[u])]
      BY DEF resultBar
    <3>2. [resultBar EXCEPT ![t] = NoContext] =
            [u \in Ticket |-> IF u = t THEN NoContext ELSE ResultOf(handoff[u])]
      BY DEF resultBar
    <3>3. \A u \in Ticket : ResultOf(handoff'[u]) = IF u = t THEN NoContext ELSE ResultOf(handoff[u])
      BY <2>1, <2>2
    <3> QED BY <3>1, <3>2, <3>3
  <2>5. phaseBar[t] # "over"
    BY <2>2 DEF phaseBar
  <2> QED BY <2>3, <2>4, <2>5 DEF Handoff!Next, Handoff!Close
<1>3. ASSUME NEW p \in Preparer, PrepareBind(p) PROVE UNCHANGED <<phaseBar, resultBar>>
  <2>1. PICK t \in Ticket : t = prepare[p].ticket
    BY <1>3, <1>r DEF PrepareBind, PrepareBound
  <2>2. /\ handoff[t].status = "PENDING" /\ handoff'[t].status = "PENDING"
        /\ \A u \in Ticket \ {t} : handoff'[u] = handoff[u]
    BY <1>3, <1>r, <2>1 DEF PrepareBind, MayBind, Active, Row
  <2>3. PhaseOf(handoff'[t]) = PhaseOf(handoff[t]) /\ ResultOf(handoff'[t]) = ResultOf(handoff[t])
    BY <2>2 DEF PhaseOf, ResultOf
  <2> QED BY <2>2, <2>3, SameHandoff
<1>4. ASSUME NEW s \in Signer, Reserve(s) PROVE Handoff!Next
  <2>1. PICK x \in Context : x = sign[s].context
    BY <1>4, <1>r DEF Reserve, SignBound
  <2>2. PICK t \in Ticket : t = ctx[x].ticket
    <3>1. ctx[x].ticket \in Ticket \cup {NoTicket}
      BY DEF HandoffInv, HandoffTypeOK, ContextState
    <3> QED BY <1>4, <1>r, <2>1, <3>1 DEF Reserve, SignBound, TicketOf
  <2>3. /\ handoff[t].status = "PENDING" /\ handoff[t].context = x
        /\ handoff'[t].status = "CONSUMED" /\ handoff'[t].context = x
        /\ \A u \in Ticket \ {t} : handoff'[u] = handoff[u]
    BY <1>4, <1>r, <2>1, <2>2 DEF Reserve, MayReserve, Active, TicketOf, Row
  <2>4. /\ PhaseOf(handoff[t]) = "open" /\ PhaseOf(handoff'[t]) = "available"
        /\ ResultOf(handoff'[t]) = x
    BY <2>3 DEF PhaseOf, ResultOf
  <2>5. Handoff!Decide(t)
    BY <2>3, <2>4 DEF Handoff!Decide, phaseBar, resultBar
  <2> QED BY <2>5 DEF Handoff!Next
<1>5. ASSUME UNCHANGED handoff PROVE [Handoff!Next]_<<phaseBar, resultBar>>
  BY <1>5 DEF phaseBar, resultBar
<1> QED
  BY <1>1, <1>2, <1>3, <1>4, <1>5 DEF Next, vars, ClaimBegin, ClaimEnd, PrepareRead, PrepareIssue,
     PrepareFail, PrepareDirect, PreviewBytes, SignDirect, SignCheck, RevocationCheck, Consume,
     SignBytes, Deliver, SignFail, Restart, Tick

-------------------------------------------------------------------------------
(* The theorems.                                                           *)

\* The inductive invariant of the handoffs holds in every reachable state.
THEOREM HandoffInvariant == Spec => []HandoffInv
<1>1. HandoffInv /\ [Next]_vars => HandoffInv'
  BY StepInv
<1> QED BY <1>1, InitInv, PTL DEF Spec

\* Every row, context and call keeps its type.
THEOREM HandoffTypes == Spec => []HandoffTypeOK
<1>1. HandoffInv => HandoffTypeOK
  BY DEF HandoffInv
<1> QED BY <1>1, HandoffInvariant, PTL

\* A prepared request is signed at most once, for any number of calls and restarts.
THEOREM SignedOnce == Spec => []OneSignature
<1>1. HandoffInv => OneSignature
  <2> SUFFICES ASSUME HandoffInv PROVE OneSignature
    OBVIOUS
  <2> USE DEF HandoffInv
  <2>1. \A x \in Context : signatures[x] <= 1
    BY DEF OnlyOnePast
  <2>2. ASSUME NEW x \in Context, NEW y \in Context, signatures[x] > 0, signatures[y] > 0, x # y,
               ctx[x].ticket # NoTicket, ctx[y].ticket # NoTicket
        PROVE  handoff[ctx[x].ticket].nonce # handoff[ctx[y].ticket].nonce
    <3>1. /\ ctx[x].ticket \in Ticket /\ ctx[y].ticket \in Ticket
          /\ Exists(ctx[x].ticket) /\ Exists(ctx[y].ticket)
      BY <2>2 DEF HandoffTypeOK, ContextState, ContextsLinked
    <3>2. handoff[ctx[x].ticket].context = x /\ handoff[ctx[y].ticket].context = y
      BY <2>2 DEF ContextsLinked
    <3> QED BY <2>2, <3>1, <3>2 DEF NoncesDiffer
  <2> QED BY <2>1, <2>2 DEF OneSignature
<1> QED BY <1>1, HandoffInvariant, PTL

\* A cancelled handoff is never signed.
THEOREM CancelledAreUnsigned == Spec => []CancelledUnsigned
<1>1. HandoffInv => CancelledUnsigned
  BY DEF HandoffInv, UnspentUnsigned, Unspent, CancelledUnsigned
<1> QED BY <1>1, HandoffInvariant, PTL

\* A reservation leads to its signature unless the context expires or the process ends.
THEOREM ReservationsAreKept == Spec => []ReservationKept
<1>1. HandoffInv => ReservationKept
  <2> SUFFICES ASSUME HandoffInv, NEW s \in Signer
               PROVE  /\ /\ sign[s].stage = "reserved"
                         /\ ctx[sign[s].context].expiresAt > now
                         /\ \A q \in sign[s].previews : q.expiresAt > now
                         => Consumable(sign[s].context, sign[s].previews)
                      /\ sign[s].stage = "signed" => Deliverable(s)
    BY DEF ReservationKept
  <2>1. sign[s].stage = "signed" => Deliverable(s)
    BY DEF HandoffInv, SignBound, UnspentUnsigned, Unspent, Deliverable, TicketOf
  <2> QED BY <2>1 DEF HandoffInv, ReservedKept, Holds
<1> QED BY <1>1, HandoffInvariant, PTL

\* No window holds more claims than the limit, for any limit and any number of claims.
THEOREM ClaimsAreLimited == Spec => []ClaimsLimited
<1>1. Init => LimitInv
  <2> SUFFICES ASSUME Init, NEW a \in Nat PROVE Cardinality(Within(a)) <= ClaimLimit
    BY DEF LimitInv
  <2>1. Within(a) = {}
    BY DEF Init, Within, Exists, AbsentRow
  <2> QED BY <2>1, FS_EmptySet, HandoffAssumption
<1>2. HandoffInv /\ LimitInv /\ [Next]_vars => LimitInv'
  BY LimitStep
<1>3. HandoffInv /\ LimitInv => ClaimsLimited
  <2> SUFFICES ASSUME HandoffInv, LimitInv, NEW t \in Ticket
               PROVE  Cardinality({u \in Ticket : /\ Exists(u)
                        /\ handoff[u].requestedAt >= handoff[t].requestedAt
                        /\ handoff[u].requestedAt <= handoff[t].requestedAt + ClaimWindow})
                      <= ClaimLimit
    BY DEF ClaimsLimited
  <2>1. handoff[t].requestedAt \in Nat
    BY DEF HandoffInv, HandoffTypeOK, Row
  <2> QED BY <2>1 DEF LimitInv, Within
<1> QED BY <1>1, <1>2, <1>3, HandoffInvariant, PTL DEF Spec

\* Every behaviour of the handoffs is one of a one-time handoff.
THEOREM HandoffsImplementOneResult == Spec => ReservedOnce
<1>1. Init => Handoff!Init
  BY DEF Init, Handoff!Init, AbsentRow, phaseBar, resultBar, PhaseOf, ResultOf
<1>2. HandoffInv /\ [Next]_vars => [Handoff!Next]_<<phaseBar, resultBar>>
  BY HandoffStep
<1> QED
  BY <1>1, <1>2, HandoffInvariant, PTL DEF Spec, ReservedOnce, Handoff!Spec
===============================================================================
