----------------------- MODULE DeviceAuthorizationProofs -----------------------
(***************************************************************************)
(* Proofs about DeviceAuthorization.  A handler in flight holds facts that *)
(* were true when it read the row: what an approval computed still lies in *)
(* the window while the transaction is pending, and a result that a poll   *)
(* carries is the one the transaction was approved with.                   *)
(***************************************************************************)
EXTENDS DeviceAuthorization, FiniteSetTheorems, TLAPS

(* The inductive invariant.                                                *)

Decided == {"approved", "consumed"}

\* What the columns of a row say together with its status.
RowBound ==
  \A t \in Transaction :
    /\ row[t].status \in {"absent", "pending"} => row[t].result = NoPage /\ saved[t] = NoPage
    /\ row[t].status = "pending" =>
         /\ row[t].expiresAt = row[t].requestedAt + TransactionTtl
         /\ row[t].delegationExpiresAt = row[t].expiresAt + row[t].ttl
    /\ row[t].status \in Decided => row[t].approvedBy # NoPage
    /\ row[t].status = "approved" => row[t].result \in {row[t].approvedBy, NoPage}
    /\ saved[t] # NoPage => saved[t] = row[t].approvedBy

\* An approval in flight computed its delegation for a transaction that was pending.
PageBound ==
  \A p \in Page : page[p].stage # "idle" =>
    /\ page[p].tx \in Transaction
    /\ row[page[p].tx].status # "absent"
    /\ row[page[p].tx].status = "pending" =>
         /\ page[p].delegationExpiresAt <= now + row[page[p].tx].ttl
         /\ page[p].delegationExpiresAt <
              row[page[p].tx].requestedAt + TransactionTtl + row[page[p].tx].ttl

\* A poll carries the result of its transaction, an acknowledgement follows a save.
CallBound ==
  \A c \in Call :
    /\ call[c].stage = "polling" =>
         /\ call[c].tx \in Transaction
         /\ call[c].result # NoPage =>
              row[call[c].tx].status \in Decided /\ call[c].result = row[call[c].tx].approvedBy
    /\ call[c].stage = "acking" => call[c].tx \in Transaction /\ saved[call[c].tx] # NoPage

StartBound == \A s \in Starter : start[s].stage # "idle" => start[s].at <= now

\* An approval about to write either stood there when a start call cleared, or read the
\* clock of the store later than the start call did.
LateBound ==
  \A s \in Starter, p \in Page : start[s].stage = "wiped" /\ page[p].stage = "committing" =>
    page[p].tx \in start[s].late \/ start[s].at <= page[p].at

DeviceInv ==
  /\ DeviceTypeOK
  /\ RowBound /\ PageBound /\ CallBound /\ StartBound /\ LateBound
  /\ ResultRetained /\ SpentWasSaved /\ DelegationInWindow /\ WipedAtStart

LEMMA InitInv == Init => DeviceInv
<1> SUFFICES ASSUME Init PROVE DeviceInv
  OBVIOUS
<1>1. DeviceTypeOK
  BY DEF Init, DeviceTypeOK, Row, AbsentRow, StartState, IdleStart, PageState, IdlePage,
         CallState, IdleCall
<1>2. RowBound /\ PageBound /\ CallBound /\ StartBound /\ LateBound
  BY DEF Init, RowBound, PageBound, CallBound, StartBound, LateBound, Decided, AbsentRow, IdleStart,
         IdlePage, IdleCall
<1>3. ResultRetained /\ SpentWasSaved /\ DelegationInWindow /\ WipedAtStart
  BY DEF Init, ResultRetained, SpentWasSaved, DelegationInWindow, WipedAtStart, Wipeable,
         AbsentRow, IdleStart
<1> QED BY <1>1, <1>2, <1>3 DEF DeviceInv

-------------------------------------------------------------------------------
(* Starting.                                                               *)

\* A start call moves on and touches no row.
LEMMA StartMoves ==
  ASSUME DeviceInv, NEW s \in Starter, NEW v \in StartState,
         start' = [start EXCEPT ![s] = v],
         v.stage # "idle" => v.at <= now,
         v.stage # "wiped",
         UNCHANGED <<now, row, page, call, saved, approvedAt>>
  PROVE  DeviceInv'
<1> USE DEF DeviceInv
<1>1. start'[s] = v /\ \A r \in Starter \ {s} : start'[r] = start[r]
  BY DEF DeviceTypeOK
<1>2. DeviceTypeOK'
  BY DEF DeviceTypeOK
<1>3. RowBound' /\ PageBound' /\ CallBound'
  BY DEF RowBound, PageBound, CallBound
<1>4. StartBound'
  BY <1>1 DEF StartBound
<1>5. ResultRetained' /\ SpentWasSaved' /\ DelegationInWindow'
  BY DEF ResultRetained, SpentWasSaved, DelegationInWindow
<1>6. WipedAtStart' /\ LateBound'
  BY <1>1 DEF WipedAtStart, Wipeable, LateBound
<1> QED BY <1>2, <1>3, <1>4, <1>5, <1>6

LEMMA WipeInv ==
  ASSUME DeviceInv, NEW s \in Starter, StartWipe(s)
  PROVE  DeviceInv'
<1> USE DEF DeviceInv
<1>1. /\ start[s] \in StartState /\ start[s].stage = "counted" /\ start[s].at <= now
      /\ now \in Nat
  BY DEF StartWipe, DeviceTypeOK, StartBound
<1>2. /\ start'[s] = [start[s] EXCEPT !.stage = "wiped", !.late = Committing]
      /\ \A r \in Starter \ {s} : start'[r] = start[r]
      /\ UNCHANGED <<now, page, call, saved, approvedAt>>
  BY DEF StartWipe, DeviceTypeOK
<1>3. \A t \in Transaction :
        /\ Wipeable(t, start[s].at) => row'[t] = [row[t] EXCEPT !.result = NoPage]
        /\ ~Wipeable(t, start[s].at) => row'[t] = row[t]
  BY DEF StartWipe
<1>4. \A t \in Transaction :
        /\ row[t] \in Row /\ row'[t] \in Row
        /\ row'[t].status = row[t].status
        /\ row'[t].requestedAt = row[t].requestedAt
        /\ row'[t].expiresAt = row[t].expiresAt
        /\ row'[t].ttl = row[t].ttl
        /\ row'[t].delegationExpiresAt = row[t].delegationExpiresAt
        /\ row'[t].approvedBy = row[t].approvedBy
        /\ row'[t].result \in {row[t].result, NoPage}
        /\ ~Wipeable(t, start[s].at) => row'[t].result = row[t].result
  <2> TAKE t \in Transaction
  <2>1. row[t] \in Row
    BY DEF DeviceTypeOK
  <2>2. CASE Wipeable(t, start[s].at)
    <3>1. row'[t] = [row[t] EXCEPT !.result = NoPage]
      BY <1>3, <2>2
    <3> QED BY <2>1, <2>2, <3>1 DEF Row
  <2>3. CASE ~Wipeable(t, start[s].at)
    <3>1. row'[t] = row[t]
      BY <1>3, <2>3
    <3> QED BY <2>1, <2>3, <3>1
  <2> QED BY <2>2, <2>3
<1>5. DeviceTypeOK'
  <2>1. row' \in [Transaction -> Row]
    BY <1>4 DEF StartWipe
  <2>2. Committing \in SUBSET Transaction
    BY DEF Committing, PageBound
  <2>3. start' \in [Starter -> StartState]
    BY <1>1, <2>2 DEF StartWipe, DeviceTypeOK, StartState
  <2> QED BY <1>2, <2>1, <2>3 DEF DeviceTypeOK
<1>6. RowBound'
  BY <1>2, <1>4 DEF RowBound, Decided
<1>7. PageBound' /\ CallBound'
  BY <1>2, <1>4 DEF PageBound, CallBound
<1>8. StartBound'
  BY <1>1, <1>2 DEF StartBound, StartState
<1>9. ResultRetained'
  BY <1>1, <1>2, <1>4 DEF ResultRetained, Wipeable, Row, StartState
<1>10. SpentWasSaved' /\ DelegationInWindow'
  BY <1>2, <1>4 DEF SpentWasSaved, DelegationInWindow
<1>11. WipedAtStart'
  <2>1. ASSUME NEW r \in Starter, start'[r].stage = "wiped",
               NEW t \in Transaction, Wipeable(t, start[r].at)'
        PROVE  t \in start'[r].late
    <3>1. start'[r].at = start[r].at
      BY <1>1, <1>2 DEF StartState
    <3>2. row'[t].status = "approved" /\ row'[t].result # NoPage /\ row'[t].expiresAt <= start[r].at
      BY <2>1, <3>1 DEF Wipeable
    <3>3. Wipeable(t, start[r].at)
      BY <1>4, <3>2 DEF Wipeable
    <3>4. CASE r = s
      BY <1>3, <1>4, <3>2, <3>3, <3>4 DEF Row
    <3>5. CASE r # s
      BY <1>2, <2>1, <3>3, <3>5 DEF WipedAtStart
    <3> QED BY <3>4, <3>5
  <2> QED BY <2>1 DEF WipedAtStart
<1>12. LateBound'
  <2>1. \A p \in Page : page[p].stage = "committing" => page[p].tx \in start'[s].late
    BY <1>1, <1>2 DEF Committing, StartState
  <2> QED BY <1>2, <2>1 DEF LateBound
<1> QED BY <1>5, <1>6, <1>7, <1>8, <1>9, <1>10, <1>11, <1>12

LEMMA CreateInv ==
  ASSUME DeviceInv, NEW s \in Starter, StartCreate(s)
  PROVE  DeviceInv'
<1> USE DEF DeviceInv
<1>1. PICK t \in Transaction :
        /\ row[t].status = "absent"
        /\ row' = [row EXCEPT ![t] =
             [status |-> "pending", requestedAt |-> start[s].at,
              expiresAt |-> start[s].at + TransactionTtl, ttl |-> start[s].ttl,
              delegationExpiresAt |-> start[s].at + TransactionTtl + start[s].ttl,
              nextPollAt |-> start[s].at, result |-> NoPage, approvedBy |-> NoPage]]
  BY DEF StartCreate
<1>2. /\ start[s].at \in Nat /\ start[s].ttl \in Nat /\ TransactionTtl \in Nat
      /\ start[s].stage = "wiped"
      /\ start' = [start EXCEPT ![s] = IdleStart]
      /\ UNCHANGED <<now, page, call, saved, approvedAt>>
  BY DeviceAssumption DEF StartCreate, DeviceTypeOK, StartState
<1>3. /\ row'[t].status = "pending" /\ row'[t].result = NoPage /\ row'[t].ttl \in Nat
      /\ row'[t].expiresAt = row'[t].requestedAt + TransactionTtl
      /\ row'[t].delegationExpiresAt = row'[t].expiresAt + row'[t].ttl
      /\ row'[t] \in Row
      /\ \A u \in Transaction \ {t} : row'[u] = row[u]
      /\ row' \in [Transaction -> Row]
  BY <1>1, <1>2 DEF DeviceTypeOK, Row
<1>4. /\ start'[s].stage = "idle"
      /\ \A r \in Starter \ {s} : start'[r] = start[r]
      /\ start' \in [Starter -> StartState]
  BY <1>2 DEF DeviceTypeOK, StartState, IdleStart
<1>5. DeviceTypeOK'
  BY <1>2, <1>3, <1>4 DEF DeviceTypeOK
<1>6. RowBound'
  BY <1>1, <1>2, <1>3 DEF RowBound, Decided
<1>7. \A p \in Page : page[p].stage # "idle" => page[p].tx # t
  BY <1>1 DEF PageBound
<1>8. PageBound'
  BY <1>2, <1>3, <1>7 DEF PageBound
<1>9. CallBound'
  BY <1>1, <1>2, <1>3 DEF CallBound, Decided
<1>10. StartBound'
  BY <1>2, <1>4 DEF StartBound
<1>11. ResultRetained' /\ SpentWasSaved' /\ DelegationInWindow'
  BY <1>2, <1>3 DEF ResultRetained, SpentWasSaved, DelegationInWindow
<1>12. WipedAtStart' /\ LateBound'
  BY <1>2, <1>3, <1>4 DEF WipedAtStart, Wipeable, LateBound
<1> QED BY <1>5, <1>6, <1>8, <1>9, <1>10, <1>11, <1>12

-------------------------------------------------------------------------------
(* Approving.                                                              *)

\* An approval moves on and touches no row.
LEMMA PageMoves ==
  ASSUME DeviceInv, NEW p \in Page, NEW v \in PageState,
         page' = [page EXCEPT ![p] = v],
         v.stage # "idle" =>
           /\ v.tx \in Transaction
           /\ row[v.tx].status = "pending"
           /\ v.delegationExpiresAt <= now + row[v.tx].ttl
           /\ v.delegationExpiresAt < row[v.tx].requestedAt + TransactionTtl + row[v.tx].ttl,
         v.stage = "committing" => v.at = now,
         UNCHANGED <<now, row, start, call, saved, approvedAt>>
  PROVE  DeviceInv'
<1> USE DEF DeviceInv
<1>1. page'[p] = v /\ \A q \in Page \ {p} : page'[q] = page[q]
  BY DEF DeviceTypeOK
<1>2. DeviceTypeOK'
  BY DEF DeviceTypeOK
<1>3. RowBound' /\ CallBound' /\ StartBound'
  BY DEF RowBound, CallBound, StartBound
<1>4. PageBound'
  <2> SUFFICES ASSUME NEW q \in Page, page'[q].stage # "idle"
               PROVE  /\ page'[q].tx \in Transaction
                      /\ row[page'[q].tx].status # "absent"
                      /\ row[page'[q].tx].status = "pending" =>
                           /\ page'[q].delegationExpiresAt <= now + row[page'[q].tx].ttl
                           /\ page'[q].delegationExpiresAt <
                                row[page'[q].tx].requestedAt + TransactionTtl + row[page'[q].tx].ttl
    BY DEF PageBound
  <2>1. CASE q = p
    BY <1>1, <2>1
  <2>2. CASE q # p
    BY <1>1, <2>2 DEF PageBound
  <2> QED BY <2>1, <2>2
<1>5. ResultRetained' /\ SpentWasSaved' /\ DelegationInWindow' /\ WipedAtStart'
  BY DEF ResultRetained, SpentWasSaved, DelegationInWindow, WipedAtStart, Wipeable
<1>6. LateBound'
  BY <1>1 DEF LateBound, StartBound
<1> QED BY <1>2, <1>3, <1>4, <1>5, <1>6

LEMMA IdleType == IdlePage \in PageState /\ IdleCall \in CallState /\ IdleStart \in StartState
BY DEF IdlePage, PageState, IdleCall, CallState, IdleStart, StartState

LEMMA ApproveReadInv ==
  ASSUME DeviceInv, NEW p \in Page, NEW t \in Transaction, ApproveRead(p, t)
  PROVE  DeviceInv'
<1>1. PICK e \in now..row[t].delegationExpiresAt :
        /\ WithinWindow(t, e)
        /\ page' = [page EXCEPT ![p] =
             [stage |-> "approving", tx |-> t, delegationExpiresAt |-> e,
              resultExpiresAt |-> Smaller(e, now + Retention), at |-> 0]]
  BY DEF ApproveRead
<1> DEFINE v == [stage |-> "approving", tx |-> t, delegationExpiresAt |-> e,
                 resultExpiresAt |-> Smaller(e, now + Retention), at |-> 0]
<1>2. /\ row[t] \in Row /\ now \in Nat /\ Retention \in Nat /\ TransactionTtl \in Nat
      /\ row[t].status = "pending" /\ row[t].expiresAt > now
      /\ row[t].expiresAt = row[t].requestedAt + TransactionTtl
      /\ UNCHANGED <<now, row, start, call, saved, approvedAt>>
  BY DeviceAssumption DEF DeviceInv, DeviceTypeOK, RowBound, ApproveRead, Pending
<1>3. /\ row[t].ttl \in Nat /\ row[t].delegationExpiresAt \in Nat
      /\ row[t].requestedAt \in Nat /\ row[t].expiresAt \in Nat
  BY <1>2 DEF Row
<1>4. e \in Nat /\ e <= now + row[t].ttl
  BY <1>1, <1>2, <1>3 DEF WithinWindow
<1>5. e < row[t].requestedAt + TransactionTtl + row[t].ttl
  BY <1>2, <1>3, <1>4
<1>6. Smaller(e, now + Retention) \in Nat
  BY <1>2, <1>4 DEF Smaller
<1>7. v \in PageState
  BY <1>4, <1>6 DEF PageState
<1>8. v.stage = "approving" /\ v.tx = t /\ v.delegationExpiresAt = e
  OBVIOUS
<1>9. page' = [page EXCEPT ![p] = v]
  BY <1>1
<1> HIDE DEF v
<1> QED BY <1>2, <1>4, <1>5, <1>7, <1>8, <1>9, PageMoves

LEMMA ApproveClockInv ==
  ASSUME DeviceInv, NEW p \in Page, ApproveClock(p)
  PROVE  DeviceInv'
<1> DEFINE v == [page[p] EXCEPT !.stage = "committing", !.at = now]
<1>1. /\ page[p] \in PageState /\ now \in Nat /\ page[p].stage # "idle"
      /\ row[page[p].tx].status = "pending"
      /\ page' = [page EXCEPT ![p] = v]
      /\ UNCHANGED <<now, row, start, call, saved, approvedAt>>
  BY DEF ApproveClock, Pending, DeviceInv, DeviceTypeOK
<1>2. /\ v \in PageState /\ v.stage = "committing" /\ v.at = now /\ v.tx = page[p].tx
      /\ v.delegationExpiresAt = page[p].delegationExpiresAt
  BY <1>1 DEF PageState
<1>3. /\ v.tx \in Transaction
      /\ v.delegationExpiresAt <= now + row[v.tx].ttl
      /\ v.delegationExpiresAt < row[v.tx].requestedAt + TransactionTtl + row[v.tx].ttl
  BY <1>1, <1>2 DEF DeviceInv, PageBound
<1> HIDE DEF v
<1> QED BY <1>1, <1>2, <1>3, PageMoves

LEMMA ApproveCommitInv ==
  ASSUME DeviceInv, NEW p \in Page, ApproveCommit(p)
  PROVE  DeviceInv'
<1> USE DEF DeviceInv
<1> DEFINE t == page[p].tx
           e == page[p].delegationExpiresAt
<1>1. /\ t \in Transaction /\ row[t] \in Row /\ row[t].status = "pending"
      /\ row[t].expiresAt > page[p].at /\ now \in Nat
      /\ page[p] \in PageState /\ page[p].stage = "committing"
      /\ p # NoPage
  BY DeviceAssumption DEF ApproveCommit, Pending, PageBound, DeviceTypeOK
<1>2. /\ row' = [row EXCEPT
           ![t].status = "approved", ![t].result = p, ![t].approvedBy = p,
           ![t].delegationExpiresAt = e,
           ![t].expiresAt = Larger(@, page[p].resultExpiresAt)]
      /\ approvedAt' = [approvedAt EXCEPT ![t] = now]
      /\ page' = [page EXCEPT ![p] = IdlePage]
      /\ UNCHANGED <<now, start, call, saved>>
  BY DEF ApproveCommit
<1>3. /\ e \in Nat /\ page[p].resultExpiresAt \in Nat /\ page[p].at \in Nat
      /\ row[t].expiresAt \in Nat /\ row[t].ttl \in Nat /\ row[t].requestedAt \in Nat
  BY <1>1 DEF PageState, Row
<1>4. /\ e <= now + row[t].ttl
      /\ e < row[t].requestedAt + TransactionTtl + row[t].ttl
  BY <1>1 DEF PageBound
<1> DEFINE r == [row[t] EXCEPT !.status = "approved", !.result = p, !.approvedBy = p,
                               !.delegationExpiresAt = e,
                               !.expiresAt = Larger(@, page[p].resultExpiresAt)]
<1>0. /\ Larger(row[t].expiresAt, page[p].resultExpiresAt) \in Nat
      /\ Larger(row[t].expiresAt, page[p].resultExpiresAt) > page[p].at
  BY <1>1, <1>3 DEF Larger
<1>5. /\ r \in Row /\ r.status = "approved" /\ r.result = p /\ r.approvedBy = p
      /\ r.delegationExpiresAt = e /\ r.ttl = row[t].ttl /\ r.requestedAt = row[t].requestedAt
      /\ r.expiresAt > page[p].at
  BY <1>0, <1>1, <1>3 DEF Row
<1>6. /\ row'[t] = r /\ \A u \in Transaction \ {t} : row'[u] = row[u]
      /\ row' \in [Transaction -> Row]
  BY <1>1, <1>2, <1>5 DEF DeviceTypeOK
<1>7. /\ approvedAt'[t] = now /\ \A u \in Transaction \ {t} : approvedAt'[u] = approvedAt[u]
      /\ approvedAt' \in [Transaction -> Nat]
  BY <1>1, <1>2 DEF DeviceTypeOK
<1>8. /\ page'[p].stage = "idle" /\ \A q \in Page \ {p} : page'[q] = page[q]
      /\ page' \in [Page -> PageState]
  BY <1>2, IdleType DEF DeviceTypeOK, IdlePage
<1>9. saved[t] = NoPage
  BY <1>1 DEF RowBound
<1> HIDE DEF r, t, e
<1>10. DeviceTypeOK'
  BY <1>2, <1>6, <1>7, <1>8 DEF DeviceTypeOK
<1>11. RowBound'
  BY <1>1, <1>2, <1>5, <1>6, <1>9 DEF RowBound, Decided
<1>12. PageBound'
  BY <1>2, <1>5, <1>6, <1>8 DEF PageBound
<1>13. CallBound'
  BY <1>1, <1>2, <1>5, <1>6 DEF CallBound, Decided
<1>14. StartBound'
  BY <1>2 DEF StartBound
<1>15. ResultRetained' /\ SpentWasSaved'
  BY <1>2, <1>5, <1>6 DEF ResultRetained, SpentWasSaved
<1>16. DelegationInWindow'
  BY <1>1, <1>2, <1>3, <1>4, <1>5, <1>6, <1>7 DEF DelegationInWindow
<1>17. WipedAtStart'
  <2> SUFFICES ASSUME NEW s \in Starter, start[s].stage = "wiped",
                      NEW u \in Transaction, Wipeable(u, start[s].at)'
               PROVE  u \in start[s].late
    BY <1>2 DEF WipedAtStart
  <2>1. CASE u = t
    <3>1. row'[u].expiresAt <= start[s].at /\ start[s].at \in Nat
      BY <1>2 DEF Wipeable, DeviceTypeOK, StartState
    <3>2. ~(start[s].at <= page[p].at)
      BY <1>3, <1>5, <1>6, <2>1, <3>1 DEF Row
    <3> QED BY <1>1, <2>1, <3>2 DEF LateBound, t
  <2>2. CASE u # t
    BY <1>2, <1>6, <2>2 DEF WipedAtStart, Wipeable
  <2> QED BY <2>1, <2>2
<1>18. LateBound'
  BY <1>2, <1>8 DEF LateBound
<1> QED BY <1>10, <1>11, <1>12, <1>13, <1>14, <1>15, <1>16, <1>17, <1>18

-------------------------------------------------------------------------------
(* Polling and acknowledging.                                              *)

\* A call moves on and touches no row.
LEMMA CallMoves ==
  ASSUME DeviceInv, NEW c \in Call, NEW v \in CallState,
         call' = [call EXCEPT ![c] = v],
         v.stage = "polling" =>
           /\ v.tx \in Transaction
           /\ v.result # NoPage =>
                row[v.tx].status \in Decided /\ v.result = row[v.tx].approvedBy,
         v.stage = "acking" => v.tx \in Transaction /\ saved[v.tx] # NoPage,
         UNCHANGED <<now, row, start, page, saved, approvedAt>>
  PROVE  DeviceInv'
<1> USE DEF DeviceInv
<1>1. call'[c] = v /\ \A d \in Call \ {c} : call'[d] = call[d]
  BY DEF DeviceTypeOK
<1>2. DeviceTypeOK'
  BY DEF DeviceTypeOK
<1>3. RowBound' /\ PageBound' /\ StartBound' /\ LateBound'
  BY DEF RowBound, PageBound, StartBound, LateBound
<1>4. CallBound'
  <2> SUFFICES ASSUME NEW d \in Call
               PROVE  /\ call'[d].stage = "polling" =>
                           /\ call'[d].tx \in Transaction
                           /\ call'[d].result # NoPage =>
                                /\ row[call'[d].tx].status \in Decided
                                /\ call'[d].result = row[call'[d].tx].approvedBy
                      /\ call'[d].stage = "acking" =>
                           call'[d].tx \in Transaction /\ saved[call'[d].tx] # NoPage
    BY DEF CallBound
  <2>1. CASE d = c
    BY <1>1, <2>1
  <2>2. CASE d # c
    BY <1>1, <2>2 DEF CallBound
  <2> QED BY <2>1, <2>2
<1>5. ResultRetained' /\ SpentWasSaved' /\ DelegationInWindow' /\ WipedAtStart'
  BY DEF ResultRetained, SpentWasSaved, DelegationInWindow, WipedAtStart, Wipeable
<1> QED BY <1>2, <1>3, <1>4, <1>5

LEMMA PollReadInv ==
  ASSUME DeviceInv, NEW c \in Call, NEW t \in Transaction, PollRead(c, t)
  PROVE  DeviceInv'
<1> DEFINE k == IF row[t].status = "approved" THEN row[t].result ELSE NoPage
           v == [stage |-> "polling", tx |-> t, at |-> now, result |-> k]
<1>1. row[t] \in Row /\ now \in Nat
  BY DEF DeviceInv, DeviceTypeOK
<1>2. k \in Page \cup {NoPage}
  BY <1>1 DEF Row
<1>3. k # NoPage => row[t].status \in Decided /\ k = row[t].approvedBy
  BY DEF DeviceInv, RowBound, Decided
<1>4. call' = [call EXCEPT ![c] = v] /\ UNCHANGED <<now, row, start, page, saved, approvedAt>>
  BY DEF PollRead
<1> HIDE DEF k
<1>5. v \in CallState
  BY <1>1, <1>2 DEF CallState
<1>6. v.stage = "polling" /\ v.tx = t /\ v.result = k
  OBVIOUS
<1> HIDE DEF v
<1> QED BY <1>3, <1>4, <1>5, <1>6, CallMoves

LEMMA PollAnswerInv ==
  ASSUME DeviceInv, NEW c \in Call, PollAnswer(c)
  PROVE  DeviceInv'
<1> USE DEF DeviceInv
<1> DEFINE t == call[c].tx
<1>1. /\ t \in Transaction /\ row[t] \in Row /\ call[c] \in CallState
      /\ call[c].result # NoPage =>
           row[t].status \in Decided /\ call[c].result = row[t].approvedBy
  BY DEF PollAnswer, CallBound, DeviceTypeOK
<1>2. /\ row' = [row EXCEPT ![t].nextPollAt = call[c].at + PollInterval]
      /\ call' = [call EXCEPT ![c] = IdleCall]
      /\ UNCHANGED <<now, start, page, approvedAt>>
  BY DEF PollAnswer
<1>3. call[c].at + PollInterval \in Nat
  BY <1>1, DeviceAssumption DEF CallState
<1>4. /\ row' \in [Transaction -> Row]
      /\ \A u \in Transaction :
           /\ row'[u].status = row[u].status
           /\ row'[u].requestedAt = row[u].requestedAt
           /\ row'[u].expiresAt = row[u].expiresAt
           /\ row'[u].ttl = row[u].ttl
           /\ row'[u].delegationExpiresAt = row[u].delegationExpiresAt
           /\ row'[u].result = row[u].result
           /\ row'[u].approvedBy = row[u].approvedBy
  BY <1>1, <1>2, <1>3 DEF DeviceTypeOK, Row
<1>5. /\ saved' \in [Transaction -> Page \cup {NoPage}]
      /\ \A u \in Transaction : \/ saved'[u] = saved[u]
                                 \/ /\ u = t /\ call[c].result # NoPage
                                    /\ saved'[u] = row[u].approvedBy
                                    /\ row[u].status \in Decided
  BY <1>1 DEF PollAnswer, DeviceTypeOK, CallState
<1>6. /\ call'[c].stage = "idle" /\ call' \in [Call -> CallState]
      /\ \A d \in Call \ {c} : call'[d] = call[d]
  BY <1>2, IdleType DEF DeviceTypeOK, IdleCall
<1> HIDE DEF t
<1>7. DeviceTypeOK'
  BY <1>2, <1>4, <1>5, <1>6 DEF DeviceTypeOK
<1>8. RowBound'
  <2> SUFFICES ASSUME NEW u \in Transaction
               PROVE  /\ row[u].status \in {"absent", "pending"} => saved'[u] = NoPage
                      /\ saved'[u] # NoPage => saved'[u] = row[u].approvedBy
    BY <1>4 DEF RowBound
  <2> QED BY <1>5 DEF RowBound, Decided
<1>9. \A u \in Transaction : saved[u] # NoPage => saved'[u] # NoPage /\ saved'[u] = saved[u]
  BY <1>1, <1>5 DEF RowBound
<1>10. PageBound' /\ StartBound' /\ LateBound'
  BY <1>2, <1>4 DEF PageBound, StartBound, LateBound
<1>11. CallBound'
  BY <1>4, <1>6, <1>9 DEF CallBound
<1>12. ResultRetained' /\ DelegationInWindow' /\ WipedAtStart'
  BY <1>2, <1>4 DEF ResultRetained, DelegationInWindow, WipedAtStart, Wipeable
<1>13. SpentWasSaved'
  BY <1>4, <1>9 DEF SpentWasSaved
<1> QED BY <1>7, <1>8, <1>10, <1>11, <1>12, <1>13

LEMMA AckCommitInv ==
  ASSUME DeviceInv, NEW c \in Call, AckCommit(c)
  PROVE  DeviceInv'
<1> USE DEF DeviceInv
<1> DEFINE t == call[c].tx
<1>1. /\ t \in Transaction /\ row[t] \in Row /\ call[c] \in CallState
      /\ saved[t] # NoPage /\ saved[t] = row[t].approvedBy
      /\ call' = [call EXCEPT ![c] = IdleCall]
      /\ UNCHANGED <<now, start, page, saved, approvedAt>>
  BY DEF AckCommit, CallBound, DeviceTypeOK, RowBound
<1>2. CASE /\ row[t].status = "approved"
           /\ row' = [row EXCEPT ![t].status = "consumed", ![t].result = NoPage]
  <2>1. /\ row' \in [Transaction -> Row]
        /\ row'[t].status = "consumed" /\ row'[t].result = NoPage
        /\ \A u \in Transaction :
             /\ row'[u].status = row[u].status \/ u = t
             /\ row'[u].result = row[u].result \/ u = t
             /\ row'[u].requestedAt = row[u].requestedAt
             /\ row'[u].expiresAt = row[u].expiresAt
             /\ row'[u].ttl = row[u].ttl
             /\ row'[u].delegationExpiresAt = row[u].delegationExpiresAt
             /\ row'[u].approvedBy = row[u].approvedBy
    BY <1>1, <1>2 DEF DeviceTypeOK, Row
  <2>2. /\ call'[c].stage = "idle" /\ call' \in [Call -> CallState]
        /\ \A d \in Call \ {c} : call'[d] = call[d]
    BY <1>1, IdleType DEF DeviceTypeOK, IdleCall
  <2>3. row[t].status = "approved"
    BY <1>2
  <2> HIDE DEF t
  <2>4. DeviceTypeOK'
    BY <1>1, <2>1, <2>2 DEF DeviceTypeOK
  <2>5. RowBound'
    BY <1>1, <2>1, <2>3 DEF RowBound, Decided
  <2>6. PageBound' /\ StartBound' /\ LateBound'
    BY <1>1, <2>1, <2>3 DEF PageBound, StartBound, LateBound
  <2>7. CallBound'
    BY <1>1, <2>1, <2>2, <2>3 DEF CallBound, Decided
  <2>8. ResultRetained' /\ SpentWasSaved' /\ WipedAtStart'
    BY <1>1, <2>1 DEF ResultRetained, SpentWasSaved, WipedAtStart, Wipeable
  <2>9. DelegationInWindow'
    BY <1>1, <2>1, <2>3 DEF DelegationInWindow
  <2> QED BY <2>4, <2>5, <2>6, <2>7, <2>8, <2>9
<1>3. CASE UNCHANGED row
  <2>1. IdleCall.stage = "idle"
    BY DEF IdleCall
  <2> QED BY <1>1, <1>3, <2>1, IdleType, CallMoves
<1> QED BY <1>2, <1>3 DEF AckCommit

-------------------------------------------------------------------------------
LEMMA TickInv ==
  ASSUME DeviceInv, Tick
  PROVE  DeviceInv'
<1> USE DEF DeviceInv
<1>1. /\ now \in Nat /\ now' = now + 1 /\ now' \in Nat
      /\ UNCHANGED <<row, start, page, call, saved, approvedAt>>
  BY DEF Tick, DeviceTypeOK
<1>2. DeviceTypeOK' /\ RowBound' /\ CallBound' /\ LateBound'
  BY <1>1 DEF DeviceTypeOK, RowBound, CallBound, LateBound
<1>3. PageBound'
  <2>1. \A p \in Page : page[p].delegationExpiresAt \in Nat
    BY DEF DeviceTypeOK, PageState
  <2>2. \A t \in Transaction : row[t].ttl \in Nat
    BY DEF DeviceTypeOK, Row
  <2> QED BY <1>1, <2>1, <2>2 DEF PageBound
<1>4. StartBound'
  <2>1. \A s \in Starter : start[s].at \in Nat
    BY DEF DeviceTypeOK, StartState
  <2> QED BY <1>1, <2>1 DEF StartBound
<1>5. ResultRetained'
  <2>1. \A t \in Transaction : row[t].expiresAt \in Nat
    BY DEF DeviceTypeOK, Row
  <2> QED BY <1>1, <2>1 DEF ResultRetained
<1>6. SpentWasSaved' /\ DelegationInWindow' /\ WipedAtStart'
  BY <1>1 DEF SpentWasSaved, DelegationInWindow, WipedAtStart, Wipeable
<1> QED BY <1>2, <1>3, <1>4, <1>5, <1>6

LEMMA StepInv == DeviceInv /\ [Next]_vars => DeviceInv'
<1> SUFFICES ASSUME DeviceInv, [Next]_vars PROVE DeviceInv'
  OBVIOUS
<1>1. ASSUME NEW s \in Starter, StartCount(s) PROVE DeviceInv'
  <2>1. PICK ttl \in Ttl :
          start' = [start EXCEPT ![s] =
            [stage |-> "counted", at |-> now, ttl |-> ttl, late |-> {}]]
    BY <1>1 DEF StartCount
  <2> DEFINE v == [stage |-> "counted", at |-> now, ttl |-> ttl, late |-> {}]
  <2>2. now \in Nat /\ ttl \in Nat /\ now <= now
    BY DeviceAssumption DEF DeviceInv, DeviceTypeOK
  <2>3. v \in StartState /\ v.stage = "counted" /\ v.at <= now
    BY <2>2 DEF StartState
  <2>4. UNCHANGED <<now, row, page, call, saved, approvedAt>> /\ start' = [start EXCEPT ![s] = v]
    BY <1>1, <2>1 DEF StartCount
  <2> HIDE DEF v
  <2> QED BY <2>3, <2>4, StartMoves
<1>2. ASSUME NEW s \in Starter, StartFail(s) PROVE DeviceInv'
  <2>1. IdleStart.stage = "idle"
    BY DEF IdleStart
  <2> QED BY <1>2, <2>1, IdleType, StartMoves DEF StartFail
<1>3. ASSUME NEW p \in Page, ApproveFail(p) PROVE DeviceInv'
  <2>1. IdlePage.stage = "idle"
    BY DEF IdlePage
  <2> QED BY <1>3, <2>1, IdleType, PageMoves DEF ApproveFail
<1>4. ASSUME NEW c \in Call, CallFail(c) PROVE DeviceInv'
  <2>1. IdleCall.stage = "idle"
    BY DEF IdleCall
  <2> QED BY <1>4, <2>1, IdleType, CallMoves DEF CallFail
<1>5. ASSUME NEW c \in Call, NEW t \in Transaction, AckRead(c, t) PROVE DeviceInv'
  <2> DEFINE v == [IdleCall EXCEPT !.stage = "acking", !.tx = t]
  <2>1. v \in CallState /\ v.stage = "acking" /\ v.tx = t
    BY DEF IdleCall, CallState, DeviceInv, DeviceTypeOK
  <2>2. /\ call' = [call EXCEPT ![c] = v] /\ saved[t] # NoPage
        /\ UNCHANGED <<now, row, start, page, saved, approvedAt>>
    BY <1>5 DEF AckRead
  <2> HIDE DEF v
  <2> QED BY <2>1, <2>2, CallMoves
<1>6. CASE UNCHANGED vars
  <2>1. DeviceTypeOK' /\ RowBound' /\ PageBound' /\ CallBound' /\ StartBound' /\ LateBound'
    BY <1>6 DEF vars, DeviceInv, DeviceTypeOK, RowBound, PageBound, CallBound, StartBound,
                LateBound
  <2>2. ResultRetained' /\ SpentWasSaved' /\ DelegationInWindow' /\ WipedAtStart'
    BY <1>6 DEF vars, DeviceInv, ResultRetained, SpentWasSaved, DelegationInWindow,
                WipedAtStart, Wipeable
  <2> QED BY <2>1, <2>2 DEF DeviceInv
<1>7. ASSUME NEW p \in Page, ApproveClock(p) \/ ApproveCommit(p) PROVE DeviceInv'
  BY <1>7, ApproveClockInv, ApproveCommitInv
<1> QED
  BY <1>1, <1>2, <1>3, <1>4, <1>5, <1>6, <1>7, WipeInv, CreateInv, ApproveReadInv,
     PollReadInv, PollAnswerInv, AckCommitInv, TickInv DEF Next

-------------------------------------------------------------------------------
(* The device flow is a one-time handoff.                                  *)

\* A step that leaves what a row shows of the handoff alone.
LEMMA SameHandoff ==
  ASSUME \A t \in Transaction :
           PhaseOf(row'[t]) = PhaseOf(row[t]) /\ ResultOf(row'[t]) = ResultOf(row[t])
  PROVE  UNCHANGED <<phaseBar, resultBar>>
BY DEF phaseBar, resultBar

\* An acknowledgement ends one handoff.
LEMMA CloseStep ==
  ASSUME NEW t \in Transaction, PhaseOf(row[t]) # "over", PhaseOf(row'[t]) = "over",
         ResultOf(row'[t]) = NoPage, \A u \in Transaction \ {t} : row'[u] = row[u]
  PROVE  Handoff!Close(t)
<1>1. phaseBar[t] # "over"
  BY DEF phaseBar
<1>2. phaseBar' = [phaseBar EXCEPT ![t] = "over"]
  <2>1. phaseBar' = [u \in Transaction |-> PhaseOf(row'[u])]
    BY DEF phaseBar
  <2>2. [phaseBar EXCEPT ![t] = "over"] =
          [u \in Transaction |-> IF u = t THEN "over" ELSE PhaseOf(row[u])]
    BY DEF phaseBar
  <2>3. \A u \in Transaction : PhaseOf(row'[u]) = IF u = t THEN "over" ELSE PhaseOf(row[u])
    OBVIOUS
  <2> QED BY <2>1, <2>2, <2>3
<1>3. resultBar' = [resultBar EXCEPT ![t] = NoPage]
  <2>1. resultBar' = [u \in Transaction |-> ResultOf(row'[u])]
    BY DEF resultBar
  <2>2. [resultBar EXCEPT ![t] = NoPage] =
          [u \in Transaction |-> IF u = t THEN NoPage ELSE ResultOf(row[u])]
    BY DEF resultBar
  <2>3. \A u \in Transaction : ResultOf(row'[u]) = IF u = t THEN NoPage ELSE ResultOf(row[u])
    OBVIOUS
  <2> QED BY <2>1, <2>2, <2>3
<1> QED BY <1>1, <1>2, <1>3 DEF Handoff!Close

\* An approval decides one.
LEMMA DecideStep ==
  ASSUME NEW t \in Transaction, PhaseOf(row[t]) = "open", PhaseOf(row'[t]) = "available",
         ResultOf(row'[t]) \in Page \X Nat, \A u \in Transaction \ {t} : row'[u] = row[u]
  PROVE  Handoff!Decide(t)
BY DEF Handoff!Decide, phaseBar, resultBar

\* A start call clears several.
LEMMA CloseAllStep ==
  ASSUME NEW E \in SUBSET Transaction,
         \A t \in E : /\ PhaseOf(row[t]) = "available" /\ PhaseOf(row'[t]) = "over"
                      /\ ResultOf(row'[t]) = NoPage,
         \A t \in Transaction \ E : row'[t] = row[t]
  PROVE  Handoff!CloseAll(E)
BY DEF Handoff!CloseAll, phaseBar, resultBar

LEMMA HandoffStep == DeviceInv /\ [Next]_vars => [Handoff!Next]_<<phaseBar, resultBar>>
<1> SUFFICES ASSUME DeviceInv, [Next]_vars PROVE [Handoff!Next]_<<phaseBar, resultBar>>
  OBVIOUS
<1>t. DeviceTypeOK /\ RowBound /\ PageBound /\ CallBound
  BY DEF DeviceInv
<1>r. row \in [Transaction -> Row]
  BY <1>t DEF DeviceTypeOK
<1>1. ASSUME UNCHANGED row PROVE UNCHANGED <<phaseBar, resultBar>>
  BY <1>1, SameHandoff
<1>2. ASSUME NEW s \in Starter, StartWipe(s) PROVE Handoff!Next
  <2>1. PICK E \in SUBSET Transaction : E = {t \in Transaction : Wipeable(t, start[s].at)}
    OBVIOUS
  <2>2. ASSUME NEW t \in E
        PROVE  /\ PhaseOf(row[t]) = "available" /\ PhaseOf(row'[t]) = "over"
               /\ ResultOf(row'[t]) = NoPage
    <3>1. t \in Transaction /\ row[t].status = "approved" /\ row[t].result # NoPage
      BY <2>1 DEF Wipeable
    <3>2. row'[t] = [row[t] EXCEPT !.result = NoPage]
      BY <1>2, <2>1, <3>1 DEF StartWipe
    <3>3. row'[t].status = "approved" /\ row'[t].result = NoPage
      BY <1>r, <3>1, <3>2 DEF Row
    <3> QED BY <3>1, <3>3 DEF PhaseOf, ResultOf
  <2>3. ASSUME NEW t \in Transaction \ E PROVE row'[t] = row[t]
    BY <1>2, <2>1 DEF StartWipe
  <2>4. Handoff!CloseAll(E)
    BY <2>2, <2>3, CloseAllStep
  <2> QED BY <2>4 DEF Handoff!Next
<1>3. ASSUME NEW s \in Starter, StartCreate(s) PROVE UNCHANGED <<phaseBar, resultBar>>
  <2>1. PICK t \in Transaction :
          /\ row[t].status = "absent"
          /\ row'[t].status = "pending"
          /\ \A u \in Transaction \ {t} : row'[u] = row[u]
    BY <1>3, <1>r DEF StartCreate
  <2>2. PhaseOf(row'[t]) = PhaseOf(row[t]) /\ ResultOf(row'[t]) = ResultOf(row[t])
    BY <2>1 DEF PhaseOf, ResultOf
  <2> QED BY <2>1, <2>2, SameHandoff
<1>4. ASSUME NEW p \in Page, ApproveCommit(p) PROVE Handoff!Next
  <2>1. PICK t \in Transaction : t = page[p].tx
    BY <1>4, <1>t DEF ApproveCommit, PageBound
  <2>2. PICK d \in Nat : d = page[p].delegationExpiresAt
    BY <1>t DEF DeviceTypeOK, PageState
  <2>3. /\ row[t].status = "pending"
        /\ row' = [row EXCEPT
              ![t].status = "approved", ![t].result = p, ![t].approvedBy = p,
              ![t].delegationExpiresAt = d,
              ![t].expiresAt = Larger(@, page[p].resultExpiresAt)]
    BY <1>4, <2>1, <2>2 DEF ApproveCommit, Pending
  <2>4. /\ row'[t].status = "approved" /\ row'[t].result = p
        /\ row'[t].delegationExpiresAt = d
        /\ \A u \in Transaction \ {t} : row'[u] = row[u]
    BY <1>r, <2>3 DEF Row
  <2>5. p # NoPage
    BY DeviceAssumption
  <2>6. /\ PhaseOf(row[t]) = "open" /\ PhaseOf(row'[t]) = "available"
        /\ ResultOf(row'[t]) = <<p, d>>
    BY <2>3, <2>4, <2>5 DEF PhaseOf, ResultOf
  <2>7. ResultOf(row'[t]) \in Page \X Nat
    BY <2>6
  <2>8. Handoff!Decide(t)
    BY <2>4, <2>6, <2>7, DecideStep
  <2> QED BY <2>8 DEF Handoff!Next
<1>5. ASSUME NEW c \in Call, PollAnswer(c) PROVE UNCHANGED <<phaseBar, resultBar>>
  <2>1. \A u \in Transaction : /\ row'[u].status = row[u].status
                               /\ row'[u].result = row[u].result
                               /\ row'[u].delegationExpiresAt = row[u].delegationExpiresAt
    BY <1>5, <1>r DEF PollAnswer, Row
  <2> QED BY <2>1, SameHandoff DEF PhaseOf, ResultOf
<1>6. ASSUME NEW c \in Call, AckCommit(c) PROVE [Handoff!Next]_<<phaseBar, resultBar>>
  <2>1. PICK t \in Transaction : t = call[c].tx
    BY <1>6, <1>t DEF AckCommit, CallBound
  <2>2. CASE UNCHANGED row
    BY <1>1, <2>2
  <2>3. CASE /\ row[t].status = "approved"
             /\ row' = [row EXCEPT ![t].status = "consumed", ![t].result = NoPage]
    <3>1. /\ row'[t].status = "consumed" /\ \A u \in Transaction \ {t} : row'[u] = row[u]
          /\ row[t].status = "approved"
      BY <1>r, <2>3 DEF Row
    <3>2. PhaseOf(row'[t]) = "over" /\ ResultOf(row'[t]) = NoPage
      BY <3>1 DEF PhaseOf, ResultOf
    <3>3. CASE row[t].result # NoPage
      <4>1. PhaseOf(row[t]) # "over"
        BY <3>1, <3>3 DEF PhaseOf
      <4>2. Handoff!Close(t)
        BY <3>1, <3>2, <4>1, CloseStep
      <4> QED BY <4>2 DEF Handoff!Next
    <3>4. CASE row[t].result = NoPage
      <4>1. PhaseOf(row[t]) = "over" /\ ResultOf(row[t]) = NoPage
        BY <3>1, <3>4 DEF PhaseOf, ResultOf
      <4> QED BY <3>1, <3>2, <4>1, SameHandoff
    <3> QED BY <3>3, <3>4
  <2> QED BY <1>6, <2>1, <2>2, <2>3 DEF AckCommit
<1>7. ASSUME UNCHANGED row PROVE [Handoff!Next]_<<phaseBar, resultBar>>
  BY <1>1, <1>7
<1> QED
  BY <1>2, <1>3, <1>4, <1>5, <1>6, <1>7 DEF Next, vars, StartCount, StartFail, ApproveRead,
     ApproveClock, ApproveFail, PollRead, AckRead, CallFail, Tick

-------------------------------------------------------------------------------
(* The theorems.                                                           *)

\* The inductive invariant of the device flow holds in every reachable state.
THEOREM DeviceInvariant == Spec => []DeviceInv
<1>1. DeviceInv /\ [Next]_vars => DeviceInv'
  BY StepInv
<1> QED BY <1>1, InitInv, PTL DEF Spec

\* Every row and every call keeps its type.
THEOREM DeviceTypes == Spec => []DeviceTypeOK
<1>1. DeviceInv => DeviceTypeOK
  BY DEF DeviceInv
<1> QED BY <1>1, DeviceInvariant, PTL

\* A promised result is there until its retention ends, for any number of start calls.
THEOREM ResultsAreRetained == Spec => []ResultRetained
<1>1. DeviceInv => ResultRetained
  BY DEF DeviceInv
<1> QED BY <1>1, DeviceInvariant, PTL

\* A result is spent only when the command line has saved it.
THEOREM SpentWereSaved == Spec => []SpentWasSaved
<1>1. DeviceInv => SpentWasSaved
  BY DEF DeviceInv
<1> QED BY <1>1, DeviceInvariant, PTL

\* No delegation is approved for longer than its transaction asked, counted from the
\* approval.
THEOREM DelegationsInWindow == Spec => []DelegationInWindow
<1>1. DeviceInv => DelegationInWindow
  BY DEF DeviceInv
<1> QED BY <1>1, DeviceInvariant, PTL

\* A start call that has cleared the old results leaves behind only those of approvals that
\* had read the clock of the store and not written yet, for any number of both.
THEOREM OldResultsAreWiped == Spec => []WipedAtStart
<1>1. DeviceInv => WipedAtStart
  BY DEF DeviceInv
<1> QED BY <1>1, DeviceInvariant, PTL

\* Every behaviour of the device flow is one of a one-time handoff: a transaction is decided
\* once, its result never changes, and it is over for good.
THEOREM DeviceImplementsHandoff == Spec => DecidedOnce
<1>1. Init => Handoff!Init
  BY DEF Init, Handoff!Init, AbsentRow, phaseBar, resultBar, PhaseOf, ResultOf
<1>2. DeviceInv /\ [Next]_vars => [Handoff!Next]_<<phaseBar, resultBar>>
  BY HandoffStep
<1> QED
  BY <1>1, <1>2, DeviceInvariant, PTL DEF Spec, DecidedOnce, Handoff!Spec

-------------------------------------------------------------------------------
(* The start limit.  Of the rows in a window and the calls that will add one,  *)
(* the call that counted last saw the rows and knew nothing of the calls.      *)

Started == {t \in Transaction : row[t].status # "absent"}

LimitInv ==
  /\ IsFiniteSet(Started)
  /\ \A from \in Nat :
       Cardinality(StartedIn(from)) + Cardinality(StartingIn(from))
         < StartLimit + Cardinality(Starter)

\* Sets of rows and of calls are finite.
LEMMA WindowsAreFinite ==
  ASSUME IsFiniteSet(Started), IsFiniteSet(Starter), NEW from \in Nat
  PROVE  /\ IsFiniteSet(StartedIn(from)) /\ Cardinality(StartedIn(from)) \in Nat
         /\ IsFiniteSet(StartingIn(from)) /\ Cardinality(StartingIn(from)) \in Nat
         /\ Cardinality(StartingIn(from)) <= Cardinality(Starter)
         /\ Cardinality(Starter) \in Nat
<1>1. StartedIn(from) \in SUBSET Started /\ StartingIn(from) \in SUBSET Starter
  BY DEF StartedIn, StartingIn, Started
<1>2. IsFiniteSet(StartedIn(from)) /\ IsFiniteSet(StartingIn(from))
  BY <1>1, FS_Subset
<1>3. Cardinality(StartingIn(from)) <= Cardinality(Starter)
  BY <1>1, FS_Subset
<1> QED BY <1>2, <1>3, FS_CardinalityType

LEMMA LimitInit ==
  ASSUME Init, IsFiniteSet(Starter), 0 < StartLimit
  PROVE  LimitInv
<1>1. Started = {}
  BY DEF Init, Started, AbsentRow
<1>2. \A from \in Nat : StartedIn(from) = {} /\ StartingIn(from) = {}
  BY DEF Init, StartedIn, StartingIn, AbsentRow, IdleStart
<1>3. IsFiniteSet({}) /\ Cardinality({}) = 0 /\ Cardinality(Starter) \in Nat
  BY FS_EmptySet, FS_CardinalityType
<1>4. ASSUME NEW from \in Nat
      PROVE  Cardinality(StartedIn(from)) + Cardinality(StartingIn(from))
               < StartLimit + Cardinality(Starter)
  <2>1. Cardinality(StartedIn(from)) = 0 /\ Cardinality(StartingIn(from)) = 0
    BY <1>2, <1>3
  <2> QED BY <1>3, <2>1, DeviceAssumption
<1> QED BY <1>1, <1>3, <1>4 DEF LimitInv

\* A step that starts nothing and counts nothing.
LEMMA LimitKeeps ==
  ASSUME LimitInv, IsFiniteSet(Starter),
         \A t \in Transaction : /\ row'[t].requestedAt = row[t].requestedAt
                                /\ row'[t].status = "absent" <=> row[t].status = "absent",
         \A s \in Starter : start'[s].stage # "idle" =>
           start[s].stage # "idle" /\ start'[s].at = start[s].at
  PROVE  LimitInv'
<1>1. Started' = Started
  BY DEF Started
<1>2. ASSUME NEW from \in Nat
      PROVE  Cardinality(StartedIn(from))' + Cardinality(StartingIn(from))'
               < StartLimit + Cardinality(Starter)
  <2>1. StartedIn(from)' = StartedIn(from)
    BY DEF StartedIn
  <2>2. StartingIn(from)' \in SUBSET StartingIn(from)
    BY DEF StartingIn
  <2>3. /\ IsFiniteSet(StartingIn(from)) /\ Cardinality(StartingIn(from)) \in Nat
        /\ Cardinality(StartedIn(from)) \in Nat /\ Cardinality(Starter) \in Nat
    BY WindowsAreFinite DEF LimitInv
  <2>4. /\ IsFiniteSet(StartingIn(from)')
        /\ Cardinality(StartingIn(from)') <= Cardinality(StartingIn(from))
    BY <2>2, <2>3, FS_Subset
  <2>5. Cardinality(StartingIn(from)') \in Nat
    BY <2>4, FS_CardinalityType
  <2>6. Cardinality(StartedIn(from)) + Cardinality(StartingIn(from))
          < StartLimit + Cardinality(Starter)
    BY DEF LimitInv
  <2> HIDE DEF LimitInv
  <2> QED BY <2>1, <2>3, <2>4, <2>5, <2>6, DeviceAssumption
<1> QED BY <1>1, <1>2 DEF LimitInv

\* The call that counts finds fewer rows than the limit, in every window that it falls into.
LEMMA CountLimit ==
  ASSUME DeviceTypeOK, LimitInv, IsFiniteSet(Starter), NEW s \in Starter, StartCount(s)
  PROVE  LimitInv'
<1>1. /\ row' = row /\ start[s].stage = "idle" /\ start'[s].at = now
      /\ \A r \in Starter \ {s} : start'[r] = start[r]
  BY DEF StartCount, DeviceTypeOK
<1>2. Started' = Started /\ IsFiniteSet(Started)
  BY <1>1 DEF Started, LimitInv
<1>3. IsFiniteSet(Recent) /\ Cardinality(Recent) < StartLimit
  <2>1. Recent \in SUBSET Started
    BY DEF Recent, Started
  <2> QED BY <1>2, <2>1, FS_Subset DEF StartCount, MayStart
<1>4. ASSUME NEW from \in Nat
      PROVE  Cardinality(StartedIn(from))' + Cardinality(StartingIn(from))'
               < StartLimit + Cardinality(Starter)
  <2>1. StartedIn(from)' = StartedIn(from)
    BY <1>1 DEF StartedIn
  <2>2. /\ Cardinality(StartedIn(from)) \in Nat /\ Cardinality(StartingIn(from)) \in Nat
        /\ Cardinality(Starter) \in Nat
    BY WindowsAreFinite DEF LimitInv
  <2>3. CASE now \in from..(from + StartWindow)
    <3>1. StartedIn(from) \in SUBSET Recent
      <4>1. \A t \in Transaction : row[t].requestedAt \in Nat
        BY DEF DeviceTypeOK, Row
      <4> QED BY <2>3, <4>1, DeviceAssumption DEF StartedIn, Recent, DeviceTypeOK
    <3>2. Cardinality(StartedIn(from)) <= Cardinality(Recent) /\ Cardinality(Recent) \in Nat
      BY <1>3, <3>1, FS_Subset, FS_CardinalityType
    <3>3. StartingIn(from)' \in SUBSET Starter
      BY DEF StartingIn
    <3>4. /\ Cardinality(StartingIn(from)') <= Cardinality(Starter)
          /\ Cardinality(StartingIn(from)') \in Nat
      BY <3>3, FS_Subset, FS_CardinalityType
    <3> QED BY <1>3, <2>1, <2>2, <3>2, <3>4, DeviceAssumption
  <2>4. CASE now \notin from..(from + StartWindow)
    <3>1. StartingIn(from)' = StartingIn(from)
      BY <1>1, <2>4 DEF StartingIn
    <3> QED BY <2>1, <3>1 DEF LimitInv
  <2> QED BY <2>3, <2>4
<1> QED BY <1>2, <1>4 DEF LimitInv

\* A call that inserts its row trades itself for the row.
LEMMA CreateLimit ==
  ASSUME DeviceTypeOK, LimitInv, IsFiniteSet(Starter), NEW s \in Starter, StartCreate(s)
  PROVE  LimitInv'
<1>1. PICK t \in Transaction :
        /\ row[t].status = "absent" /\ row'[t].status = "pending"
        /\ row'[t].requestedAt = start[s].at
        /\ \A u \in Transaction \ {t} : row'[u] = row[u]
  BY DEF StartCreate, DeviceTypeOK
<1>2. /\ start[s].stage = "wiped" /\ start'[s].stage = "idle"
      /\ \A r \in Starter \ {s} : start'[r] = start[r]
  BY DEF StartCreate, DeviceTypeOK, IdleStart
<1>3. Started' = Started \cup {t}
  BY <1>1 DEF Started
<1>4. IsFiniteSet(Started')
  BY <1>3, FS_AddElement DEF LimitInv
<1>5. ASSUME NEW from \in Nat
      PROVE  Cardinality(StartedIn(from))' + Cardinality(StartingIn(from))'
               < StartLimit + Cardinality(Starter)
  <2>1. /\ IsFiniteSet(StartedIn(from)) /\ Cardinality(StartedIn(from)) \in Nat
        /\ IsFiniteSet(StartingIn(from)) /\ Cardinality(StartingIn(from)) \in Nat
        /\ Cardinality(Starter) \in Nat
    BY WindowsAreFinite DEF LimitInv
  <2>2. CASE start[s].at \in from..(from + StartWindow)
    <3>1. /\ StartedIn(from)' = StartedIn(from) \cup {t} /\ t \notin StartedIn(from)
          /\ StartingIn(from)' = StartingIn(from) \ {s} /\ s \in StartingIn(from)
      BY <1>1, <1>2, <2>2 DEF StartedIn, StartingIn
    <3>2. /\ Cardinality(StartedIn(from)') = Cardinality(StartedIn(from)) + 1
          /\ Cardinality(StartingIn(from)') = Cardinality(StartingIn(from)) - 1
      <4>1. Cardinality(StartedIn(from) \cup {t}) = Cardinality(StartedIn(from)) + 1
        BY <2>1, <3>1, FS_AddElement
      <4>2. Cardinality(StartingIn(from) \ {s}) = Cardinality(StartingIn(from)) - 1
        BY <2>1, <3>1, FS_RemoveElement
      <4> QED BY <3>1, <4>1, <4>2
    <3>3. Cardinality(StartedIn(from)) + Cardinality(StartingIn(from))
            < StartLimit + Cardinality(Starter)
      BY DEF LimitInv
    <3> QED BY <2>1, <3>2, <3>3, DeviceAssumption
  <2>3. CASE start[s].at \notin from..(from + StartWindow)
    <3>1. StartedIn(from)' = StartedIn(from) /\ StartingIn(from)' = StartingIn(from)
      BY <1>1, <1>2, <2>3 DEF StartedIn, StartingIn
    <3> QED BY <3>1 DEF LimitInv
  <2> QED BY <2>2, <2>3
<1> QED BY <1>4, <1>5 DEF LimitInv

\* No other step touches what the limit counts.
LEMMA LimitStep ==
  ASSUME DeviceInv, LimitInv, IsFiniteSet(Starter), [Next]_vars
  PROVE  LimitInv'
<1> DEFINE SameRows ==
             \A t \in Transaction : /\ row'[t].requestedAt = row[t].requestedAt
                                    /\ row'[t].status = "absent" <=> row[t].status = "absent"
<1>0. DeviceTypeOK /\ \A t \in Transaction : row[t] \in Row
  BY DEF DeviceInv, DeviceTypeOK
<1>1. CASE \E s \in Starter : StartCount(s)
  BY <1>0, <1>1, CountLimit
<1>2. CASE \E s \in Starter : StartWipe(s)
  <2>1. PICK s \in Starter : StartWipe(s)
    BY <1>2
  <2>2. SameRows
    BY <1>0, <2>1 DEF StartWipe, Row
  <2>3. \A r \in Starter : start'[r].stage # "idle" =>
          start[r].stage # "idle" /\ start'[r].at = start[r].at
    BY <1>0, <2>1 DEF StartWipe, DeviceTypeOK, StartState
  <2> QED BY <2>2, <2>3, LimitKeeps
<1>3. CASE \E s \in Starter : StartCreate(s)
  BY <1>0, <1>3, CreateLimit
<1>4. CASE \E s \in Starter : StartFail(s)
  <2>1. PICK s \in Starter : StartFail(s)
    BY <1>4
  <2>2. \A r \in Starter : start'[r] = start[r] \/ start'[r].stage = "idle"
    BY <1>0, <2>1 DEF StartFail, DeviceTypeOK, IdleStart
  <2> QED BY <2>1, <2>2, LimitKeeps DEF StartFail
<1>5. CASE \E p \in Page : ApproveCommit(p)
  <2>1. PICK p \in Page : ApproveCommit(p)
    BY <1>5
  <2>2. SameRows
    <3> DEFINE u == page[p].tx
    <3>1. row[u].status = "pending" /\ u \in Transaction
      BY <2>1 DEF ApproveCommit, Pending, DeviceInv, PageBound
    <3>2. /\ row'[u].status = "approved" /\ row'[u].requestedAt = row[u].requestedAt
          /\ \A t \in Transaction \ {u} : row'[t] = row[t]
      BY <1>0, <2>1, <3>1 DEF ApproveCommit, DeviceTypeOK, Row
    <3> QED BY <3>1, <3>2
  <2> QED BY <2>1, <2>2, LimitKeeps DEF ApproveCommit
<1>6. CASE \E c \in Call : PollAnswer(c)
  <2>1. PICK c \in Call : PollAnswer(c)
    BY <1>6
  <2>2. SameRows
    BY <1>0, <2>1 DEF PollAnswer, DeviceTypeOK, Row
  <2> QED BY <2>1, <2>2, LimitKeeps DEF PollAnswer
<1>7. CASE \E c \in Call : AckCommit(c)
  <2>1. PICK c \in Call : AckCommit(c)
    BY <1>7
  <2>2. SameRows
    BY <1>0, <2>1 DEF AckCommit, DeviceTypeOK, Row
  <2> QED BY <2>1, <2>2, LimitKeeps DEF AckCommit
<1>8. CASE row' = row /\ start' = start
  BY <1>8, LimitKeeps
<1> QED BY <1>1, <1>2, <1>3, <1>4, <1>5, <1>6, <1>7, <1>8
        DEF Next, ApproveRead, ApproveClock, ApproveFail, PollRead, AckRead, CallFail, Tick, vars

\* However start calls overlap, no window of the start limit holds more transactions than the
\* limit and the calls that can be in progress together, less one.
THEOREM StartsAreBounded ==
  ASSUME IsFiniteSet(Starter), 0 < StartLimit
  PROVE  Spec => []StartsBounded
<1>1. Init => LimitInv
  BY LimitInit
<1>2. DeviceInv /\ LimitInv /\ [Next]_vars => LimitInv'
  BY LimitStep
<1>3. DeviceInv /\ LimitInv => StartsBounded
  <2> SUFFICES ASSUME DeviceInv, LimitInv, NEW from \in 0..now
               PROVE  Cardinality(StartedIn(from)) < StartLimit + Cardinality(Starter)
    BY DEF StartsBounded
  <2>1. from \in Nat
    BY DEF DeviceInv, DeviceTypeOK
  <2>2. /\ Cardinality(StartedIn(from)) \in Nat /\ Cardinality(StartingIn(from)) \in Nat
        /\ Cardinality(Starter) \in Nat
    BY <2>1, WindowsAreFinite DEF LimitInv
  <2>3. Cardinality(StartedIn(from)) + Cardinality(StartingIn(from))
          < StartLimit + Cardinality(Starter)
    BY <2>1 DEF LimitInv
  <2> QED BY <2>2, <2>3, DeviceAssumption
<1> QED BY <1>1, <1>2, <1>3, DeviceInvariant, PTL DEF Spec
=============================================================================
