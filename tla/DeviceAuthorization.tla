-------------------------- MODULE DeviceAuthorization --------------------------
(***************************************************************************)
(* The device flow: a command line starts a transaction, its owner approves *)
(* it on a page, the command line polls until it has the encrypted result, *)
(* saves it and acknowledges it.  Every query of a handler is one action,  *)
(* so that what a handler read may be old when it writes.                  *)
(*                                                                         *)
(* All starts come from one network address: the start limit counts per    *)
(* address and nothing else depends on it.  A result is named by the page  *)
(* that sealed it.                                                         *)
(***************************************************************************)
EXTENDS Naturals, FiniteSets

CONSTANTS
  Transaction,
  Starter,         \* start calls in progress
  Page,            \* approval pages
  NoPage,
  Call,            \* polls and acknowledgements in progress
  Ttl,             \* lifetimes a command line may ask for
  TransactionTtl,  \* 10 min: how long a transaction waits for its approval
  Retention,       \* 10 min: how long an approved result may be fetched
  StartLimit,      \* 5 starts ...
  StartWindow,     \* ... in 10 min
  PollInterval,    \* 2 s
  MaxTime          \* bound on the clock

ASSUME DeviceAssumption ==
  /\ NoPage \notin Page
  /\ Ttl \subseteq Nat \ {0}
  /\ TransactionTtl \in Nat \ {0} /\ Retention \in Nat /\ PollInterval \in Nat
  /\ StartLimit \in Nat /\ StartWindow \in Nat /\ MaxTime \in Nat

VARIABLES
  now,
  row,         \* device_authorization
  start,       \* what each start call is in the middle of
  page,        \* what each approval is in the middle of
  call,        \* what each poll or acknowledgement is in the middle of
  saved,       \* the result the command line has stored, by transaction
  approvedAt   \* history: when the owner approved

vars == <<now, row, start, page, call, saved, approvedAt>>

-------------------------------------------------------------------------------
\* expiresAt is the deadline of the approval, then the retention of the result.
Row ==
  [status: {"absent", "pending", "approved", "consumed"}, requestedAt: Nat, expiresAt: Nat,
   ttl: Nat, delegationExpiresAt: Nat, nextPollAt: Nat, result: Page \cup {NoPage},
   approvedBy: Page \cup {NoPage}]

AbsentRow ==
  [status |-> "absent", requestedAt |-> 0, expiresAt |-> 0, ttl |-> 0,
   delegationExpiresAt |-> 0, nextPollAt |-> 0, result |-> NoPage, approvedBy |-> NoPage]

\* late is history: the transactions whose approval was between its clock and its write
\* when the start call cleared old results.
StartState ==
  [stage: {"idle", "counted", "wiped"}, at: Nat, ttl: Nat, late: SUBSET Transaction]

IdleStart == [stage |-> "idle", at |-> 0, ttl |-> 0, late |-> {}]

\* at is the clock of the store, which an approval reads once for its two queries.
PageState ==
  [stage: {"idle", "approving", "committing"}, tx: Transaction \cup {NoPage},
   delegationExpiresAt: Nat, resultExpiresAt: Nat, at: Nat]

IdlePage ==
  [stage |-> "idle", tx |-> NoPage, delegationExpiresAt |-> 0, resultExpiresAt |-> 0, at |-> 0]

CallState ==
  [stage: {"idle", "polling", "acking"}, tx: Transaction \cup {NoPage}, at: Nat,
   result: Page \cup {NoPage}]

IdleCall == [stage |-> "idle", tx |-> NoPage, at |-> 0, result |-> NoPage]

DeviceTypeOK ==
  /\ now \in Nat
  /\ row \in [Transaction -> Row]
  /\ start \in [Starter -> StartState]
  /\ page \in [Page -> PageState]
  /\ call \in [Call -> CallState]
  /\ saved \in [Transaction -> Page \cup {NoPage}]
  /\ approvedAt \in [Transaction -> Nat]

Init ==
  /\ now = 0
  /\ row = [t \in Transaction |-> AbsentRow]
  /\ start = [s \in Starter |-> IdleStart]
  /\ page = [p \in Page |-> IdlePage]
  /\ call = [c \in Call |-> IdleCall]
  /\ saved = [t \in Transaction |-> NoPage]
  /\ approvedAt = [t \in Transaction |-> 0]

-------------------------------------------------------------------------------
(* Starting a transaction.                                                 *)

Smaller(a, b) == IF a < b THEN a ELSE b

Larger(a, b) == IF a > b THEN a ELSE b

\* The rows the start limit counts.
Recent == {t \in Transaction : row[t].status # "absent" /\ now <= row[t].requestedAt + StartWindow}

MayStart == Cardinality(Recent) < StartLimit

StartCount(s) ==
  /\ start[s].stage = "idle"
  /\ MayStart
  /\ \E ttl \in Ttl :
       start' = [start EXCEPT ![s] =
         [stage |-> "counted", at |-> now, ttl |-> ttl, late |-> {}]]
  /\ UNCHANGED <<now, row, page, call, saved, approvedAt>>

\* Mutant of Wipeable: the transaction's own deadline ends the result as well.
WipeableAtDeadline(t, at) ==
  /\ row[t].status = "approved"
  /\ row[t].result # NoPage
  /\ row[t].requestedAt + TransactionTtl <= at

\* An approved result that nobody acknowledged and whose retention has passed.
Wipeable(t, at) ==
  /\ row[t].status = "approved"
  /\ row[t].result # NoPage
  /\ row[t].expiresAt <= at

\* The transactions with an approval between the clock of the store and its write.
Committing == {page[p].tx : p \in {q \in Page : page[q].stage = "committing"}}

\* wipeExpiredResults, with the clock the start call read first.
StartWipe(s) ==
  /\ start[s].stage = "counted"
  /\ row' = [t \in Transaction |->
       IF Wipeable(t, start[s].at) THEN [row[t] EXCEPT !.result = NoPage] ELSE row[t]]
  /\ start' = [start EXCEPT ![s].stage = "wiped", ![s].late = Committing]
  /\ UNCHANGED <<now, page, call, saved, approvedAt>>

\* The delegation may last its ttl from the latest possible approval.
StartCreate(s) ==
  /\ start[s].stage = "wiped"
  /\ \E t \in Transaction :
       /\ row[t].status = "absent"
       /\ row' = [row EXCEPT ![t] =
            [status |-> "pending", requestedAt |-> start[s].at,
             expiresAt |-> start[s].at + TransactionTtl, ttl |-> start[s].ttl,
             delegationExpiresAt |-> start[s].at + TransactionTtl + start[s].ttl,
             nextPollAt |-> start[s].at, result |-> NoPage, approvedBy |-> NoPage]]
  /\ start' = [start EXCEPT ![s] = IdleStart]
  /\ UNCHANGED <<now, page, call, saved, approvedAt>>

StartFail(s) ==
  /\ start[s].stage # "idle"
  /\ start' = [start EXCEPT ![s] = IdleStart]
  /\ UNCHANGED <<now, row, page, call, saved, approvedAt>>

-------------------------------------------------------------------------------
(* Approving it.                                                           *)

Pending(t, at) == row[t].status = "pending" /\ row[t].expiresAt > at

\* Mutant of WithinWindow: the lifetime is not counted from the approval.
WithinDeadlineWindow(t, expiresAt) ==
  /\ now < expiresAt
  /\ expiresAt <= row[t].delegationExpiresAt

\* The lifetime begins at the approval.
WithinWindow(t, expiresAt) ==
  /\ now < expiresAt
  /\ expiresAt <= now + row[t].ttl
  /\ expiresAt <= row[t].delegationExpiresAt

ApproveRead(p, t) ==
  /\ page[p].stage = "idle"
  /\ Pending(t, now)
  /\ \E expiresAt \in now..row[t].delegationExpiresAt :
       /\ WithinWindow(t, expiresAt)
       /\ page' = [page EXCEPT ![p] =
            [stage |-> "approving", tx |-> t, delegationExpiresAt |-> expiresAt,
             resultExpiresAt |-> Smaller(expiresAt, now + Retention), at |-> 0]]
  /\ UNCHANGED <<now, row, start, call, saved, approvedAt>>

\* The transaction of the store reads the clock and looks for the row.
ApproveClock(p) ==
  /\ page[p].stage = "approving"
  /\ Pending(page[p].tx, now)
  /\ page' = [page EXCEPT ![p].stage = "committing", ![p].at = now]
  /\ UNCHANGED <<now, row, start, call, saved, approvedAt>>

\* Mutant of ApproveCommit: the retention alone is the new deadline.
ApproveCommitShort(p) ==
  /\ page[p].stage = "committing"
  /\ LET t == page[p].tx
     IN  /\ Pending(t, page[p].at)
         /\ row' = [row EXCEPT
              ![t].status = "approved", ![t].result = p, ![t].approvedBy = p,
              ![t].delegationExpiresAt = page[p].delegationExpiresAt,
              ![t].expiresAt = page[p].resultExpiresAt]
         /\ approvedAt' = [approvedAt EXCEPT ![t] = now]
  /\ page' = [page EXCEPT ![p] = IdlePage]
  /\ UNCHANGED <<now, start, call, saved>>

\* Mutant of ApproveCommit: the transaction is not looked at again.
ApproveCommitBlind(p) ==
  /\ page[p].stage = "committing"
  /\ LET t == page[p].tx
     IN  /\ row' = [row EXCEPT
              ![t].status = "approved", ![t].result = p, ![t].approvedBy = p,
              ![t].delegationExpiresAt = page[p].delegationExpiresAt,
              ![t].expiresAt = Larger(@, page[p].resultExpiresAt)]
         /\ approvedAt' = [approvedAt EXCEPT ![t] = now]
  /\ page' = [page EXCEPT ![p] = IdlePage]
  /\ UNCHANGED <<now, start, call, saved>>

\* Its update, with that clock.  The deadline becomes the retention of the result, when that
\* is later.
ApproveCommit(p) ==
  /\ page[p].stage = "committing"
  /\ LET t == page[p].tx
     IN  /\ Pending(t, page[p].at)
         /\ row' = [row EXCEPT
              ![t].status = "approved", ![t].result = p, ![t].approvedBy = p,
              ![t].delegationExpiresAt = page[p].delegationExpiresAt,
              ![t].expiresAt = Larger(@, page[p].resultExpiresAt)]
         /\ approvedAt' = [approvedAt EXCEPT ![t] = now]
  /\ page' = [page EXCEPT ![p] = IdlePage]
  /\ UNCHANGED <<now, start, call, saved>>

\* No longer pending, or the call fails.
ApproveFail(p) ==
  /\ page[p].stage # "idle"
  /\ page' = [page EXCEPT ![p] = IdlePage]
  /\ UNCHANGED <<now, row, start, call, saved, approvedAt>>

-------------------------------------------------------------------------------
(* Fetching and acknowledging the result.                                  *)

Live(t) == row[t].status # "absent" /\ row[t].expiresAt > now

PollRead(c, t) ==
  /\ call[c].stage = "idle"
  /\ Live(t)
  /\ row[t].nextPollAt <= now
  /\ call' = [call EXCEPT ![c] =
       [stage |-> "polling", tx |-> t, at |-> now,
        result |-> IF row[t].status = "approved" THEN row[t].result ELSE NoPage]]
  /\ UNCHANGED <<now, row, start, page, saved, approvedAt>>

\* Mutant of PollAnswer: the answer spends the result.
PollAnswerSpends(c) ==
  /\ call[c].stage = "polling"
  /\ LET t == call[c].tx
     IN  /\ row' = IF call[c].result = NoPage
              THEN [row EXCEPT ![t].nextPollAt = call[c].at + PollInterval]
              ELSE [row EXCEPT ![t].nextPollAt = call[c].at + PollInterval,
                               ![t].status = "consumed", ![t].result = NoPage]
         /\ \/ UNCHANGED saved
            \/ call[c].result # NoPage /\ saved' = [saved EXCEPT ![t] = call[c].result]
  /\ call' = [call EXCEPT ![c] = IdleCall]
  /\ UNCHANGED <<now, start, page, approvedAt>>

\* What was read is answered; the answer may be lost.
PollAnswer(c) ==
  /\ call[c].stage = "polling"
  /\ LET t == call[c].tx
     IN  /\ row' = [row EXCEPT ![t].nextPollAt = call[c].at + PollInterval]
         /\ \/ UNCHANGED saved
            \/ call[c].result # NoPage /\ saved' = [saved EXCEPT ![t] = call[c].result]
  /\ call' = [call EXCEPT ![c] = IdleCall]
  /\ UNCHANGED <<now, start, page, approvedAt>>

\* The command line acknowledges what it saved.  A consumed transaction is
\* acknowledged at once.
AckRead(c, t) ==
  /\ call[c].stage = "idle"
  /\ saved[t] # NoPage
  /\ Live(t)
  /\ row[t].status = "approved"
  /\ call' = [call EXCEPT ![c] = [IdleCall EXCEPT !.stage = "acking", !.tx = t]]
  /\ UNCHANGED <<now, row, start, page, saved, approvedAt>>

\* consumeApproved, which does not look at the retention.  A second acknowledgement
\* that read the row before the first one wrote it is refused.
AckCommit(c) ==
  /\ call[c].stage = "acking"
  /\ LET t == call[c].tx
     IN  \/ /\ row[t].status = "approved"
            /\ row' = [row EXCEPT ![t].status = "consumed", ![t].result = NoPage]
         \/ /\ row[t].status # "approved"
            /\ UNCHANGED row
  /\ call' = [call EXCEPT ![c] = IdleCall]
  /\ UNCHANGED <<now, start, page, saved, approvedAt>>

CallFail(c) ==
  /\ call[c].stage \in {"polling", "acking"}
  /\ call' = [call EXCEPT ![c] = IdleCall]
  /\ UNCHANGED <<now, row, start, page, saved, approvedAt>>

Tick ==
  /\ now < MaxTime
  /\ now' = now + 1
  /\ UNCHANGED <<row, start, page, call, saved, approvedAt>>

Next ==
  \/ \E s \in Starter : StartCount(s) \/ StartWipe(s) \/ StartCreate(s) \/ StartFail(s)
  \/ \E p \in Page : ApproveClock(p) \/ ApproveCommit(p) \/ ApproveFail(p)
  \/ \E p \in Page, t \in Transaction : ApproveRead(p, t)
  \/ \E c \in Call : PollAnswer(c) \/ AckCommit(c) \/ CallFail(c)
  \/ \E c \in Call, t \in Transaction : PollRead(c, t) \/ AckRead(c, t)
  \/ Tick

Spec == Init /\ [][Next]_vars

-------------------------------------------------------------------------------
(* Properties.                                                             *)

\* An approved result can be fetched until its retention ends: no start call that clears
\* old results takes one that is still promised, and a poll never finds it missing.
ResultRetained ==
  \A t \in Transaction :
    row[t].status = "approved" /\ now < row[t].expiresAt => row[t].result = row[t].approvedBy

\* A result is spent only when the command line has it: answers may be lost before that.
SpentWasSaved ==
  \A t \in Transaction :
    row[t].status = "consumed" => saved[t] = row[t].approvedBy /\ saved[t] # NoPage

\* However long the approval was in flight, the delegation lasts at most its ttl from the
\* approval, and from the last moment the transaction could be approved.
DelegationInWindow ==
  \A t \in Transaction : row[t].status \in {"approved", "consumed"} =>
    /\ row[t].delegationExpiresAt <= approvedAt[t] + row[t].ttl
    /\ row[t].delegationExpiresAt < row[t].requestedAt + TransactionTtl + row[t].ttl

\* When a start call has cleared the old results, an expired one is left only by an approval
\* that was between its clock and its write just then: however late the others commit, they
\* leave no result that had expired before the call began.
WipedAtStart ==
  \A s \in Starter : start[s].stage = "wiped" =>
    {t \in Transaction : Wipeable(t, start[s].at)} \subseteq start[s].late

\* What was started, and what is about to be, within one window of the start limit.
StartedIn(from) ==
  {t \in Transaction : row[t].status # "absent" /\ row[t].requestedAt \in from..(from + StartWindow)}

StartingIn(from) ==
  {s \in Starter : start[s].stage # "idle" /\ start[s].at \in from..(from + StartWindow)}

\* The limit is read before the row is written, so start calls that overlap pass it together:
\* by the other calls in progress at most, in any window whatever, and however late they insert.
StartsBounded ==
  \A from \in 0..now : Cardinality(StartedIn(from)) < StartLimit + Cardinality(Starter)

\* What a row shows of the one-time handoff.
PhaseOf(r) ==
  IF r.status \in {"absent", "pending"} THEN "open"
  ELSE IF r.status = "approved" /\ r.result # NoPage THEN "available"
  ELSE "over"

ResultOf(r) ==
  IF r.status = "approved" /\ r.result # NoPage THEN <<r.result, r.delegationExpiresAt>>
  ELSE NoPage

phaseBar == [t \in Transaction |-> PhaseOf(row[t])]

resultBar == [t \in Transaction |-> ResultOf(row[t])]

Handoff == INSTANCE OneResult WITH
  Exchange <- Transaction, Result <- Page \X Nat, NoResult <- NoPage,
  phase <- phaseBar, result <- resultBar

\* A transaction is a one-time handoff: decided once, its result never changed, over for
\* good.
DecidedOnce == Handoff!Spec

=============================================================================
