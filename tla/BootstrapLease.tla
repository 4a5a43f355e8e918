----------------------------- MODULE BootstrapLease -----------------------------
(***************************************************************************)
(* The setup of one TinyCloud account: the state row of one (key, chain,   *)
(* host, version), the runs that claim it and keep its lease alive with    *)
(* heartbeats, the sweep that runs failed setups again, and the reaper of  *)
(* leases nobody holds.                                                    *)
(*                                                                         *)
(* Every statement on the row is one action.  A runner reads the row and   *)
(* the clock first and its UPDATE takes effect later, up to DbLag after.   *)
(* Attempt ids are numbered in the order of the claims that won.           *)
(***************************************************************************)
EXTENDS Naturals, Sequences

CONSTANTS
  Approver,     \* approvals (and their own background retries) in progress
  Sweeper,      \* API instances, each with one sweep timer
  LockTtl,      \* 2 min: a claim or a heartbeat keeps the lease this long
  Deadline,     \* 180 s: the longest a run may work
  Lifetime,     \* 210 s: no heartbeat extends the lease past this from the claim
  SweepDelays,  \* wait after the last attempt before sweep attempt N+1
  SweepLag,     \* bound on how late the sweep timer (60 s) finds the row it may act on
  BatchLag,     \* bound on how long an observed row waits for the runs of the batch before it
  DbLag,        \* bound on the time a statement takes
  MaxTime,      \* bound on the clock
  LastStart,    \* bound: no approval starts and no eligibility changes after this time
  MaxClaims,    \* bound: no approval starts after so many claims
  MaxFaults     \* bound on crashes, database errors and changes of eligibility

Runner == Approver \cup Sweeper

SweepCap == Len(SweepDelays)

ASSUME LeaseAssumption ==
  /\ Approver \cap Sweeper = {}
  /\ LockTtl \in Nat \ {0} /\ Deadline \in Nat /\ Lifetime \in Nat
  /\ Deadline < Lifetime
  /\ SweepDelays \in Seq(Nat)
  /\ SweepLag \in Nat /\ BatchLag \in Nat /\ DbLag \in Nat /\ MaxTime \in Nat /\ LastStart \in Nat
  /\ MaxClaims \in Nat /\ MaxFaults \in Nat

VARIABLES
  now,       \* the clock, in heartbeat intervals (30 s)
  row,       \* tinycloud_bootstrap_state
  eligible,  \* the user signs automatically with a managed key that is not archived
  run,       \* what each runner is in the middle of
  claims,    \* claims that won so far
  doneBy,    \* history: the attempt that completed the row last
  faults     \* crashes and database errors so far

vars == <<now, row, eligible, run, claims, doneBy, faults>>

-------------------------------------------------------------------------------
\* "retryable" is in SWEEP_RETRYABLE_CODES; "reclaim" and every "final" code is not.
Code == {"none", "retryable", "reclaim", "final"}

Row ==
  [status: {"absent", "in_progress", "complete", "failed"}, attempt: Nat, expiresAt: Nat,
   checkedAt: Nat, code: Code, sweepAttempts: Nat]

AbsentRow ==
  [status |-> "absent", attempt |-> 0, expiresAt |-> 0, checkedAt |-> 0, code |-> "none",
   sweepAttempts |-> 0]

\* since: when the stage began; due: a heartbeat has yet to be sent for this time;
\* shaken: a heartbeat met a database error (heartbeatError).
Run ==
  [stage: {"idle", "observed", "claiming", "claimed", "working", "completing", "failing",
           "reaping"},
   since: Nat, seen: Row, reclaim: BOOLEAN, attempt: Nat, claimedAt: Nat, due: BOOLEAN,
   shaken: BOOLEAN, code: Code]

IdleRun ==
  [stage |-> "idle", since |-> 0, seen |-> AbsentRow, reclaim |-> FALSE, attempt |-> 0,
   claimedAt |-> 0, due |-> FALSE, shaken |-> FALSE, code |-> "none"]

BootstrapTypeOK ==
  /\ now \in Nat
  /\ row \in Row
  /\ eligible \in BOOLEAN
  /\ run \in [Runner -> Run]
  /\ claims \in Nat
  /\ doneBy \in Nat
  /\ faults \in Nat

Init ==
  /\ now = 0
  /\ row = AbsentRow
  /\ eligible \in BOOLEAN
  /\ run = [n \in Runner |-> IdleRun]
  /\ claims = 0
  /\ doneBy = 0
  /\ faults = 0

-------------------------------------------------------------------------------
(* What the statements match.                                              *)

MinOf(a, b) == IF a < b THEN a ELSE b

\* { attemptId, status: 'in_progress' }
Held(n) == row.status = "in_progress" /\ row.attempt = run[n].attempt

\* A run that found the row complete, or failed by such a run, is a re-claim.
Reclaims == row.status = "complete" \/ row.code = "reclaim"

Takeable(at) ==
  \/ row.status \in {"complete", "failed"}
  \/ row.status = "in_progress" /\ row.expiresAt < at

\* Mutant of Candidate: the last delay is never used.
CandidateShort ==
  /\ row.code = "retryable"
  /\ row.sweepAttempts + 1 < SweepCap
  /\ \/ row.status = "failed"
     \/ row.status = "in_progress" /\ row.expiresAt < now
  /\ row.checkedAt + SweepDelays[row.sweepAttempts + 1] <= now
  /\ eligible

\* What the sweep selects.
Candidate ==
  /\ row.code = "retryable"
  /\ row.sweepAttempts < SweepCap
  /\ \/ row.status = "failed"
     \/ row.status = "in_progress" /\ row.expiresAt < now
  /\ row.checkedAt + SweepDelays[row.sweepAttempts + 1] <= now
  /\ eligible

\* Mutant of Abandoned: a missing code is taken for one the sweep runs again.
AbandonedWithCode ==
  /\ row.status = "in_progress"
  /\ row.expiresAt < now
  /\ row.code \notin {"retryable", "none"}

\* What the reaper selects: an expired lease whose code the sweep does not run again.
Abandoned ==
  /\ row.status = "in_progress"
  /\ row.expiresAt < now
  /\ row.code # "retryable"

-------------------------------------------------------------------------------
(* Claims.                                                                 *)

\* An approval reads the row; one that finds the lease held waits and gives up.  A
\* complete row is taken over when the node just reported the space as not hosted.
ReadState(a) ==
  /\ run[a].stage = "idle"
  /\ now <= LastStart /\ claims < MaxClaims
  /\ ~(row.status = "in_progress" /\ row.expiresAt > now)
  /\ run' = [run EXCEPT ![a] =
       [IdleRun EXCEPT !.stage = "claiming", !.since = now, !.reclaim = Reclaims,
                       !.seen = [AbsentRow EXCEPT !.status = row.status]]]
  /\ UNCHANGED <<now, row, eligible, claims, doneBy, faults>>

\* The row becomes this runner's, with the lease it computed from the clock it read.
NewHolder(n, sweepAttempts) ==
  /\ row' = [row EXCEPT !.status = "in_progress", !.attempt = claims + 1,
                        !.expiresAt = run[n].since + LockTtl, !.checkedAt = run[n].since,
                        !.sweepAttempts = sweepAttempts]
  /\ claims' = claims + 1
  /\ run' = [run EXCEPT ![n] =
       [IdleRun EXCEPT !.stage = "claimed", !.since = now, !.reclaim = run[n].reclaim,
                       !.attempt = claims + 1, !.claimedAt = now]]

LoseClaim(n) ==
  /\ run' = [run EXCEPT ![n] = IdleRun]
  /\ UNCHANGED <<row, claims>>

\* create when there was no row, updateMany otherwise; a fresh sweep budget either way.
Claim(a) ==
  /\ run[a].stage = "claiming"
  /\ IF \/ run[a].seen.status = "absent" /\ row.status = "absent"
        \/ run[a].seen.status # "absent" /\ Takeable(run[a].since)
       THEN NewHolder(a, 0)
       ELSE LoseClaim(a)
  /\ UNCHANGED <<now, eligible, doneBy, faults>>

SweepObserve(s) ==
  /\ run[s].stage = "idle"
  /\ Candidate
  /\ run' = [run EXCEPT ![s] = [IdleRun EXCEPT !.stage = "observed", !.since = now, !.seen = row]]
  /\ UNCHANGED <<now, row, eligible, claims, doneBy, faults>>

\* The run it starts reads the row once more, and is over when that is complete.
SweepRead(s) ==
  /\ run[s].stage = "observed"
  /\ run' = [run EXCEPT ![s] =
       IF row.status = "complete" THEN IdleRun
       ELSE [@ EXCEPT !.stage = "claiming", !.since = now, !.reclaim = Reclaims]]
  /\ UNCHANGED <<now, row, eligible, claims, doneBy, faults>>

\* Mutant of Unchanged: only the status is compared.
UnchangedStatus(seen) == row.status = seen.status

\* The compare-and-set on what the sweep observed.
Unchanged(seen) ==
  /\ row.status = seen.status
  /\ row.sweepAttempts = seen.sweepAttempts
  /\ row.checkedAt = seen.checkedAt
  /\ row.attempt = seen.attempt

SweepClaim(s) ==
  /\ run[s].stage = "claiming"
  /\ IF /\ Unchanged(run[s].seen)
        /\ row.code = "retryable"
        /\ row.status = "in_progress" => row.expiresAt < run[s].since
        /\ eligible
       THEN NewHolder(s, row.sweepAttempts + 1)
       ELSE LoseClaim(s)
  /\ UNCHANGED <<now, eligible, doneBy, faults>>

-------------------------------------------------------------------------------
(* A run under its lease.                                                  *)

\* The run ends in failure; what is left is to record it.
FailWith(n, code) ==
  run' = [run EXCEPT ![n].stage = "failing", ![n].since = now, ![n].due = FALSE,
                     ![n].code = code]

\* Mutant of Extend: a heartbeat only shows that the run is alive.
ExtendNot(n) == row' = [row EXCEPT !.checkedAt = now]

Extend(n) ==
  row' = [row EXCEPT !.expiresAt = MinOf(now + LockTtl, run[n].claimedAt + Lifetime),
                     !.checkedAt = now]

\* The first refresh, which the work waits for; the deadline may have passed by then.
StartWork(n) ==
  /\ run[n].stage = "claimed"
  /\ \/ /\ Held(n)
        /\ Extend(n)
        /\ IF now < run[n].claimedAt + Deadline
             THEN run' = [run EXCEPT ![n].stage = "working", ![n].since = 0]
             ELSE FailWith(n, "final")
     \/ ~Held(n) /\ FailWith(n, "retryable") /\ UNCHANGED row
  /\ UNCHANGED <<now, eligible, claims, doneBy, faults>>

\* Each interval the lease is extended, or found to be someone else's: then the run stops.
Heartbeat(n) ==
  /\ run[n].due
  /\ \/ Held(n) /\ Extend(n) /\ run' = [run EXCEPT ![n].due = FALSE]
     \/ ~Held(n) /\ FailWith(n, "retryable") /\ UNCHANGED row
  /\ UNCHANGED <<now, eligible, claims, doneBy, faults>>

\* A heartbeat that meets a database error is remembered, and the run goes on.
HeartbeatError(n) ==
  /\ run[n].due
  /\ faults < MaxFaults
  /\ faults' = faults + 1
  /\ run' = [run EXCEPT ![n].due = FALSE, ![n].shaken = TRUE]
  /\ UNCHANGED <<now, row, eligible, claims, doneBy>>

\* The node has answered every call, or one of them failed.
Work(n) ==
  /\ run[n].stage = "working"
  /\ \/ /\ ~run[n].shaken
        /\ run' = [run EXCEPT ![n].stage = "completing", ![n].since = now, ![n].due = FALSE]
     \/ run[n].shaken /\ FailWith(n, "retryable")
     \/ \E code \in {"retryable", "final"} : FailWith(n, code)
  /\ UNCHANGED <<now, row, eligible, claims, doneBy, faults>>

PassDeadline(n) ==
  /\ run[n].stage = "working"
  /\ now >= run[n].claimedAt + Deadline
  /\ FailWith(n, "final")
  /\ UNCHANGED <<now, row, eligible, claims, doneBy, faults>>

\* Mutant of Complete: the row is completed whoever holds it.
CompleteAny(n) ==
  /\ run[n].stage = "completing"
  /\ row' = [row EXCEPT !.status = "complete", !.attempt = 0, !.expiresAt = 0,
                        !.checkedAt = now, !.code = "none"]
  /\ doneBy' = run[n].attempt
  /\ run' = [run EXCEPT ![n] = IdleRun]
  /\ UNCHANGED <<now, eligible, claims, faults>>

\* The completion matches the attempt id alone, so that it also overrides the reaper.
\* One that matches nothing throws, and no failure is recorded either.
Complete(n) ==
  /\ run[n].stage = "completing"
  /\ \/ /\ row.attempt = run[n].attempt
        /\ row' = [row EXCEPT !.status = "complete", !.attempt = 0, !.expiresAt = 0,
                              !.checkedAt = now, !.code = "none"]
        /\ doneBy' = run[n].attempt
     \/ row.attempt # run[n].attempt /\ UNCHANGED <<row, doneBy>>
  /\ run' = [run EXCEPT ![n] = IdleRun]
  /\ UNCHANGED <<now, eligible, claims, faults>>

\* The first refresh, or the completion, meets a database error.
StatementError(n) ==
  /\ run[n].stage \in {"claimed", "completing"}
  /\ faults < MaxFaults
  /\ faults' = faults + 1
  /\ FailWith(n, "retryable")
  /\ UNCHANGED <<now, row, eligible, claims, doneBy>>

\* Mutant of RecordFailure: the row need not be in progress, nor the run's own.
RecordFailureAny(n) ==
  /\ run[n].stage = "failing"
  /\ row' = [row EXCEPT !.status = "failed", !.expiresAt = 0, !.checkedAt = now,
                        !.code = IF run[n].reclaim THEN "reclaim" ELSE run[n].code]
  /\ run' = [run EXCEPT ![n] = IdleRun]
  /\ UNCHANGED <<now, eligible, claims, doneBy, faults>>

\* A row that is no longer held is left alone.
RecordFailure(n) ==
  /\ run[n].stage = "failing"
  /\ row' = IF Held(n)
       THEN [row EXCEPT !.status = "failed", !.expiresAt = 0, !.checkedAt = now,
                        !.code = IF run[n].reclaim THEN "reclaim" ELSE run[n].code]
       ELSE row
  /\ run' = [run EXCEPT ![n] = IdleRun]
  /\ UNCHANGED <<now, eligible, claims, doneBy, faults>>

\* The process dies, or the statement that would record the failure fails itself.
Crash(n) ==
  /\ run[n].stage # "idle"
  /\ faults < MaxFaults
  /\ faults' = faults + 1
  /\ run' = [run EXCEPT ![n] = IdleRun]
  /\ UNCHANGED <<now, row, eligible, claims, doneBy>>

-------------------------------------------------------------------------------
(* The reaper.                                                             *)

ReapRead(s) ==
  /\ run[s].stage = "idle"
  /\ Abandoned
  /\ run' = [run EXCEPT ![s] = [IdleRun EXCEPT !.stage = "reaping", !.since = now, !.seen = row]]
  /\ UNCHANGED <<now, row, eligible, claims, doneBy, faults>>

\* Mutant of StillAbandoned: the attempt and the status are compared, not the lease.
StillAbandonedAttempt(seen) == row.status = "in_progress" /\ row.attempt = seen.attempt

StillAbandoned(seen) ==
  /\ row.status = "in_progress"
  /\ row.attempt = seen.attempt
  /\ row.expiresAt = seen.expiresAt
  /\ row.checkedAt = seen.checkedAt
  /\ row.code = seen.code

ReapWrite(s) ==
  /\ run[s].stage = "reaping"
  /\ row' = IF StillAbandoned(run[s].seen)
       THEN [row EXCEPT !.status = "failed", !.expiresAt = 0,
                        !.code = IF @ = "none" THEN "final" ELSE @]
       ELSE row
  /\ run' = [run EXCEPT ![s] = IdleRun]
  /\ UNCHANGED <<now, eligible, claims, doneBy, faults>>

-------------------------------------------------------------------------------
(* The rest of the service and time.                                       *)

\* Automatic signing is switched, or the key archived or restored.
ChangeEligible ==
  /\ now <= LastStart
  /\ faults < MaxFaults
  /\ faults' = faults + 1
  /\ eligible' = ~eligible
  /\ UNCHANGED <<now, row, run, claims, doneBy>>

\* Every instance's sweep timer should have found the row by now.
SweepOverdue ==
  \/ Abandoned /\ row.expiresAt + SweepLag < now
  \/ /\ Candidate
     /\ row.checkedAt + SweepDelays[row.sweepAttempts + 1] + SweepLag <= now
     /\ row.expiresAt + SweepLag < now

\* Timers fire on time, and no statement takes longer than DbLag.
MayTick ==
  /\ SweepOverdue => \A s \in Sweeper : run[s].stage # "idle"
  /\ \A n \in Runner :
       /\ ~run[n].due
       /\ run[n].stage = "working" => now < run[n].claimedAt + Deadline
       /\ run[n].stage \notin {"idle", "observed", "working"} => now < run[n].since + DbLag
       /\ run[n].stage = "observed" => now < run[n].since + BatchLag

Tick ==
  /\ now < MaxTime
  /\ MayTick
  /\ now' = now + 1
  /\ run' = [n \in Runner |->
       [run[n] EXCEPT !.due = /\ run[n].stage \in {"claimed", "working"}
                              /\ now + 1 < run[n].claimedAt + Lifetime]]
  /\ UNCHANGED <<row, eligible, claims, doneBy, faults>>

ClaimStep(n) ==
  \/ n \in Approver /\ Claim(n)
  \/ n \in Sweeper /\ (SweepObserve(n) \/ SweepRead(n) \/ SweepClaim(n))

RunStep(n) ==
  \/ StartWork(n) \/ Heartbeat(n) \/ Work(n) \/ PassDeadline(n)
  \/ Complete(n) \/ RecordFailure(n)

ReapStep(n) == n \in Sweeper /\ (ReapRead(n) \/ ReapWrite(n))

Fault(n) == HeartbeatError(n) \/ StatementError(n) \/ Crash(n)

Next ==
  \/ \E a \in Approver : ReadState(a)
  \/ \E n \in Runner : ClaimStep(n) \/ RunStep(n) \/ ReapStep(n) \/ Fault(n)
  \/ ChangeEligible
  \/ Tick

Spec == Init /\ [][Next]_vars

\* Timers, event loops and the clock of a live process make progress.
Fairness ==
  /\ WF_vars(Tick)
  /\ \A n \in Runner : WF_vars(ClaimStep(n) \/ RunStep(n) \/ ReapStep(n))

FairSpec == Spec /\ Fairness

\* What that comes to: the clock passes every delay.  It waits for whatever is on time.
TimePasses == <>(now >= MaxTime)

-------------------------------------------------------------------------------
(* Properties.                                                             *)

\* A run whose heartbeats all went through holds the row, under a lease that has not
\* expired, for as long as it works: nobody else can claim the row, and the reaper
\* cannot mark it.
SteadyRunHolds ==
  \A n \in Runner : run[n].stage = "working" /\ ~run[n].shaken =>
    Held(n) /\ now <= row.expiresAt

\* Two runs work on one account at once only after heartbeats of the older one failed.
OverlapNeedsFailedHeartbeat ==
  \A n, m \in Runner :
    n # m /\ run[n].stage = "working" /\ run[m].stage = "working" =>
      run[IF run[n].attempt < run[m].attempt THEN n ELSE m].shaken

\* A complete row was completed by the last run that claimed it: a superseded run never
\* completes the row under a newer one.
CompleteIsNewest == row.status = "complete" => doneBy = claims

\* The sweep runs a row at most SweepCap times between two approvals, whatever two
\* instances observe at the same time.
SweepBudget == row.sweepAttempts <= SweepCap

\* A row fails through the run that holds it, or when its lease has expired: the reaper
\* never marks a row whose holder came back after the reaper had read it.
FailureIsOwnOrExpired ==
  [][row.status = "in_progress" /\ row'.status = "failed" =>
       \/ row.expiresAt < now
       \/ \E n \in Runner : run[n].stage = "failing" /\ Held(n)]_vars

\* A completed row stays so until an approval takes it over: neither the sweep, nor the
\* reaper, nor a run that ends late puts it back to work or to failed.
CompleteStays ==
  [][row.status = "complete" /\ row'.status # "complete" =>
       row'.status = "in_progress" /\ row'.sweepAttempts = 0]_vars

\* A row in progress does not stay so, even when its run crashes: unless it is a retry
\* that the sweep may not run once more, because its budget is spent or the key is not
\* eligible.  Such a row waits for an approval.
LeaseEnds ==
  row.status = "in_progress" ~>
    \/ row.status # "in_progress"
    \/ row.code = "retryable" /\ (row.sweepAttempts >= SweepCap \/ ~eligible)

\* A failure that the sweep retries is retried.
FailureIsRetried ==
  (row.status = "failed" /\ row.code = "retryable" /\ row.sweepAttempts < SweepCap) ~>
    (row.status # "failed" \/ row.code # "retryable" \/ ~eligible)

=============================================================================
