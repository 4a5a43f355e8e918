------------------------- MODULE BootstrapLeaseProofs -------------------------
(***************************************************************************)
(* Proofs about BootstrapLease.  The argument: attempt ids are given out   *)
(* in the order of the claims, no two runners have the same one, and the   *)
(* row carries the newest one or none.  A run whose heartbeats all went    *)
(* through has the row under a lease that reaches to the next heartbeat;   *)
(* whoever would take the row from it must first have seen that lease      *)
(* expired.                                                                *)
(***************************************************************************)
EXTENDS BootstrapLease, TLAPS

(* The inductive invariant.                                                *)

Running == {"claimed", "working", "completing", "failing"}

\* A runner has an attempt id exactly while it runs, and no two have the same.
AttemptBound ==
  /\ \A n \in Runner : /\ run[n].stage \in Running <=> run[n].attempt # 0
                       /\ run[n].attempt <= claims
                       /\ run[n].due => run[n].stage \in {"claimed", "working"}
  /\ \A n, m \in Runner : n # m /\ run[n].attempt # 0 => run[n].attempt # run[m].attempt

\* The row carries the newest attempt id, or none.
RowBound ==
  /\ row.attempt \in {0, claims}
  /\ row.status = "in_progress" => row.attempt # 0
  /\ row.status = "complete" => row.code = "none" /\ doneBy = claims

\* What a runner has seen happened in the past.
SeenBound ==
  /\ \A n \in Runner : run[n].stage = "claiming" => run[n].since <= now
  /\ \A s \in Sweeper :
       /\ run[s].stage = "reaping" => run[s].seen.expiresAt < now
       /\ run[s].stage \in {"observed", "claiming"} => run[s].seen.sweepAttempts < SweepCap

\* The lease of a run whose heartbeats all went through reaches to the next heartbeat.
LeaseReaches ==
  \A n \in Runner : run[n].stage = "working" /\ ~run[n].shaken =>
    /\ Held(n)
    /\ now <= run[n].claimedAt + Deadline
    /\ now <= row.expiresAt
    /\ ~run[n].due => \/ now + LockTtl <= row.expiresAt
                      \/ run[n].claimedAt + Lifetime <= row.expiresAt

LeaseInv ==
  BootstrapTypeOK /\ AttemptBound /\ RowBound /\ SeenBound /\ LeaseReaches /\ SweepBudget

-------------------------------------------------------------------------------
(* Types.                                                                  *)

LEMMA RunType ==
  /\ IdleRun \in Run
  /\ AbsentRow \in Row
<1>1. AbsentRow \in Row
  BY DEF AbsentRow, Row, Code
<1>2. IdleRun \in Run
  BY <1>1 DEF IdleRun, Run, Code
<1> QED BY <1>1, <1>2

\* The records a runner moves through.
LEMMA StageType ==
  ASSUME NEW p \in Run
  PROVE  /\ \A t \in Nat, b \in BOOLEAN :
              [p EXCEPT !.stage = "claiming", !.since = t, !.reclaim = b] \in Run
         /\ \A t \in Nat, b \in BOOLEAN, r \in Row :
              [p EXCEPT !.stage = "claiming", !.since = t, !.reclaim = b, !.seen = r] \in Run
         /\ \A t \in Nat, r \in Row :
              /\ [p EXCEPT !.stage = "observed", !.since = t, !.seen = r] \in Run
              /\ [p EXCEPT !.stage = "reaping", !.since = t, !.seen = r] \in Run
         /\ \A t \in Nat, b \in BOOLEAN, k \in Nat :
              [p EXCEPT !.stage = "claimed", !.since = t, !.reclaim = b, !.attempt = k,
                        !.claimedAt = t] \in Run
         /\ \A t \in Nat, c \in Code :
              [p EXCEPT !.stage = "failing", !.since = t, !.due = FALSE, !.code = c] \in Run
         /\ \A t \in Nat : [p EXCEPT !.stage = "completing", !.since = t, !.due = FALSE] \in Run
         /\ [p EXCEPT !.stage = "working", !.since = 0] \in Run
         /\ [p EXCEPT !.due = FALSE] \in Run
         /\ [p EXCEPT !.due = FALSE, !.shaken = TRUE] \in Run
         /\ \A b \in BOOLEAN : [p EXCEPT !.due = b] \in Run
  BY DEF Run

LEMMA RowType ==
  ASSUME NEW r \in Row
  PROVE  /\ \A t \in Nat, e \in Nat, k \in Nat, a \in Nat :
              [r EXCEPT !.status = "in_progress", !.attempt = k, !.expiresAt = e,
                        !.checkedAt = t, !.sweepAttempts = a] \in Row
         /\ \A t \in Nat, e \in Nat : [r EXCEPT !.expiresAt = e, !.checkedAt = t] \in Row
         /\ \A t \in Nat : [r EXCEPT !.status = "complete", !.attempt = 0, !.expiresAt = 0,
                                     !.checkedAt = t, !.code = "none"] \in Row
         /\ \A t \in Nat, c \in Code :
              [r EXCEPT !.status = "failed", !.expiresAt = 0, !.checkedAt = t, !.code = c] \in Row
         /\ \A c \in Code : [r EXCEPT !.status = "failed", !.expiresAt = 0, !.code = c] \in Row
         /\ [AbsentRow EXCEPT !.status = r.status] \in Row
  BY DEF Row, Code, AbsentRow

LEMMA InitInv == Init => LeaseInv
<1> SUFFICES ASSUME Init PROVE LeaseInv
  OBVIOUS
<1>1. BootstrapTypeOK
  BY RunType DEF Init, BootstrapTypeOK
<1>2. AttemptBound /\ RowBound /\ SeenBound /\ LeaseReaches
  BY DEF Init, AttemptBound, RowBound, SeenBound, LeaseReaches, IdleRun, AbsentRow, Running, Runner
<1>3. SweepBudget
  BY LeaseAssumption DEF Init, SweepBudget, AbsentRow, SweepCap
<1> QED BY <1>1, <1>2, <1>3 DEF LeaseInv

-------------------------------------------------------------------------------
(* Steps that leave the row alone.                                         *)

\* A runner that moves to a stage before or after a run, keeping or losing its attempt id.
LEMMA OneRun ==
  ASSUME LeaseInv, NEW n \in Runner, NEW p \in Run,
         run' = [run EXCEPT ![n] = p],
         UNCHANGED <<now, row, claims, doneBy>>,
         eligible' \in BOOLEAN, faults' \in Nat,
         p.attempt \in {0, run[n].attempt},
         p.stage \in Running <=> p.attempt # 0,
         p.due => p.stage \in {"claimed", "working"},
         p.stage = "claiming" => p.since <= now,
         p.stage = "working" => /\ run[n].stage = "working"
                                /\ p.claimedAt = run[n].claimedAt
                                /\ ~p.shaken => ~run[n].shaken /\ p.due = run[n].due,
         n \in Sweeper /\ p.stage = "reaping" => p.seen.expiresAt < now,
         n \in Sweeper /\ p.stage \in {"observed", "claiming"} => p.seen.sweepAttempts < SweepCap
  PROVE  LeaseInv'
<1> USE DEF LeaseInv
<1>1. run'[n] = p /\ \A m \in Runner \ {n} : run'[m] = run[m]
  BY DEF BootstrapTypeOK
<1>2. BootstrapTypeOK'
  BY DEF BootstrapTypeOK
<1>3. AttemptBound'
  BY <1>1 DEF AttemptBound, BootstrapTypeOK, Run
<1>4. RowBound' /\ SweepBudget'
  BY DEF RowBound, SweepBudget
<1>5. SeenBound'
  BY <1>1 DEF SeenBound, Runner
<1>6. LeaseReaches'
  BY <1>1 DEF LeaseReaches, Held, AttemptBound, Running
<1> QED BY <1>2, <1>3, <1>4, <1>5, <1>6

\* The runner goes back to idle and nothing else changes.
LEMMA GoIdle ==
  ASSUME LeaseInv, NEW n \in Runner, run' = [run EXCEPT ![n] = IdleRun],
         UNCHANGED <<now, row, claims, doneBy>>,
         eligible' \in BOOLEAN, faults' \in Nat
  PROVE  LeaseInv'
<1>1. /\ IdleRun.stage = "idle" /\ IdleRun.attempt = 0 /\ ~IdleRun.due
      /\ IdleRun \in Run
  BY RunType DEF IdleRun
<1> QED BY <1>1, OneRun DEF Running

\* The runner gives up its run, and will record the failure.
LEMMA GoFailing ==
  ASSUME LeaseInv, NEW n \in Runner, NEW c \in Code, FailWith(n, c),
         run[n].stage \in Running,
         UNCHANGED <<now, row, claims, doneBy>>,
         eligible' \in BOOLEAN, faults' \in Nat
  PROVE  LeaseInv'
<1> DEFINE p == [run[n] EXCEPT !.stage = "failing", !.since = now, !.due = FALSE, !.code = c]
<1>1. run[n] \in Run /\ now \in Nat
  BY DEF LeaseInv, BootstrapTypeOK
<1>2. p \in Run
  BY <1>1, StageType
<1>3. p.stage = "failing" /\ p.attempt = run[n].attempt /\ ~p.due
  BY <1>1 DEF Run
<1>4. p.attempt # 0
  BY <1>3 DEF LeaseInv, AttemptBound
<1>5. run' = [run EXCEPT ![n] = p]
  BY DEF FailWith
<1> QED BY <1>2, <1>3, <1>4, <1>5, OneRun DEF Running

\* What a runner reads.
LEMMA ReadInv ==
  ASSUME LeaseInv
  PROVE  /\ \A a \in Approver : ReadState(a) => LeaseInv'
         /\ \A s \in Sweeper : SweepObserve(s) => LeaseInv'
         /\ \A s \in Sweeper : SweepRead(s) => LeaseInv'
         /\ \A s \in Sweeper : ReapRead(s) => LeaseInv'
<1>0. now \in Nat /\ row \in Row /\ \A n \in Runner : run[n] \in Run
  BY DEF LeaseInv, BootstrapTypeOK
<1>t. eligible \in BOOLEAN /\ faults \in Nat /\ Reclaims \in BOOLEAN
  BY DEF LeaseInv, BootstrapTypeOK, Reclaims
<1>1. ASSUME NEW a \in Approver, ReadState(a) PROVE LeaseInv'
  <2> DEFINE r == [AbsentRow EXCEPT !.status = row.status]
             p == [IdleRun EXCEPT !.stage = "claiming", !.since = now, !.reclaim = Reclaims, !.seen = r]
  <2>1. r \in Row
    BY <1>0, RowType
  <2>2. p \in Run
    BY <1>0, <1>t, <2>1, RunType, StageType
  <2>3. p.stage = "claiming" /\ p.attempt = 0 /\ p.since = now /\ ~p.due
    BY DEF IdleRun
  <2>4. run' = [run EXCEPT ![a] = p]
    BY <1>1 DEF ReadState
  <2>5. a \in Runner /\ a \notin Sweeper
    BY LeaseAssumption DEF Runner
  <2>6. UNCHANGED <<now, row, claims, doneBy, eligible, faults>>
    BY <1>1 DEF ReadState
  <2>7. p.since <= now
    BY <1>0, <2>3
  <2> HIDE DEF p
  <2> QED BY <1>t, <2>2, <2>3, <2>4, <2>5, <2>6, <2>7, OneRun DEF Running
<1>2. ASSUME NEW s \in Sweeper, SweepObserve(s) PROVE LeaseInv'
  <2> DEFINE p == [IdleRun EXCEPT !.stage = "observed", !.since = now, !.seen = row]
  <2>1. p \in Run
    BY <1>0, RunType, StageType
  <2>2. p.stage = "observed" /\ p.attempt = 0 /\ p.seen = row /\ ~p.due
    BY DEF IdleRun
  <2>3. run' = [run EXCEPT ![s] = p] /\ row.sweepAttempts < SweepCap
    BY <1>2 DEF SweepObserve, Candidate
  <2>4. UNCHANGED <<now, row, claims, doneBy, eligible, faults>>
    BY <1>2 DEF SweepObserve
  <2> QED BY <1>t, <2>1, <2>2, <2>3, <2>4, OneRun DEF Running, Runner
<1>3. ASSUME NEW s \in Sweeper, SweepRead(s) PROVE LeaseInv'
  <2> DEFINE p == [run[s] EXCEPT !.stage = "claiming", !.since = now, !.reclaim = Reclaims]
  <2>0. s \in Runner /\ run[s] \in Run
    BY <1>0 DEF Runner
  <2>1. UNCHANGED <<now, row, claims, doneBy, eligible, faults>>
    BY <1>3 DEF SweepRead
  <2>2. CASE run' = [run EXCEPT ![s] = IdleRun]
    BY <1>t, <2>0, <2>1, <2>2, GoIdle
  <2>3. CASE run' = [run EXCEPT ![s] = p]
    <3>1. p \in Run
      BY <1>0, <1>t, <2>0, StageType
    <3>2. /\ p.stage = "claiming" /\ p.since = now
          /\ p.attempt = run[s].attempt /\ p.seen = run[s].seen /\ p.due = run[s].due
      BY <2>0 DEF Run
    <3>3. run[s].attempt = 0 /\ ~run[s].due /\ run[s].seen.sweepAttempts < SweepCap
      BY <1>3, <2>0 DEF SweepRead, LeaseInv, AttemptBound, SeenBound, Running
    <3>4. p.since <= now
      BY <1>0, <3>2
    <3> HIDE DEF p
    <3> QED BY <1>t, <2>0, <2>1, <2>3, <3>1, <3>2, <3>3, <3>4, OneRun DEF Running
  <2> QED BY <1>3, <2>2, <2>3 DEF SweepRead
<1>4. ASSUME NEW s \in Sweeper, ReapRead(s) PROVE LeaseInv'
  <2> DEFINE p == [IdleRun EXCEPT !.stage = "reaping", !.since = now, !.seen = row]
  <2>1. p \in Run
    BY <1>0, RunType, StageType
  <2>2. p.stage = "reaping" /\ p.attempt = 0 /\ p.seen = row /\ ~p.due
    BY DEF IdleRun
  <2>3. run' = [run EXCEPT ![s] = p] /\ row.expiresAt < now
    BY <1>4 DEF ReapRead, Abandoned
  <2>4. UNCHANGED <<now, row, claims, doneBy, eligible, faults>>
    BY <1>4 DEF ReapRead
  <2> QED BY <1>t, <2>1, <2>2, <2>3, <2>4, OneRun DEF Running, Runner
<1> QED BY <1>1, <1>2, <1>3, <1>4

\* The end of the work, and what interrupts it.
LEMMA WorkInv ==
  ASSUME LeaseInv, NEW n \in Runner
  PROVE  /\ Work(n) => LeaseInv'
         /\ PassDeadline(n) => LeaseInv'
         /\ HeartbeatError(n) => LeaseInv'
         /\ StatementError(n) => LeaseInv'
         /\ Crash(n) => LeaseInv'
<1>0. now \in Nat /\ run[n] \in Run /\ faults + 1 \in Nat
  BY DEF LeaseInv, BootstrapTypeOK
<1>t. eligible \in BOOLEAN /\ faults \in Nat
  BY DEF LeaseInv, BootstrapTypeOK
<1>c. "retryable" \in Code /\ "final" \in Code
  BY DEF Code
<1>1. ASSUME Work(n) PROVE LeaseInv'
  <2> DEFINE p == [run[n] EXCEPT !.stage = "completing", !.since = now, !.due = FALSE]
  <2>1. UNCHANGED <<now, row, claims, doneBy, eligible, faults>>
    BY <1>1 DEF Work
  <2>2. run[n].stage \in Running
    BY <1>1 DEF Work, Running
  <2>3. CASE run' = [run EXCEPT ![n] = p]
    <3>1. p \in Run
      BY <1>0, StageType
    <3>2. p.stage = "completing" /\ p.attempt = run[n].attempt /\ ~p.due
      BY <1>0 DEF Run
    <3>3. p.attempt # 0
      BY <2>2, <3>2 DEF LeaseInv, AttemptBound
    <3> QED BY <1>t, <2>1, <2>3, <3>1, <3>2, <3>3, OneRun DEF Running
  <2>4. CASE \E c \in {"retryable", "final"} : FailWith(n, c)
    BY <1>t, <1>c, <2>1, <2>2, <2>4, GoFailing
  <2> QED BY <1>1, <2>3, <2>4 DEF Work
<1>2. ASSUME PassDeadline(n) PROVE LeaseInv'
  BY <1>2, <1>t, <1>c, GoFailing DEF PassDeadline, Running
<1>3. ASSUME HeartbeatError(n) PROVE LeaseInv'
  <2> DEFINE p == [run[n] EXCEPT !.due = FALSE, !.shaken = TRUE]
  <2>1. p \in Run
    BY <1>0, StageType
  <2>2. /\ p.stage = run[n].stage /\ p.attempt = run[n].attempt /\ p.since = run[n].since
        /\ p.claimedAt = run[n].claimedAt /\ p.shaken /\ p.seen = run[n].seen /\ ~p.due
    BY <1>0 DEF Run
  <2>3. run' = [run EXCEPT ![n] = p]
    BY <1>3 DEF HeartbeatError
  <2>4. UNCHANGED <<now, row, claims, doneBy, eligible>> /\ faults' \in Nat
    BY <1>0, <1>3 DEF HeartbeatError
  <2>5. /\ run[n].stage \in Running <=> run[n].attempt # 0
        /\ run[n].stage = "claiming" => run[n].since <= now
        /\ n \in Sweeper /\ run[n].stage = "reaping" => run[n].seen.expiresAt < now
        /\ n \in Sweeper /\ run[n].stage \in {"observed", "claiming"} => run[n].seen.sweepAttempts < SweepCap
    BY DEF LeaseInv, AttemptBound, SeenBound
  <2> QED BY <1>t, <2>1, <2>2, <2>3, <2>4, <2>5, OneRun
<1>4. ASSUME StatementError(n) PROVE LeaseInv'
  BY <1>4, <1>0, <1>t, <1>c, GoFailing DEF StatementError, Running
<1>5. ASSUME Crash(n) PROVE LeaseInv'
  BY <1>5, <1>0, <1>t, GoIdle DEF Crash
<1> QED BY <1>1, <1>2, <1>3, <1>4, <1>5

-------------------------------------------------------------------------------
(* Steps that write the row.                                               *)

\* A claim numbers the newest attempt; the lease it takes over had expired.
LEMMA NewHolderInv ==
  ASSUME LeaseInv, NEW n \in Runner, NEW a \in Nat, NewHolder(n, a),
         run[n].stage = "claiming", a <= SweepCap,
         row.status = "in_progress" => row.expiresAt < run[n].since,
         UNCHANGED <<now, eligible, doneBy, faults>>
  PROVE  LeaseInv'
<1> DEFINE p == [IdleRun EXCEPT !.stage = "claimed", !.since = now, !.reclaim = run[n].reclaim,
                                !.attempt = claims + 1, !.claimedAt = now]
           e == run[n].since + LockTtl
           w == [row EXCEPT !.status = "in_progress", !.attempt = claims + 1, !.expiresAt = e,
                            !.checkedAt = run[n].since, !.sweepAttempts = a]
<1> USE DEF LeaseInv
<1>1. /\ now \in Nat /\ row \in Row /\ claims \in Nat /\ claims + 1 \in Nat
      /\ run \in [Runner -> Run] /\ run[n] \in Run
  BY DEF BootstrapTypeOK
<1>2. run[n].reclaim \in BOOLEAN /\ run[n].since \in Nat /\ e \in Nat
  BY <1>1, LeaseAssumption DEF Run
<1>3. p \in Run /\ w \in Row
  BY <1>1, <1>2, RunType, StageType, RowType
<1>4. run' = [run EXCEPT ![n] = p] /\ row' = w /\ claims' = claims + 1
  BY DEF NewHolder
<1>5. p.stage = "claimed" /\ p.attempt = claims + 1 /\ ~p.due
  BY DEF IdleRun
<1>6. w.status = "in_progress" /\ w.attempt = claims + 1 /\ w.sweepAttempts = a
  BY <1>1 DEF Row
<1> HIDE DEF p, w, e
<1>7. run'[n] = p /\ \A m \in Runner \ {n} : run'[m] = run[m]
  BY <1>1, <1>4
<1>8. BootstrapTypeOK'
  BY <1>1, <1>3, <1>4 DEF BootstrapTypeOK
<1>9. AttemptBound'
  <2>1. \A m \in Runner : run[m].attempt \in Nat /\ run[m].attempt <= claims
    BY <1>1 DEF AttemptBound, Run
  <2>2. ASSUME NEW m \in Runner
        PROVE  /\ run'[m].stage \in Running <=> run'[m].attempt # 0
               /\ run'[m].attempt <= claims'
               /\ run'[m].due => run'[m].stage \in {"claimed", "working"}
    BY <1>1, <1>4, <1>5, <1>7, <2>1 DEF AttemptBound, Running
  <2>3. ASSUME NEW m \in Runner, NEW k \in Runner, m # k, run'[m].attempt # 0
        PROVE  run'[m].attempt # run'[k].attempt
    BY <1>1, <1>5, <1>7, <2>1, <2>3 DEF AttemptBound
  <2> QED BY <2>2, <2>3 DEF AttemptBound
<1>10. RowBound'
  BY <1>1, <1>4, <1>6 DEF RowBound
<1>11. SeenBound'
  BY <1>5, <1>7 DEF SeenBound, Runner
<1>12. LeaseReaches'
  <2>1. ~ \E m \in Runner : run[m].stage = "working" /\ ~run[m].shaken
    BY <1>1, <1>2 DEF LeaseReaches, Held, SeenBound, Row
  <2> QED BY <1>5, <1>7, <2>1 DEF LeaseReaches
<1>13. SweepBudget'
  BY <1>4, <1>6 DEF SweepBudget
<1> QED BY <1>8, <1>9, <1>10, <1>11, <1>12, <1>13

LEMMA ClaimInv ==
  ASSUME LeaseInv
  PROVE  /\ \A a \in Approver : Claim(a) => LeaseInv'
         /\ \A s \in Sweeper : SweepClaim(s) => LeaseInv'
<1>0. /\ eligible \in BOOLEAN /\ faults \in Nat
      /\ row \in Row /\ SweepCap \in Nat
  BY LeaseAssumption DEF LeaseInv, BootstrapTypeOK, SweepCap
<1>1. ASSUME NEW a \in Approver, Claim(a) PROVE LeaseInv'
  <2>0. a \in Runner /\ run[a].stage = "claiming" /\ UNCHANGED <<now, eligible, doneBy, faults>>
    BY <1>1 DEF Claim, Runner
  <2>1. CASE LoseClaim(a)
    BY <1>0, <2>0, <2>1, GoIdle DEF LoseClaim
  <2>2. CASE NewHolder(a, 0) /\ (row.status = "absent" \/ Takeable(run[a].since))
    <3>1. row.status = "in_progress" => row.expiresAt < run[a].since
      BY <2>2 DEF Takeable
    <3> QED BY <1>0, <2>0, <2>2, <3>1, NewHolderInv
  <2> QED BY <1>1, <2>1, <2>2 DEF Claim
<1>2. ASSUME NEW s \in Sweeper, SweepClaim(s) PROVE LeaseInv'
  <2>0. s \in Runner /\ run[s].stage = "claiming" /\ UNCHANGED <<now, eligible, doneBy, faults>>
    BY <1>2 DEF SweepClaim, Runner
  <2>1. CASE LoseClaim(s)
    BY <1>0, <2>0, <2>1, GoIdle DEF LoseClaim
  <2>2. CASE /\ NewHolder(s, row.sweepAttempts + 1)
             /\ Unchanged(run[s].seen)
             /\ row.status = "in_progress" => row.expiresAt < run[s].since
    <3>1. row.sweepAttempts < SweepCap /\ row.sweepAttempts \in Nat
      BY <1>0, <2>0, <2>2 DEF LeaseInv, SeenBound, Unchanged, Row
    <3>2. row.sweepAttempts + 1 <= SweepCap /\ row.sweepAttempts + 1 \in Nat
      BY <1>0, <3>1
    <3> QED BY <2>0, <2>2, <3>2, NewHolderInv
  <2> QED BY <1>2, <2>1, <2>2 DEF SweepClaim
<1> QED BY <1>1, <1>2

\* A heartbeat that goes through, or the first refresh, renews the lease of its run only.
LEMMA ExtendInv ==
  ASSUME LeaseInv, NEW n \in Runner, NEW p \in Run, Held(n), Extend(n),
         run' = [run EXCEPT ![n] = p],
         UNCHANGED <<now, eligible, claims, doneBy, faults>>,
         run[n].stage \in Running, p.stage \in Running, p.attempt = run[n].attempt,
         p.due => p.stage \in {"claimed", "working"},
         p.stage = "working" /\ ~p.shaken =>
           p.claimedAt = run[n].claimedAt /\ now <= p.claimedAt + Deadline
  PROVE  LeaseInv'
<1> DEFINE e == MinOf(now + LockTtl, run[n].claimedAt + Lifetime)
<1> USE DEF LeaseInv
<1>1. /\ now \in Nat /\ row \in Row /\ claims \in Nat
      /\ run \in [Runner -> Run] /\ run[n] \in Run
  BY DEF BootstrapTypeOK
<1>2. e \in Nat
  BY <1>1, LeaseAssumption DEF MinOf, Run
<1>3. row' = [row EXCEPT !.expiresAt = e, !.checkedAt = now]
  BY DEF Extend
<1>4. /\ row' \in Row /\ row'.status = row.status /\ row'.attempt = row.attempt
      /\ row'.expiresAt = e /\ row'.code = row.code /\ row'.sweepAttempts = row.sweepAttempts
  BY <1>1, <1>2, <1>3, RowType DEF Row
<1>5. run'[n] = p /\ \A m \in Runner \ {n} : run'[m] = run[m]
  BY <1>1
<1>6. BootstrapTypeOK'
  BY <1>1, <1>4 DEF BootstrapTypeOK
<1>7. AttemptBound'
  BY <1>5 DEF AttemptBound
<1>8. RowBound' /\ SweepBudget'
  BY <1>4 DEF RowBound, SweepBudget
<1>9. SeenBound'
  BY <1>5 DEF SeenBound, Runner, Running
<1>10. LeaseReaches'
  <2>1. ASSUME NEW m \in Runner \ {n} PROVE ~(run[m].stage = "working" /\ ~run[m].shaken)
    BY DEF LeaseReaches, Held, AttemptBound
  <2>2. Held(n)'
    BY <1>4, <1>5 DEF Held
  <2>3. p.stage = "working" /\ ~p.shaken =>
          /\ now <= e
          /\ now + LockTtl <= e \/ p.claimedAt + Lifetime <= e
    BY <1>1, LeaseAssumption DEF MinOf, Run
  <2> QED BY <1>4, <1>5, <2>1, <2>2, <2>3 DEF LeaseReaches
<1> QED BY <1>6, <1>7, <1>8, <1>9, <1>10

LEMMA HeartbeatInv ==
  ASSUME LeaseInv, NEW n \in Runner
  PROVE  /\ StartWork(n) => LeaseInv'
         /\ Heartbeat(n) => LeaseInv'
<1>0. /\ now \in Nat /\ run[n] \in Run
      /\ eligible \in BOOLEAN /\ faults \in Nat
  BY DEF LeaseInv, BootstrapTypeOK
<1>c. "retryable" \in Code /\ "final" \in Code
  BY DEF Code
<1>1. ASSUME StartWork(n) PROVE LeaseInv'
  <2>0. /\ run[n].stage \in Running
        /\ UNCHANGED <<now, eligible, claims, doneBy, faults>>
    BY <1>1 DEF StartWork, Running
  <2>1. CASE Held(n) /\ Extend(n) /\ now < run[n].claimedAt + Deadline
             /\ run' = [run EXCEPT ![n].stage = "working", ![n].since = 0]
    <3> DEFINE p == [run[n] EXCEPT !.stage = "working", !.since = 0]
    <3>1. p \in Run
      BY <1>0, StageType
    <3>2. p.stage = "working" /\ p.attempt = run[n].attempt /\ p.claimedAt = run[n].claimedAt
      BY <1>0 DEF Run
    <3>3. run' = [run EXCEPT ![n] = p]
      BY <2>1
    <3>4. now <= p.claimedAt + Deadline
      <4> HIDE DEF p
      <4>1. Deadline \in Nat /\ run[n].claimedAt \in Nat
        BY <1>0, LeaseAssumption DEF Run
      <4> QED BY <1>0, <2>1, <3>2, <4>1
    <3> HIDE DEF p
    <3> QED BY <2>0, <2>1, <3>1, <3>2, <3>3, <3>4, ExtendInv DEF Running
  <2>2. CASE Held(n) /\ Extend(n) /\ FailWith(n, "final")
    <3> DEFINE p == [run[n] EXCEPT !.stage = "failing", !.since = now, !.due = FALSE, !.code = "final"]
    <3>1. p \in Run
      BY <1>0, <1>c, StageType
    <3>2. p.stage = "failing" /\ p.attempt = run[n].attempt /\ ~p.due
      BY <1>0 DEF Run
    <3>3. run' = [run EXCEPT ![n] = p]
      BY <2>2 DEF FailWith
    <3> HIDE DEF p
    <3> QED BY <2>0, <2>2, <3>1, <3>2, <3>3, ExtendInv DEF Running
  <2>3. CASE FailWith(n, "retryable") /\ UNCHANGED row
    BY <1>0, <1>c, <2>0, <2>3, GoFailing
  <2> QED BY <1>1, <2>1, <2>2, <2>3 DEF StartWork
<1>2. ASSUME Heartbeat(n) PROVE LeaseInv'
  <2>0. /\ run[n].stage \in {"claimed", "working"} /\ run[n].stage \in Running
        /\ UNCHANGED <<now, eligible, claims, doneBy, faults>>
    BY <1>2 DEF Heartbeat, LeaseInv, AttemptBound, Running
  <2>1. CASE Held(n) /\ Extend(n) /\ run' = [run EXCEPT ![n].due = FALSE]
    <3> DEFINE p == [run[n] EXCEPT !.due = FALSE]
    <3>1. p \in Run
      BY <1>0, StageType
    <3>2. /\ p.stage = run[n].stage /\ p.attempt = run[n].attempt /\ ~p.due
          /\ p.claimedAt = run[n].claimedAt /\ p.shaken = run[n].shaken
      BY <1>0 DEF Run
    <3>3. run' = [run EXCEPT ![n] = p]
      BY <2>1
    <3>4. p.stage = "working" /\ ~p.shaken => now <= p.claimedAt + Deadline
      BY <3>2 DEF LeaseInv, LeaseReaches
    <3> HIDE DEF p
    <3> QED BY <2>0, <2>1, <3>1, <3>2, <3>3, <3>4, ExtendInv
  <2>2. CASE FailWith(n, "retryable") /\ UNCHANGED row
    BY <1>0, <1>c, <2>0, <2>2, GoFailing
  <2> QED BY <1>2, <2>1, <2>2 DEF Heartbeat
<1> QED BY <1>1, <1>2

\* The row is released or marked while no run with all its heartbeats works on it.
LEMMA ReleaseInv ==
  ASSUME LeaseInv, NEW n \in Runner, run' = [run EXCEPT ![n] = IdleRun],
         UNCHANGED <<now, eligible, claims, faults>>, doneBy' \in Nat,
         row' \in Row, row'.status # "in_progress", row'.attempt \in {0, row.attempt},
         row'.status = "complete" => row'.code = "none" /\ doneBy' = claims,
         row'.sweepAttempts = row.sweepAttempts,
         \A m \in Runner \ {n} : ~(run[m].stage = "working" /\ ~run[m].shaken)
  PROVE  LeaseInv'
<1> USE DEF LeaseInv
<1>1. run'[n] = IdleRun /\ \A m \in Runner \ {n} : run'[m] = run[m]
  BY DEF BootstrapTypeOK
<1>2. IdleRun.stage = "idle" /\ IdleRun.attempt = 0 /\ ~IdleRun.due
  BY DEF IdleRun
<1>3. BootstrapTypeOK'
  BY RunType DEF BootstrapTypeOK
<1>4. AttemptBound'
  <2>1. claims \in Nat
    BY DEF BootstrapTypeOK
  <2> QED BY <1>1, <1>2, <2>1 DEF AttemptBound, Running
<1>5. RowBound' /\ SweepBudget'
  BY DEF RowBound, SweepBudget
<1>6. SeenBound'
  BY <1>1, <1>2 DEF SeenBound, Runner
<1>7. LeaseReaches'
  BY <1>1, <1>2 DEF LeaseReaches
<1> QED BY <1>3, <1>4, <1>5, <1>6, <1>7

LEMMA EndInv ==
  ASSUME LeaseInv, NEW n \in Runner
  PROVE  /\ Complete(n) => LeaseInv'
         /\ RecordFailure(n) => LeaseInv'
         /\ n \in Sweeper /\ ReapWrite(n) => LeaseInv'
<1>0. /\ now \in Nat /\ row \in Row /\ run[n] \in Run /\ doneBy \in Nat
      /\ eligible \in BOOLEAN /\ faults \in Nat
  BY DEF LeaseInv, BootstrapTypeOK
<1>h. ASSUME run[n].attempt # 0, row.attempt = run[n].attempt
      PROVE  \A m \in Runner \ {n} : ~(run[m].stage = "working" /\ ~run[m].shaken)
  BY <1>h DEF LeaseInv, LeaseReaches, Held, AttemptBound
<1>1. ASSUME Complete(n) PROVE LeaseInv'
  <2>0. /\ run' = [run EXCEPT ![n] = IdleRun]
        /\ UNCHANGED <<now, eligible, claims, faults>>
    BY <1>1 DEF Complete
  <2>1. run[n].attempt # 0 /\ run[n].attempt \in Nat
    BY <1>0, <1>1 DEF Complete, LeaseInv, AttemptBound, Running, Run
  <2>2. CASE UNCHANGED <<row, doneBy>>
    BY <1>0, <2>0, <2>2, GoIdle
  <2>3. CASE /\ row.attempt = run[n].attempt
             /\ row' = [row EXCEPT !.status = "complete", !.attempt = 0, !.expiresAt = 0,
                                   !.checkedAt = now, !.code = "none"]
             /\ doneBy' = run[n].attempt
    <3>1. /\ row' \in Row /\ row'.status = "complete" /\ row'.attempt = 0 /\ row'.code = "none"
          /\ row'.sweepAttempts = row.sweepAttempts
      BY <1>0, <2>3, RowType DEF Row
    <3>2. doneBy' = claims
      BY <2>1, <2>3 DEF LeaseInv, RowBound
    <3> QED BY <1>h, <2>0, <2>1, <2>3, <3>1, <3>2, ReleaseInv
  <2> QED BY <1>1, <2>2, <2>3 DEF Complete
<1>2. ASSUME RecordFailure(n) PROVE LeaseInv'
  <2> DEFINE c == IF run[n].reclaim THEN "reclaim" ELSE run[n].code
  <2>0. /\ run' = [run EXCEPT ![n] = IdleRun]
        /\ UNCHANGED <<now, eligible, claims, doneBy, faults>>
    BY <1>2 DEF RecordFailure
  <2>1. CASE row' = row
    BY <1>0, <2>0, <2>1, GoIdle
  <2>2. CASE Held(n) /\ row' = [row EXCEPT !.status = "failed", !.expiresAt = 0, !.checkedAt = now, !.code = c]
    <3>1. c \in Code
      BY <1>0 DEF Run, Code
    <3> HIDE DEF c
    <3>2. /\ row' \in Row /\ row'.status = "failed" /\ row'.attempt = row.attempt
          /\ row'.sweepAttempts = row.sweepAttempts
      BY <1>0, <2>2, <3>1, RowType DEF Row
    <3>3. run[n].attempt # 0 /\ row.attempt = run[n].attempt
      BY <2>2 DEF Held, LeaseInv, RowBound
    <3> QED BY <1>0, <1>h, <2>0, <3>2, <3>3, ReleaseInv
  <2> QED BY <1>2, <2>1, <2>2 DEF RecordFailure
<1>3. ASSUME n \in Sweeper, ReapWrite(n) PROVE LeaseInv'
  <2> DEFINE c == IF row.code = "none" THEN "final" ELSE row.code
  <2>0. /\ run' = [run EXCEPT ![n] = IdleRun]
        /\ UNCHANGED <<now, eligible, claims, doneBy, faults>>
    BY <1>3 DEF ReapWrite
  <2>1. CASE row' = row
    BY <1>0, <2>0, <2>1, GoIdle
  <2>2. CASE /\ StillAbandoned(run[n].seen)
             /\ row' = [row EXCEPT !.status = "failed", !.expiresAt = 0, !.code = c]
    <3>1. c \in Code
      BY <1>0 DEF Row, Code
    <3> HIDE DEF c
    <3>2. /\ row' \in Row /\ row'.status = "failed" /\ row'.attempt = row.attempt
          /\ row'.sweepAttempts = row.sweepAttempts
      BY <1>0, <2>2, <3>1, RowType DEF Row
    <3>3. row.expiresAt < now
      BY <1>3, <2>2 DEF StillAbandoned, ReapWrite, LeaseInv, SeenBound
    <3>4. \A m \in Runner : ~(run[m].stage = "working" /\ ~run[m].shaken)
      BY <1>0, <3>3 DEF LeaseInv, LeaseReaches, Row
    <3> QED BY <1>0, <2>0, <3>2, <3>4, ReleaseInv
  <2> QED BY <1>3, <2>1, <2>2 DEF ReapWrite
<1> QED BY <1>1, <1>2, <1>3

-------------------------------------------------------------------------------
(* Time, and the invariant.                                                *)

\* Time passes when every heartbeat of this interval has been sent.
LEMMA TickInv ==
  ASSUME LeaseInv, Tick
  PROVE  LeaseInv'
<1> DEFINE d(n) == run[n].stage \in {"claimed", "working"} /\ now + 1 < run[n].claimedAt + Lifetime
<1> USE DEF LeaseInv
<1>1. /\ now \in Nat /\ row \in Row /\ run \in [Runner -> Run]
      /\ now' = now + 1 /\ UNCHANGED <<row, eligible, claims, doneBy, faults>>
      /\ run' = [n \in Runner |-> [run[n] EXCEPT !.due = d(n)]]
  BY DEF BootstrapTypeOK, Tick
<1>2. \A n \in Runner :
        /\ run'[n] \in Run /\ run'[n].due = d(n)
        /\ run'[n].stage = run[n].stage /\ run'[n].attempt = run[n].attempt
        /\ run'[n].since = run[n].since /\ run'[n].seen = run[n].seen
        /\ run'[n].claimedAt = run[n].claimedAt /\ run'[n].shaken = run[n].shaken
  <2>1. ASSUME NEW n \in Runner, NEW b \in BOOLEAN, run'[n] = [run[n] EXCEPT !.due = b]
        PROVE  /\ run'[n] \in Run /\ run'[n].due = b
               /\ run'[n].stage = run[n].stage /\ run'[n].attempt = run[n].attempt
               /\ run'[n].since = run[n].since /\ run'[n].seen = run[n].seen
               /\ run'[n].claimedAt = run[n].claimedAt /\ run'[n].shaken = run[n].shaken
    BY <1>1, <2>1 DEF Run
  <2>2. \A n \in Runner : d(n) \in BOOLEAN /\ run'[n] = [run[n] EXCEPT !.due = d(n)]
    BY <1>1
  <2> HIDE DEF d
  <2> QED BY <2>1, <2>2
<1>3. BootstrapTypeOK'
  <2>1. run' \in [Runner -> Run]
    BY <1>1, <1>2
  <2> QED BY <1>1, <2>1 DEF BootstrapTypeOK
<1>4. AttemptBound'
  <2>1. \A n \in Runner : d(n) => run[n].stage \in {"claimed", "working"}
    OBVIOUS
  <2> HIDE DEF d
  <2> QED BY <1>1, <1>2, <2>1 DEF AttemptBound
<1>5. RowBound' /\ SweepBudget'
  BY <1>1 DEF RowBound, SweepBudget
<1>6. SeenBound'
  <2>1. \A n \in Runner : run[n].since \in Nat /\ run[n].seen.expiresAt \in Nat
    BY <1>1 DEF Run, Row
  <2>2. \A k \in Nat : (k <= now => k <= now + 1) /\ (k < now => k < now + 1)
    BY <1>1
  <2> HIDE DEF d
  <2> QED BY <1>1, <1>2, <2>1, <2>2 DEF SeenBound, Runner
<1>7. LeaseReaches'
  <2> SUFFICES ASSUME NEW n \in Runner, run'[n].stage = "working", ~run'[n].shaken
               PROVE  /\ Held(n)' /\ now' <= run'[n].claimedAt + Deadline /\ now' <= row'.expiresAt
                      /\ run'[n].due
    BY DEF LeaseReaches
  <2>1. /\ run[n].stage = "working" /\ ~run[n].shaken /\ ~run[n].due
        /\ now < run[n].claimedAt + Deadline
    BY <1>2 DEF Tick, MayTick
  <2>2. run[n].claimedAt \in Nat /\ row.expiresAt \in Nat
    BY <1>1 DEF Run, Row
  <2>3. /\ Held(n)
        /\ now + LockTtl <= row.expiresAt \/ run[n].claimedAt + Lifetime <= row.expiresAt
    BY <2>1 DEF LeaseReaches
  <2>4. now + 1 <= run[n].claimedAt + Deadline /\ now + 1 < run[n].claimedAt + Lifetime
    <3>1. now \in Nat /\ Deadline \in Nat /\ Lifetime \in Nat /\ Deadline < Lifetime
      BY <1>1, LeaseAssumption
    <3>2. now < run[n].claimedAt + Deadline /\ run[n].claimedAt \in Nat
      BY <2>1, <2>2
    <3> HIDE DEF d
    <3> QED BY <3>1, <3>2
  <2>5. now + 1 <= row.expiresAt
    <3>1. now \in Nat /\ LockTtl \in Nat \ {0} /\ Lifetime \in Nat
      BY <1>1, LeaseAssumption
    <3> QED BY <2>2, <2>3, <2>4, <3>1
  <2> QED BY <1>1, <1>2, <2>1, <2>3, <2>4, <2>5 DEF Held
<1> QED BY <1>3, <1>4, <1>5, <1>6, <1>7

LEMMA StepInv ==
  ASSUME LeaseInv, [Next]_vars
  PROVE  LeaseInv'
<1>1. CASE \E a \in Approver : ReadState(a)
  BY <1>1, ReadInv
<1>2. CASE \E n \in Runner : ClaimStep(n)
  BY <1>2, ReadInv, ClaimInv DEF ClaimStep
<1>3. CASE \E n \in Runner : RunStep(n)
  BY <1>3, HeartbeatInv, WorkInv, EndInv DEF RunStep
<1>4. CASE \E n \in Runner : ReapStep(n)
  BY <1>4, ReadInv, EndInv DEF ReapStep
<1>5. CASE \E n \in Runner : Fault(n)
  BY <1>5, WorkInv DEF Fault
<1>6. CASE ChangeEligible
  BY <1>6 DEF ChangeEligible, LeaseInv, BootstrapTypeOK, AttemptBound, RowBound, SeenBound,
              LeaseReaches, Held, SweepBudget
<1>7. CASE Tick
  BY <1>7, TickInv
<1>8. CASE UNCHANGED vars
  BY <1>8 DEF vars, LeaseInv, BootstrapTypeOK, AttemptBound, RowBound, SeenBound,
              LeaseReaches, Held, SweepBudget
<1> QED BY <1>1, <1>2, <1>3, <1>4, <1>5, <1>6, <1>7, <1>8 DEF Next

\* The invariant holds of every reachable state.
THEOREM LeaseInvariant == Spec => []LeaseInv
<1>1. Init => LeaseInv
  BY InitInv
<1>2. LeaseInv /\ [Next]_vars => LeaseInv'
  BY StepInv
<1> QED BY <1>1, <1>2, PTL DEF Spec

\* Rows, runs and counters stay within their types.
THEOREM BootstrapTypes == Spec => []BootstrapTypeOK
<1>1. LeaseInv => BootstrapTypeOK
  BY DEF LeaseInv
<1> QED BY <1>1, LeaseInvariant, PTL

\* A run whose heartbeats all went through cannot lose the row while it works.
THEOREM SteadyRunsHold == Spec => []SteadyRunHolds
<1>1. LeaseInv => SteadyRunHolds
  BY DEF LeaseInv, LeaseReaches, SteadyRunHolds
<1> QED BY <1>1, LeaseInvariant, PTL

\* Of two runs at work at once, the heartbeats of the older one failed.
THEOREM OverlapIsFaulty == Spec => []OverlapNeedsFailedHeartbeat
<1>1. LeaseInv => OverlapNeedsFailedHeartbeat
  <2> SUFFICES ASSUME LeaseInv, NEW n \in Runner, NEW m \in Runner, n # m,
                      run[n].stage = "working", run[m].stage = "working",
                      ~run[IF run[n].attempt < run[m].attempt THEN n ELSE m].shaken
               PROVE  FALSE
    BY DEF OverlapNeedsFailedHeartbeat
  <2>1. /\ run[n].attempt \in Nat /\ run[n].attempt <= claims /\ run[n].attempt # 0
        /\ run[m].attempt \in Nat /\ run[m].attempt <= claims /\ run[m].attempt # 0
        /\ run[n].attempt # run[m].attempt /\ claims \in Nat
    BY DEF LeaseInv, BootstrapTypeOK, AttemptBound, Run, Running
  <2>2. CASE run[n].attempt < run[m].attempt
    <3>1. run[n].attempt = claims
      BY <2>1, <2>2 DEF LeaseInv, LeaseReaches, Held, RowBound
    <3> QED BY <2>1, <2>2, <3>1
  <2>3. CASE ~(run[n].attempt < run[m].attempt)
    <3>1. run[m].attempt = claims
      BY <2>1, <2>3 DEF LeaseInv, LeaseReaches, Held, RowBound
    <3> QED BY <2>1, <2>3, <3>1
  <2> QED BY <2>2, <2>3
<1> QED BY <1>1, LeaseInvariant, PTL

\* A superseded run never completes the row under a newer one.
THEOREM CompletionsAreNewest == Spec => []CompleteIsNewest
<1>1. LeaseInv => CompleteIsNewest
  BY DEF LeaseInv, RowBound, CompleteIsNewest
<1> QED BY <1>1, LeaseInvariant, PTL

\* The sweep's budget holds with any number of instances.
THEOREM BudgetHolds == Spec => []SweepBudget
<1>1. LeaseInv => SweepBudget
  BY DEF LeaseInv
<1> QED BY <1>1, LeaseInvariant, PTL

\* The reaper never marks a row whose holder came back.
THEOREM FailuresAreOwn == Spec => FailureIsOwnOrExpired
<1>1. LeaseInv /\ [Next]_vars =>
        [row.status = "in_progress" /\ row'.status = "failed" =>
           \/ row.expiresAt < now
           \/ \E n \in Runner : run[n].stage = "failing" /\ Held(n)]_vars
  <2> SUFFICES ASSUME LeaseInv, Next, row.status = "in_progress", row'.status = "failed"
               PROVE  \/ row.expiresAt < now
                      \/ \E n \in Runner : run[n].stage = "failing" /\ Held(n)
    OBVIOUS
  <2>0. row \in Row
    BY DEF LeaseInv, BootstrapTypeOK
  <2>1. CASE \E n \in Runner : RecordFailure(n)
    BY <2>1 DEF RecordFailure
  <2>2. CASE \E s \in Sweeper : ReapWrite(s)
    BY <2>2 DEF ReapWrite, StillAbandoned, LeaseInv, SeenBound
  <2>3. CASE \E n \in Runner : NewHolder(n, 0) \/ NewHolder(n, row.sweepAttempts + 1)
    BY <2>0, <2>3 DEF NewHolder, Row
  <2>4. CASE \E n \in Runner : Extend(n)
    BY <2>0, <2>4 DEF Extend, Row
  <2>5. CASE row' = row
    BY <2>5
  <2>6. CASE row' = [row EXCEPT !.status = "complete", !.attempt = 0, !.expiresAt = 0,
                                !.checkedAt = now, !.code = "none"]
    BY <2>0, <2>6 DEF Row
  <2> QED BY <2>1, <2>2, <2>3, <2>4, <2>5, <2>6
          DEF Next, ReadState, ClaimStep, Claim, LoseClaim, SweepObserve, SweepRead, SweepClaim,
              RunStep, StartWork, Heartbeat, Work, PassDeadline, Complete, ReapStep, ReapRead,
              Fault, HeartbeatError, StatementError, Crash, ChangeEligible, Tick, Runner
<1> QED BY <1>1, LeaseInvariant, PTL DEF Spec, FailureIsOwnOrExpired

\* A completed row is only put back to work by an approval, with a fresh sweep budget.
THEOREM CompletionsStay == Spec => CompleteStays
<1>1. LeaseInv /\ [Next]_vars =>
        [row.status = "complete" /\ row'.status # "complete" =>
           row'.status = "in_progress" /\ row'.sweepAttempts = 0]_vars
  <2> SUFFICES ASSUME LeaseInv, Next, row.status = "complete", row'.status # "complete"
               PROVE  row'.status = "in_progress" /\ row'.sweepAttempts = 0
    OBVIOUS
  <2>0. row \in Row /\ row.code = "none" /\ ~ \E n \in Runner : Held(n)
    BY DEF LeaseInv, BootstrapTypeOK, RowBound, Held
  <2>1. CASE \E n \in Runner : NewHolder(n, 0)
    BY <2>0, <2>1 DEF NewHolder, Row
  <2>2. CASE \E s \in Sweeper : SweepClaim(s)
    BY <2>0, <2>2 DEF SweepClaim, LoseClaim
  <2>3. CASE row' = row
    BY <2>3
  <2>4. CASE row'.status = "complete"
    BY <2>4
  <2>5. CASE \E n \in Runner : RecordFailure(n) \/ ReapWrite(n)
    BY <2>0, <2>5 DEF RecordFailure, ReapWrite, StillAbandoned
  <2>6. CASE \E n \in Runner : Complete(n)
    BY <2>0, <2>6 DEF Complete, Row
  <2> QED BY <2>0, <2>1, <2>2, <2>3, <2>4, <2>5, <2>6
          DEF Next, ReadState, ClaimStep, Claim, LoseClaim, SweepObserve, SweepRead,
              RunStep, StartWork, Heartbeat, Work, PassDeadline, ReapStep, ReapRead,
              Fault, HeartbeatError, StatementError, Crash, ChangeEligible, Tick, Runner
<1> QED BY <1>1, LeaseInvariant, PTL DEF Spec, CompleteStays

-------------------------------------------------------------------------------
(* Liveness, by a bound in time.  An account's setup is open while a row is *)
(* in progress or waits for the sweep.  Every claim by the sweep and every  *)
(* fault moves the time by which it must be over by one round: a run, the   *)
(* delay after it, and the time a timer takes to act on what it finds.      *)

\* d bounds the delays of the sweep.  A run is over within WorkSpan of its claim; the row
\* is overdue DueSpan after it; one turn of the sweep takes TakeSpan, and a turn that was
\* under way when the row became due may be in vain.
WorkSpan == Deadline + 2 * DbLag
DueSpan(d) == WorkSpan + LockTtl + d + SweepLag + 1
TakeSpan == BatchLag + DbLag
Round(d) == DueSpan(d) + 2 * TakeSpan

\* Every claim of an approval is over by this time.
LastApproval == LastStart + DbLag

\* No run on the row was claimed later, after k claims by the sweep and faults.
BaseAt(k, d) == LastApproval + k * Round(d)
Base(d) == BaseAt(row.sweepAttempts + faults, d)

Horizon(d) == BaseAt(SweepCap + MaxFaults + 1, d)

\* The setup is not over: a retry that the sweep may run again, or a lease to be ended.
Open ==
  IF row.code = "retryable" THEN row.sweepAttempts < SweepCap /\ eligible
                            ELSE row.status = "in_progress"

\* The record of a runner agrees with the clock: no stage lasts longer than it may.
OnTime(n, p) ==
  /\ p.since <= now
  /\ p.claimedAt <= now
  /\ p.stage = "observed" => now <= p.since + BatchLag
  /\ p.stage \in {"claiming", "reaping", "claimed", "completing", "failing"} =>
       now <= p.since + DbLag
  /\ p.stage = "claiming" /\ n \in Approver => p.since <= LastStart
  /\ p.stage = "reaping" => p.seen.code # "retryable"
  /\ p.stage = "claimed" => p.since <= p.claimedAt
  /\ p.stage = "working" => now <= p.claimedAt + Deadline
  /\ p.stage = "completing" => p.since <= p.claimedAt + Deadline
  /\ p.stage = "failing" => p.since <= p.claimedAt + Deadline + DbLag

Timely ==
  /\ \A n \in Runner : OnTime(n, run[n])
  /\ row.checkedAt <= now
  /\ row.expiresAt <= now + LockTtl
  /\ row.status = "absent" => row.code = "none"
  /\ faults <= MaxFaults

\* The sweeper has seen the row as it is, and will win the claim.
Ready(s) ==
  /\ run[s].seen = row
  /\ row.code = "retryable"
  /\ row.status = "in_progress" => row.expiresAt < run[s].since

\* After time z the row is overdue: what the sweeper began before may be in vain, what it
\* begins afterwards is not.
SweeperBound(s, z) ==
  /\ run[s].stage = "idle" => now <= z + TakeSpan
  /\ run[s].stage = "observed" =>
       run[s].since <= z \/ (Ready(s) /\ run[s].since <= z + TakeSpan)
  /\ run[s].stage = "claiming" =>
       run[s].since <= z + BatchLag \/ (Ready(s) /\ run[s].since <= z + TakeSpan + BatchLag)
  /\ run[s].stage = "reaping" =>
       run[s].since <= z \/ (run[s].seen = row /\ run[s].since <= z + TakeSpan)

Bound(s, d) ==
  /\ row.checkedAt <= Base(d) + WorkSpan
  /\ row.expiresAt <= Base(d) + WorkSpan + LockTtl
  /\ \A n \in Runner : run[n].stage \in Running => run[n].claimedAt <= Base(d)
  /\ SweeperBound(s, Base(d) + DueSpan(d))

LEMMA SpanType ==
  ASSUME NEW d \in Nat
  PROVE  /\ WorkSpan \in Nat /\ DueSpan(d) \in Nat /\ TakeSpan \in Nat /\ LastApproval \in Nat
         /\ Round(d) \in Nat /\ Round(d) = DueSpan(d) + 2 * TakeSpan
         /\ WorkSpan + LockTtl <= DueSpan(d)
  BY LeaseAssumption DEF WorkSpan, DueSpan, TakeSpan, LastApproval, Round

LEMMA Product ==
  ASSUME NEW k \in Nat, NEW c \in Nat
  PROVE  /\ k * c \in Nat /\ (k + 1) * c = k * c + c
         /\ \A m \in Nat : k <= m => k * c <= m * c
<1>1. k * c \in Nat /\ (k + 1) * c = k * c + c
  OBVIOUS
<1>2. ASSUME NEW m \in Nat, k <= m PROVE k * c <= m * c
  <2>1. (m - k) * c >= 0
    BY <1>2
  <2>2. (m - k) * c = m * c - k * c
    OBVIOUS
  <2> QED BY <2>1, <2>2
<1> QED BY <1>1, <1>2

\* One more claim or fault moves the bound by a round.
LEMMA BaseMoves ==
  ASSUME NEW k \in Nat, NEW d \in Nat
  PROVE  /\ BaseAt(k, d) \in Nat /\ LastApproval <= BaseAt(k, d)
         /\ BaseAt(k + 1, d) = BaseAt(k, d) + Round(d)
         /\ \A m \in Nat : k <= m => BaseAt(k, d) <= BaseAt(m, d)
<1>1. Round(d) \in Nat /\ LastApproval \in Nat
  BY SpanType
<1> DEFINE c == Round(d)
<1> HIDE DEF c
<1>2. c \in Nat /\ \A m \in Nat : BaseAt(m, d) = LastApproval + m * c
  BY <1>1 DEF BaseAt, c
<1>3. \A m \in Nat : m * c \in Nat
  BY <1>2, Product
<1>4. (k + 1) * c = k * c + c /\ \A m \in Nat : k <= m => k * c <= m * c
  BY <1>2, Product
<1>5. BaseAt(k + 1, d) = LastApproval + (k + 1) * c /\ BaseAt(k, d) = LastApproval + k * c
  BY <1>2
<1>6. BaseAt(k, d) \in Nat /\ LastApproval <= BaseAt(k, d)
  BY <1>1, <1>3, <1>5
<1>7. BaseAt(k + 1, d) = BaseAt(k, d) + c
  BY <1>1, <1>2, <1>3, <1>4, <1>5
<1>8. ASSUME NEW m \in Nat, k <= m PROVE BaseAt(k, d) <= BaseAt(m, d)
  <2>1. k * c <= m * c /\ k * c \in Nat /\ m * c \in Nat /\ BaseAt(m, d) = LastApproval + m * c
    BY <1>2, <1>3, <1>4, <1>8
  <2> QED BY <1>1, <1>5, <2>1
<1> QED BY <1>6, <1>7, <1>8 DEF c

LEMMA TimelyInit == Init => Timely
  BY LeaseAssumption DEF Init, Timely, OnTime, IdleRun, AbsentRow

\* A step of one runner, at one time.
LEMMA OneOnTime ==
  ASSUME LeaseInv, Timely, NEW n \in Runner, NEW p,
         run' = [run EXCEPT ![n] = p], OnTime(n, p), UNCHANGED now,
         faults' = faults \/ faults' <= MaxFaults,
         \/ UNCHANGED row
         \/ /\ row'.checkedAt <= now /\ row'.expiresAt <= now + LockTtl
            /\ row'.status = "absent" => row'.code = "none"
  PROVE  Timely'
<1>1. \A m \in Runner : OnTime(m, run[m])'
  <2> SUFFICES ASSUME NEW m \in Runner PROVE OnTime(m, run[m])'
    OBVIOUS
  <2>1. CASE m = n
    <3>1. run'[m] = p
      BY <2>1 DEF LeaseInv, BootstrapTypeOK
    <3> QED BY <2>1, <3>1 DEF OnTime
  <2>2. CASE m # n
    <3>1. run'[m] = run[m] /\ OnTime(m, run[m])
      BY <2>2 DEF LeaseInv, BootstrapTypeOK, Timely
    <3> QED BY <3>1 DEF OnTime
  <2> QED BY <2>1, <2>2
<1>2. faults' <= MaxFaults
  BY DEF Timely
<1>3. /\ row'.checkedAt <= now' /\ row'.expiresAt <= now' + LockTtl
      /\ row'.status = "absent" => row'.code = "none"
  BY DEF Timely
<1> QED BY <1>1, <1>2, <1>3 DEF Timely

LEMMA IdleOnTime ==
  ASSUME LeaseInv, NEW n \in Runner
  PROVE  OnTime(n, IdleRun)
  BY DEF LeaseInv, BootstrapTypeOK, OnTime, IdleRun

\* A run gives up while it may still be under way.
LEMMA FailingOnTime ==
  ASSUME LeaseInv, Timely, NEW n \in Runner, NEW c, FailWith(n, c),
         run[n].stage \in {"claimed", "working", "completing"}, UNCHANGED now,
         faults' = faults \/ faults' <= MaxFaults,
         \/ UNCHANGED row
         \/ /\ row'.checkedAt <= now /\ row'.expiresAt <= now + LockTtl
            /\ row'.status = "absent" => row'.code = "none"
  PROVE  Timely'
<1> DEFINE p == [run[n] EXCEPT !.stage = "failing", !.since = now, !.due = FALSE, !.code = c]
<1>1. now \in Nat /\ run[n] \in Run /\ OnTime(n, run[n])
  BY DEF LeaseInv, BootstrapTypeOK, Timely
<1>2. p.stage = "failing" /\ p.since = now /\ p.claimedAt = run[n].claimedAt
  BY <1>1 DEF Run
<1>3. run' = [run EXCEPT ![n] = p]
  BY DEF FailWith
<1>4. run[n].since \in Nat /\ run[n].claimedAt \in Nat
  BY <1>1 DEF Run
<1> HIDE DEF p
<1>5. now <= p.claimedAt + Deadline + DbLag
  <2>1. Deadline \in Nat /\ DbLag \in Nat
    BY LeaseAssumption
  <2>2. CASE run[n].stage = "claimed"
    BY <1>1, <1>2, <1>4, <2>1, <2>2 DEF OnTime
  <2>3. CASE run[n].stage = "working"
    BY <1>1, <1>2, <1>4, <2>1, <2>3 DEF OnTime
  <2>4. CASE run[n].stage = "completing"
    BY <1>1, <1>2, <1>4, <2>1, <2>4 DEF OnTime
  <2> QED BY <2>2, <2>3, <2>4
<1>6. now <= now + DbLag
  BY <1>1, LeaseAssumption
<1>7. OnTime(n, p)
  BY <1>1, <1>2, <1>5, <1>6 DEF OnTime
<1> QED BY <1>3, <1>7, OneOnTime

\* What a runner reads, it reads now.
LEMMA ReadOnTime ==
  ASSUME LeaseInv, Timely
  PROVE  /\ \A a \in Approver : ReadState(a) => Timely'
         /\ \A s \in Sweeper : SweepObserve(s) => Timely'
         /\ \A s \in Sweeper : SweepRead(s) => Timely'
         /\ \A s \in Sweeper : ReapRead(s) => Timely'
<1>0. /\ now \in Nat /\ now <= now + DbLag /\ now <= now + BatchLag
      /\ \A n \in Runner : run[n] \in Run /\ OnTime(n, run[n])
      /\ \A n \in Sweeper : n \in Runner /\ n \notin Approver
      /\ \A n \in Approver : n \in Runner
  BY LeaseAssumption DEF LeaseInv, BootstrapTypeOK, Timely, Runner
<1>1. ASSUME NEW a \in Approver, ReadState(a) PROVE Timely'
  <2> DEFINE p == [IdleRun EXCEPT !.stage = "claiming", !.since = now, !.reclaim = Reclaims,
                                  !.seen = [AbsentRow EXCEPT !.status = row.status]]
  <2>1. /\ run' = [run EXCEPT ![a] = p] /\ p.stage = "claiming" /\ p.since = now
        /\ p.claimedAt = 0
    BY <1>1 DEF ReadState, IdleRun
  <2> HIDE DEF p
  <2>2. OnTime(a, p)
    BY <1>0, <1>1, <2>1 DEF OnTime, ReadState
  <2> QED BY <1>0, <1>1, <2>1, <2>2, OneOnTime DEF ReadState
<1>2. ASSUME NEW s \in Sweeper, SweepObserve(s) PROVE Timely'
  <2> DEFINE p == [IdleRun EXCEPT !.stage = "observed", !.since = now, !.seen = row]
  <2>1. /\ run' = [run EXCEPT ![s] = p] /\ p.stage = "observed" /\ p.since = now
        /\ p.claimedAt = 0
    BY <1>2 DEF SweepObserve, IdleRun
  <2> HIDE DEF p
  <2>2. OnTime(s, p)
    BY <1>0, <2>1 DEF OnTime
  <2> QED BY <1>0, <1>2, <2>1, <2>2, OneOnTime DEF SweepObserve
<1>3. ASSUME NEW s \in Sweeper, SweepRead(s) PROVE Timely'
  <2>0. s \in Runner /\ s \notin Approver /\ run[s] \in Run
    BY <1>0
  <2>1. CASE run' = [run EXCEPT ![s] = IdleRun]
    BY <1>3, <2>0, <2>1, IdleOnTime, OneOnTime DEF SweepRead
  <2>2. CASE run' = [run EXCEPT ![s] = [run[s] EXCEPT !.stage = "claiming", !.since = now,
                                                      !.reclaim = Reclaims]]
    <3> DEFINE p == [run[s] EXCEPT !.stage = "claiming", !.since = now, !.reclaim = Reclaims]
    <3>1. p.stage = "claiming" /\ p.since = now /\ p.claimedAt = run[s].claimedAt
      BY <2>0 DEF Run
    <3> HIDE DEF p
    <3>2. OnTime(s, p)
      BY <1>0, <2>0, <3>1 DEF OnTime
    <3> QED BY <1>3, <2>0, <2>2, <3>2, OneOnTime DEF SweepRead, p
  <2> QED BY <1>3, <2>1, <2>2 DEF SweepRead
<1>4. ASSUME NEW s \in Sweeper, ReapRead(s) PROVE Timely'
  <2> DEFINE p == [IdleRun EXCEPT !.stage = "reaping", !.since = now, !.seen = row]
  <2>1. /\ run' = [run EXCEPT ![s] = p] /\ p.stage = "reaping" /\ p.since = now
        /\ p.claimedAt = 0 /\ p.seen = row
    BY <1>4 DEF ReapRead, IdleRun
  <2> HIDE DEF p
  <2>2. OnTime(s, p)
    BY <1>0, <1>4, <2>1 DEF OnTime, ReapRead, Abandoned
  <2> QED BY <1>0, <1>4, <2>1, <2>2, OneOnTime DEF ReapRead
<1> QED BY <1>1, <1>2, <1>3, <1>4

\* A claim is dated by the clock its runner read.
LEMMA ClaimOnTime ==
  ASSUME LeaseInv, Timely, NEW n \in Runner, run[n].stage = "claiming", UNCHANGED <<now, faults>>
  PROVE  /\ LoseClaim(n) => Timely'
         /\ \A a \in Nat : NewHolder(n, a) => Timely'
<1>0. now \in Nat /\ run[n] \in Run /\ row \in Row /\ OnTime(n, run[n]) /\ LockTtl \in Nat
  BY LeaseAssumption DEF LeaseInv, BootstrapTypeOK, Timely
<1>1. ASSUME LoseClaim(n) PROVE Timely'
  BY <1>1, IdleOnTime, OneOnTime DEF LoseClaim
<1>2. ASSUME NEW a \in Nat, NewHolder(n, a) PROVE Timely'
  <2> DEFINE p == [IdleRun EXCEPT !.stage = "claimed", !.since = now, !.reclaim = run[n].reclaim,
                                  !.attempt = claims + 1, !.claimedAt = now]
  <2>1. /\ run' = [run EXCEPT ![n] = p] /\ p.stage = "claimed" /\ p.since = now
        /\ p.claimedAt = now
    BY <1>2 DEF NewHolder, IdleRun
  <2> HIDE DEF p
  <2>2. OnTime(n, p)
    BY <1>0, <2>1, LeaseAssumption DEF OnTime
  <2>3. /\ row'.status = "in_progress" /\ row'.checkedAt = run[n].since
        /\ row'.expiresAt = run[n].since + LockTtl
    BY <1>0, <1>2 DEF NewHolder, Row
  <2>4. run[n].since \in Nat /\ run[n].since <= now
    BY <1>0 DEF Run, OnTime
  <2>5. row'.checkedAt <= now /\ row'.expiresAt <= now + LockTtl
    BY <1>0, <2>3, <2>4
  <2> QED BY <2>1, <2>2, <2>3, <2>5, OneOnTime
<1> QED BY <1>1, <1>2

\* The steps of a run under its lease.
LEMMA RunOnTime ==
  ASSUME LeaseInv, Timely, NEW n \in Runner
  PROVE  /\ StartWork(n) => Timely'
         /\ Heartbeat(n) => Timely'
         /\ Work(n) => Timely'
         /\ PassDeadline(n) => Timely'
         /\ Complete(n) => Timely'
         /\ RecordFailure(n) => Timely'
<1>0. /\ now \in Nat /\ run[n] \in Run /\ row \in Row /\ OnTime(n, run[n])
      /\ LockTtl \in Nat /\ Lifetime \in Nat /\ Deadline \in Nat /\ DbLag \in Nat
      /\ run[n].claimedAt \in Nat /\ run[n].since \in Nat
  BY LeaseAssumption DEF LeaseInv, BootstrapTypeOK, Timely, Run
<1>e. ASSUME Extend(n), Held(n)
      PROVE  /\ row'.checkedAt <= now /\ row'.expiresAt <= now + LockTtl
             /\ row'.status = "absent" => row'.code = "none"
  <2>1. /\ row'.checkedAt = now /\ row'.status = "in_progress"
        /\ row'.expiresAt = MinOf(now + LockTtl, run[n].claimedAt + Lifetime)
    BY <1>0, <1>e DEF Extend, Held, Row
  <2> QED BY <1>0, <2>1 DEF MinOf
<1>f. ASSUME NEW c, FailWith(n, c), run[n].stage \in {"claimed", "working", "completing"},
             UNCHANGED <<now, faults>>, UNCHANGED row \/ (Extend(n) /\ Held(n))
      PROVE  Timely'
  BY <1>e, <1>f, FailingOnTime
<1>1. ASSUME StartWork(n) PROVE Timely'
  <2>0. run[n].stage = "claimed" /\ UNCHANGED <<now, faults>>
    BY <1>1 DEF StartWork
  <2>1. CASE /\ Held(n) /\ Extend(n) /\ now < run[n].claimedAt + Deadline
             /\ run' = [run EXCEPT ![n].stage = "working", ![n].since = 0]
    <3> DEFINE p == [run[n] EXCEPT !.stage = "working", !.since = 0]
    <3>1. p.stage = "working" /\ p.since = 0 /\ p.claimedAt = run[n].claimedAt
      BY <1>0 DEF Run
    <3>2. run' = [run EXCEPT ![n] = p]
      BY <2>1
    <3> HIDE DEF p
    <3>3. OnTime(n, p)
      BY <1>0, <2>1, <3>1 DEF OnTime
    <3> QED BY <1>e, <2>0, <2>1, <3>2, <3>3, OneOnTime
  <2>2. CASE \E c \in {"final", "retryable"} : FailWith(n, c) /\ (UNCHANGED row \/ (Extend(n) /\ Held(n)))
    BY <1>f, <2>0, <2>2
  <2> QED BY <1>1, <2>1, <2>2 DEF StartWork
<1>2. ASSUME Heartbeat(n) PROVE Timely'
  <2>0. run[n].stage \in {"claimed", "working"} /\ UNCHANGED <<now, faults>>
    BY <1>2 DEF Heartbeat, LeaseInv, AttemptBound
  <2>1. CASE Held(n) /\ Extend(n) /\ run' = [run EXCEPT ![n].due = FALSE]
    <3> DEFINE p == [run[n] EXCEPT !.due = FALSE]
    <3>1. p.stage = run[n].stage /\ p.since = run[n].since /\ p.claimedAt = run[n].claimedAt
          /\ p.seen = run[n].seen
      BY <1>0 DEF Run
    <3>2. run' = [run EXCEPT ![n] = p]
      BY <2>1
    <3> HIDE DEF p
    <3>3. OnTime(n, p)
      BY <1>0, <3>1 DEF OnTime
    <3> QED BY <1>e, <2>0, <2>1, <3>2, <3>3, OneOnTime
  <2>2. CASE FailWith(n, "retryable") /\ UNCHANGED row
    BY <1>f, <2>0, <2>2
  <2> QED BY <1>2, <2>1, <2>2 DEF Heartbeat
<1>3. ASSUME Work(n) PROVE Timely'
  <2>0. run[n].stage = "working" /\ UNCHANGED <<now, faults, row>>
    BY <1>3 DEF Work
  <2>1. CASE run' = [run EXCEPT ![n].stage = "completing", ![n].since = now, ![n].due = FALSE]
    <3> DEFINE p == [run[n] EXCEPT !.stage = "completing", !.since = now, !.due = FALSE]
    <3>1. p.stage = "completing" /\ p.since = now /\ p.claimedAt = run[n].claimedAt
      BY <1>0 DEF Run
    <3>2. run' = [run EXCEPT ![n] = p]
      BY <2>1
    <3> HIDE DEF p
    <3>3. OnTime(n, p)
      BY <1>0, <2>0, <3>1 DEF OnTime
    <3> QED BY <2>0, <3>2, <3>3, OneOnTime
  <2>2. CASE \E c \in {"final", "retryable"} : FailWith(n, c)
    BY <1>f, <2>0, <2>2
  <2> QED BY <1>3, <2>1, <2>2 DEF Work
<1>4. ASSUME PassDeadline(n) PROVE Timely'
  BY <1>4, <1>f DEF PassDeadline
<1>5. ASSUME Complete(n) PROVE Timely'
  <2>1. \/ UNCHANGED row
        \/ row'.checkedAt = now /\ row'.expiresAt = 0 /\ row'.status = "complete"
    BY <1>0, <1>5 DEF Complete, Row
  <2>2. \/ UNCHANGED row
        \/ /\ row'.checkedAt <= now /\ row'.expiresAt <= now + LockTtl
           /\ row'.status = "absent" => row'.code = "none"
    BY <1>0, <2>1
  <2> QED BY <1>5, <2>2, IdleOnTime, OneOnTime DEF Complete
<1>6. ASSUME RecordFailure(n) PROVE Timely'
  <2>1. \/ UNCHANGED row
        \/ /\ row'.checkedAt <= now /\ row'.expiresAt <= now + LockTtl
           /\ row'.status = "absent" => row'.code = "none"
    BY <1>0, <1>6 DEF RecordFailure, Row
  <2> QED BY <1>6, <2>1, IdleOnTime, OneOnTime DEF RecordFailure
<1> QED BY <1>1, <1>2, <1>3, <1>4, <1>5, <1>6

LEMMA FaultOnTime ==
  ASSUME LeaseInv, Timely, NEW n \in Runner, Fault(n)
  PROVE  Timely'
<1>0. /\ now \in Nat /\ run[n] \in Run /\ OnTime(n, run[n]) /\ MaxFaults \in Nat /\ faults \in Nat
  BY LeaseAssumption DEF LeaseInv, BootstrapTypeOK, Timely
<1>1. CASE HeartbeatError(n)
  <2> DEFINE p == [run[n] EXCEPT !.due = FALSE, !.shaken = TRUE]
  <2>1. p.stage = run[n].stage /\ p.since = run[n].since /\ p.claimedAt = run[n].claimedAt
        /\ p.seen = run[n].seen
    BY <1>0 DEF Run
  <2>2. run' = [run EXCEPT ![n] = p]
    BY <1>1 DEF HeartbeatError
  <2> HIDE DEF p
  <2>3. OnTime(n, p)
    BY <1>0, <2>1 DEF OnTime
  <2>4. UNCHANGED <<now, row>> /\ faults' <= MaxFaults
    BY <1>0, <1>1 DEF HeartbeatError
  <2> QED BY <2>2, <2>3, <2>4, OneOnTime
<1>2. CASE StatementError(n)
  <2>1. UNCHANGED <<now, row>> /\ faults' <= MaxFaults
    BY <1>0, <1>2 DEF StatementError
  <2> QED BY <1>2, <2>1, FailingOnTime DEF StatementError
<1>3. CASE Crash(n)
  <2>1. UNCHANGED <<now, row>> /\ faults' <= MaxFaults
    BY <1>0, <1>3 DEF Crash
  <2> QED BY <1>3, <2>1, IdleOnTime, OneOnTime DEF Crash
<1> QED BY <1>1, <1>2, <1>3 DEF Fault

LEMMA ReapOnTime ==
  ASSUME LeaseInv, Timely, NEW s \in Sweeper, ReapWrite(s)
  PROVE  Timely'
<1>0. now \in Nat /\ row \in Row /\ s \in Runner /\ LockTtl \in Nat
  BY LeaseAssumption DEF LeaseInv, BootstrapTypeOK, Runner
<1>1. \/ UNCHANGED row
      \/ /\ row'.checkedAt <= now /\ row'.expiresAt <= now + LockTtl
         /\ row'.status = "absent" => row'.code = "none"
  <2>1. row.checkedAt <= now
    BY DEF Timely
  <2> QED BY <1>0, <2>1 DEF ReapWrite, Row
<1> QED BY <1>0, <1>1, IdleOnTime, OneOnTime DEF ReapWrite

\* The clock waits for whatever must happen by now.
LEMMA TickOnTime ==
  ASSUME LeaseInv, Timely, Tick
  PROVE  Timely'
<1>1. /\ now \in Nat /\ row \in Row /\ run \in [Runner -> Run]
      /\ now' = now + 1 /\ UNCHANGED <<row, faults>>
  BY DEF LeaseInv, BootstrapTypeOK, Tick
<1>2. ASSUME NEW n \in Runner PROVE OnTime(n, run[n])'
  <2>1. \E b : run'[n] = [run[n] EXCEPT !.due = b]
    BY DEF Tick
  <2>2. /\ run'[n].stage = run[n].stage /\ run'[n].since = run[n].since
        /\ run'[n].seen = run[n].seen /\ run'[n].claimedAt = run[n].claimedAt
    BY <1>1, <2>1 DEF Run
  <2>3. /\ OnTime(n, run[n])
        /\ run[n].stage = "working" => now < run[n].claimedAt + Deadline
        /\ run[n].stage \notin {"idle", "observed", "working"} => now < run[n].since + DbLag
        /\ run[n].stage = "observed" => now < run[n].since + BatchLag
    BY DEF Timely, Tick, MayTick
  <2>4. run[n].since \in Nat /\ run[n].claimedAt \in Nat
    BY <1>1 DEF Run
  <2>5. Deadline \in Nat /\ DbLag \in Nat /\ BatchLag \in Nat
    BY LeaseAssumption
  <2> QED BY <1>1, <2>2, <2>3, <2>4, <2>5 DEF OnTime
<1>3. row.checkedAt <= now + 1 /\ row.expiresAt <= now + 1 + LockTtl
  <2>1. row.checkedAt \in Nat /\ row.expiresAt \in Nat /\ LockTtl \in Nat
    BY <1>1, LeaseAssumption DEF Row
  <2> QED BY <1>1, <2>1 DEF Timely
<1> QED BY <1>1, <1>2, <1>3 DEF Timely

LEMMA StepOnTime ==
  ASSUME LeaseInv, Timely, [Next]_vars
  PROVE  Timely'
<1>1. CASE \E a \in Approver : ReadState(a)
  BY <1>1, ReadOnTime
<1>2. CASE \E n \in Runner : ClaimStep(n)
  <2>1. CASE \E n \in Runner : n \in Approver /\ Claim(n)
    BY <2>1, ClaimOnTime DEF Claim
  <2>2. CASE \E s \in Sweeper : SweepObserve(s) \/ SweepRead(s)
    BY <2>2, ReadOnTime
  <2>3. CASE \E n \in Runner : n \in Sweeper /\ SweepClaim(n)
    <3>1. row.sweepAttempts + 1 \in Nat
      BY DEF LeaseInv, BootstrapTypeOK, Row
    <3> QED BY <2>3, <3>1, ClaimOnTime DEF SweepClaim
  <2> QED BY <1>2, <2>1, <2>2, <2>3 DEF ClaimStep
<1>3. CASE \E n \in Runner : RunStep(n)
  BY <1>3, RunOnTime DEF RunStep
<1>4. CASE \E n \in Runner : ReapStep(n)
  BY <1>4, ReadOnTime, ReapOnTime DEF ReapStep
<1>5. CASE \E n \in Runner : Fault(n)
  BY <1>5, FaultOnTime
<1>6. CASE ChangeEligible
  <2>1. faults' <= MaxFaults /\ UNCHANGED <<now, row, run>>
    BY <1>6, LeaseAssumption DEF ChangeEligible, LeaseInv, BootstrapTypeOK
  <2> QED BY <2>1 DEF Timely, OnTime
<1>7. CASE Tick
  BY <1>7, TickOnTime
<1>8. CASE UNCHANGED vars
  BY <1>8 DEF vars, Timely, OnTime
<1> QED BY <1>1, <1>2, <1>3, <1>4, <1>5, <1>6, <1>7, <1>8 DEF Next

-------------------------------------------------------------------------------
(* The bound.  A step that ends the setup, or starts a round, has nothing to  *)
(* show; one of a run comes early in its round; the sweep's own are the rest. *)

\* Lags and bases are numbers.
LEMMA BoundType ==
  ASSUME LeaseInv, NEW d \in Nat
  PROVE  /\ WorkSpan \in Nat /\ DueSpan(d) \in Nat /\ TakeSpan \in Nat /\ Round(d) \in Nat
         /\ WorkSpan + LockTtl <= DueSpan(d) /\ LastApproval \in Nat
         /\ Round(d) = DueSpan(d) + 2 * TakeSpan
         /\ row.sweepAttempts + faults \in Nat
         /\ Base(d) \in Nat /\ LastApproval <= Base(d)
<1>1. row.sweepAttempts + faults \in Nat
  BY DEF LeaseInv, BootstrapTypeOK, Row
<1> QED BY <1>1, SpanType, BaseMoves DEF Base

\* A step to a time early in the round meets the bound whatever it does.
LEMMA EarlyBound ==
  ASSUME LeaseInv', Timely', NEW d \in Nat, NEW s \in Sweeper, NEW b \in Nat,
         Base(d)' = b, now' <= b + WorkSpan,
         \A n \in Runner : run'[n].stage \in Running => run'[n].claimedAt <= b
  PROVE  Bound(s, d)'
<1>1. /\ WorkSpan \in Nat /\ DueSpan(d) \in Nat /\ TakeSpan \in Nat
      /\ WorkSpan + LockTtl <= DueSpan(d) /\ LockTtl \in Nat /\ BatchLag \in Nat
  BY SpanType, LeaseAssumption
<1>2. now' \in Nat /\ row'.checkedAt \in Nat /\ row'.expiresAt \in Nat
  BY DEF LeaseInv, BootstrapTypeOK, Row
<1>3. row'.checkedAt <= b + WorkSpan /\ row'.expiresAt <= b + WorkSpan + LockTtl
  BY <1>1, <1>2 DEF Timely
<1>4. s \in Runner /\ run'[s].since \in Nat /\ run'[s].since <= now'
  BY DEF LeaseInv, BootstrapTypeOK, Run, Timely, OnTime, Runner
<1>5. /\ now' <= b + DueSpan(d) + TakeSpan
      /\ run'[s].since <= b + DueSpan(d)
      /\ run'[s].since <= b + DueSpan(d) + BatchLag
  BY <1>1, <1>2, <1>4
<1> QED BY <1>3, <1>5 DEF Bound, SweeperBound

\* A new round: the step comes before its base.
LEMMA NewRound ==
  ASSUME LeaseInv', Timely', NEW d \in Nat, NEW s \in Sweeper, NEW b \in Nat,
         Base(d)' = b, now' <= b
  PROVE  Bound(s, d)'
<1>1. now' \in Nat /\ WorkSpan \in Nat
  BY SpanType DEF LeaseInv, BootstrapTypeOK
<1>2. \A n \in Runner : run'[n].claimedAt \in Nat /\ run'[n].claimedAt <= now'
  BY DEF LeaseInv, BootstrapTypeOK, Run, Timely, OnTime
<1>3. \A n \in Runner : run'[n].claimedAt <= b
  BY <1>1, <1>2
<1> QED BY <1>1, <1>3, EarlyBound

\* While a setup is open, its round is not over.
LEMMA RoundEnds ==
  ASSUME LeaseInv, Timely, NEW d \in Nat, NEW s \in Sweeper, Bound(s, d)
  PROVE  now <= Base(d) + Round(d)
<1>1. s \in Runner /\ run[s] \in Run /\ now \in Nat
  BY DEF LeaseInv, BootstrapTypeOK, Runner
<1>2. run[s].since \in Nat /\ run[s].claimedAt \in Nat /\ OnTime(s, run[s])
  BY <1>1 DEF Run, Timely
<1>3. /\ WorkSpan \in Nat /\ DueSpan(d) \in Nat /\ TakeSpan \in Nat /\ Base(d) \in Nat
      /\ WorkSpan + LockTtl <= DueSpan(d) /\ Round(d) = DueSpan(d) + 2 * TakeSpan
  BY BoundType
<1>4. /\ Deadline \in Nat /\ DbLag \in Nat /\ BatchLag \in Nat /\ LockTtl \in Nat
      /\ TakeSpan = BatchLag + DbLag /\ WorkSpan = Deadline + 2 * DbLag
  BY LeaseAssumption DEF TakeSpan, WorkSpan
<1> DEFINE z == Base(d) + DueSpan(d)
<1>5. z \in Nat /\ Base(d) + Round(d) = z + 2 * TakeSpan /\ Base(d) + WorkSpan <= z
  BY <1>3, <1>4
<1>6. CASE run[s].stage = "idle"
  BY <1>1, <1>3, <1>5, <1>6 DEF Bound, SweeperBound
<1>7. CASE run[s].stage = "observed"
  <2>1. run[s].since <= z + TakeSpan /\ now <= run[s].since + BatchLag
    BY <1>2, <1>3, <1>5, <1>7 DEF Bound, SweeperBound, OnTime
  <2> HIDE DEF z
  <2> QED BY <1>1, <1>2, <1>3, <1>4, <1>5, <2>1
<1>8. CASE run[s].stage = "claiming"
  <2>1. run[s].since <= z + TakeSpan + BatchLag /\ now <= run[s].since + DbLag
    BY <1>2, <1>3, <1>4, <1>5, <1>8 DEF Bound, SweeperBound, OnTime
  <2> HIDE DEF z
  <2> QED BY <1>1, <1>2, <1>3, <1>4, <1>5, <2>1
<1>9. CASE run[s].stage = "reaping"
  <2>1. run[s].since <= z + TakeSpan /\ now <= run[s].since + DbLag
    BY <1>2, <1>3, <1>5, <1>9 DEF Bound, SweeperBound, OnTime
  <2> HIDE DEF z
  <2> QED BY <1>1, <1>2, <1>3, <1>4, <1>5, <2>1
<1>10. CASE run[s].stage \in Running
  <2>1. run[s].claimedAt <= Base(d)
    BY <1>1, <1>10 DEF Bound
  <2>2. now <= run[s].claimedAt + WorkSpan
    BY <1>1, <1>2, <1>4, <1>10 DEF OnTime, Running
  <2> HIDE DEF z
  <2> QED BY <1>1, <1>2, <1>3, <1>5, <2>1, <2>2
<1> QED BY <1>1, <1>6, <1>7, <1>8, <1>9, <1>10 DEF Run, Running

\* Approvals come before the first round is over.
LEMMA ApprovalBound ==
  ASSUME LeaseInv, LeaseInv', Timely, Timely', NEW d \in Nat, NEW s \in Sweeper,
         \/ \E a \in Approver : ReadState(a) \/ Claim(a)
         \/ ChangeEligible
  PROVE  Bound(s, d)'
<1>1. now \in Nat /\ LastApproval \in Nat /\ LastStart \in Nat /\ DbLag \in Nat /\ UNCHANGED now
  BY SpanType, LeaseAssumption
     DEF LeaseInv, BootstrapTypeOK, ReadState, Claim, ChangeEligible
<1>2. now <= LastApproval
  <2>1. CASE (\E a \in Approver : ReadState(a)) \/ ChangeEligible
    BY <1>1, <2>1 DEF ReadState, ChangeEligible, LastApproval
  <2>2. CASE \E a \in Approver : Claim(a)
    <3>1. PICK a \in Approver : run[a].stage = "claiming"
      BY <2>2 DEF Claim
    <3>2. run[a].since \in Nat /\ OnTime(a, run[a])
      BY DEF LeaseInv, BootstrapTypeOK, Run, Timely, Runner
    <3>3. run[a].since <= LastStart /\ now <= run[a].since + DbLag
      BY <3>1, <3>2 DEF OnTime
    <3> QED BY <1>1, <3>2, <3>3 DEF LastApproval
  <2> QED BY <2>1, <2>2
<1>3. row'.sweepAttempts + faults' \in Nat
  BY DEF LeaseInv, BootstrapTypeOK, Row
<1>4. Base(d)' \in Nat /\ LastApproval <= Base(d)'
  BY <1>3, BaseMoves DEF Base
<1>5. now' <= Base(d)'
  BY <1>1, <1>2, <1>4
<1> QED BY <1>4, <1>5, NewRound

\* A fault, or a claim by the sweep, starts a round.
LEMMA RoundStarts ==
  ASSUME LeaseInv, LeaseInv', Timely, Timely', NEW d \in Nat, NEW s \in Sweeper, Bound(s, d),
         row'.sweepAttempts + faults' = row.sweepAttempts + faults + 1, UNCHANGED now
  PROVE  Bound(s, d)'
<1>1. /\ row.sweepAttempts + faults \in Nat /\ now \in Nat
      /\ row.sweepAttempts \in Nat /\ faults \in Nat
  BY DEF LeaseInv, BootstrapTypeOK, Row
<1>2. Base(d)' = Base(d) + Round(d) /\ Base(d) \in Nat /\ Round(d) \in Nat
  BY <1>1, BaseMoves, SpanType DEF Base
<1>3. now <= Base(d) + Round(d)
  BY RoundEnds
<1> QED BY <1>2, <1>3, NewRound

\* What the steps of a run leave alone: neither the budget nor the base, and they open
\* nothing.
LEMMA RunStepKeeps ==
  ASSUME LeaseInv, NEW n \in Runner, RunStep(n)
  PROVE  /\ UNCHANGED <<now, eligible, faults>>
         /\ run[n].stage \in Running
         /\ row'.sweepAttempts = row.sweepAttempts
         /\ Open' => Open
         /\ \A m \in Runner : run'[m].stage \in Running =>
              run[m].stage \in Running /\ run'[m].claimedAt = run[m].claimedAt
<1>0. /\ row \in Row /\ run \in [Runner -> Run] /\ run[n] \in Run
  BY DEF LeaseInv, BootstrapTypeOK
<1>1. run[n].stage \in Running /\ UNCHANGED <<now, eligible, faults>>
  BY DEF RunStep, StartWork, Heartbeat, Work, PassDeadline, Complete, RecordFailure, Running,
         LeaseInv, AttemptBound
<1>2. \/ row' = row
      \/ Extend(n)
      \/ row' = [row EXCEPT !.status = "complete", !.attempt = 0, !.expiresAt = 0,
                            !.checkedAt = now, !.code = "none"]
      \/ /\ Held(n)
         /\ \E c \in {"none", "retryable", "reclaim", "final"} :
              row' = [row EXCEPT !.status = "failed", !.expiresAt = 0, !.checkedAt = now, !.code = c]
  <2>1. CASE StartWork(n) \/ Heartbeat(n) \/ Work(n) \/ PassDeadline(n) \/ Complete(n)
    BY <2>1 DEF StartWork, Heartbeat, Work, PassDeadline, Complete
  <2>2. CASE RecordFailure(n)
    <3> DEFINE c == IF run[n].reclaim THEN "reclaim" ELSE run[n].code
    <3>1. c \in {"none", "retryable", "reclaim", "final"}
      BY <1>0 DEF Run, Code
    <3>2. row' = row \/ (Held(n) /\ row' = [row EXCEPT !.status = "failed", !.expiresAt = 0,
                                                       !.checkedAt = now, !.code = c])
      BY <2>2 DEF RecordFailure
    <3> HIDE DEF c
    <3> QED BY <3>1, <3>2
  <2> QED BY <2>1, <2>2 DEF RunStep
<1>3. /\ row'.sweepAttempts = row.sweepAttempts
      /\ \/ row'.status = row.status /\ row'.code = row.code
         \/ row'.status = "complete" /\ row'.code = "none"
         \/ row.status = "in_progress" /\ row'.status = "failed"
  BY <1>0, <1>2 DEF Extend, Held, Row
<1>4. Open' => Open
  BY <1>1, <1>3 DEF Open
<1>5. \/ run' = [run EXCEPT ![n] = IdleRun]
      \/ \E c : FailWith(n, c)
      \/ run' = [run EXCEPT ![n].stage = "working", ![n].since = 0]
      \/ run' = [run EXCEPT ![n].due = FALSE]
      \/ run' = [run EXCEPT ![n].stage = "completing", ![n].since = now, ![n].due = FALSE]
  BY DEF RunStep, StartWork, Heartbeat, Work, PassDeadline, Complete, RecordFailure
<1>6. \/ run'[n].stage = "idle"
      \/ run'[n].claimedAt = run[n].claimedAt
  BY <1>0, <1>5 DEF FailWith, IdleRun, Run
<1>7. \A m \in Runner \ {n} : run'[m] = run[m]
  BY <1>0, <1>5 DEF FailWith
<1> QED BY <1>1, <1>3, <1>4, <1>6, <1>7 DEF Running

LEMMA RunStepBound ==
  ASSUME LeaseInv, LeaseInv', Timely, Timely', NEW d \in Nat, NEW s \in Sweeper,
         Open => Bound(s, d), NEW n \in Runner, RunStep(n), Open'
  PROVE  Bound(s, d)'
<1>1. /\ UNCHANGED <<now, eligible, faults>>
      /\ run[n].stage \in Running
      /\ row'.sweepAttempts = row.sweepAttempts
      /\ Open
      /\ \A m \in Runner : run'[m].stage \in Running =>
           run[m].stage \in Running /\ run'[m].claimedAt = run[m].claimedAt
  BY RunStepKeeps
<1>2. Bound(s, d) /\ Base(d)' = Base(d)
  BY <1>1 DEF Base
<1>3. /\ now \in Nat /\ WorkSpan \in Nat /\ Base(d) \in Nat
      /\ run[n].claimedAt \in Nat /\ run[n].since \in Nat /\ OnTime(n, run[n])
  BY BoundType DEF LeaseInv, BootstrapTypeOK, Run, Timely
<1>4. now <= run[n].claimedAt + WorkSpan
  <2>1. Deadline \in Nat /\ DbLag \in Nat /\ WorkSpan = Deadline + 2 * DbLag
    BY LeaseAssumption DEF WorkSpan
  <2>2. run[n].stage \in {"claimed", "working", "completing", "failing"}
    BY <1>1 DEF Running
  <2> QED BY <1>3, <2>1, <2>2 DEF OnTime
<1>5. run[n].claimedAt <= Base(d)
  BY <1>1, <1>2 DEF Bound
<1>6. now' <= Base(d) + WorkSpan
  BY <1>1, <1>3, <1>4, <1>5
<1>7. \A m \in Runner : run'[m].stage \in Running => run'[m].claimedAt <= Base(d)
  BY <1>1, <1>2 DEF Bound
<1> QED BY <1>2, <1>3, <1>6, <1>7, EarlyBound

\* A step of one runner outside a run, that leaves the row alone.
LEMMA AsideBound ==
  ASSUME LeaseInv, LeaseInv', NEW d \in Nat, NEW s \in Sweeper, Bound(s, d),
         NEW n \in Runner, NEW p, run' = [run EXCEPT ![n] = p],
         UNCHANGED <<now, row, faults>>, p.stage \notin Running,
         n = s => SweeperBound(s, Base(d) + DueSpan(d))'
  PROVE  Bound(s, d)'
<1>1. run'[n] = p /\ \A m \in Runner \ {n} : run'[m] = run[m]
  BY DEF LeaseInv, BootstrapTypeOK
<1>2. Base(d)' = Base(d)
  BY DEF Base
<1>3. SweeperBound(s, Base(d) + DueSpan(d))'
  <2>1. CASE n = s
    BY <2>1
  <2>2. CASE n # s
    <3>1. run'[s] = run[s]
      BY <1>1, <2>2 DEF Runner
    <3> QED BY <1>2, <3>1 DEF Bound, SweeperBound, Ready
  <2> QED BY <2>1, <2>2
<1>4. \A m \in Runner : run'[m].stage \in Running => run'[m].claimedAt <= Base(d)
  BY <1>1 DEF Bound
<1> QED BY <1>2, <1>3, <1>4 DEF Bound

\* The sweep's turn: it observes or reads by the end of the turn that was under way, and
\* what it then does, it does on the row as it is.
LEMMA TurnBound ==
  ASSUME LeaseInv, LeaseInv', Timely, NEW d \in Nat, NEW s \in Sweeper, Bound(s, d), Open,
         NEW n \in Sweeper
  PROVE  /\ SweepObserve(n) => Bound(s, d)'
         /\ SweepRead(n) => Bound(s, d)'
         /\ ReapRead(n) => Bound(s, d)'
         /\ LoseClaim(n) /\ SweepClaim(n) => Bound(s, d)'
         /\ ReapWrite(n) /\ row' = row => Bound(s, d)'
<1> DEFINE z == Base(d) + DueSpan(d)
<1>0. /\ n \in Runner /\ run[n] \in Run /\ run \in [Runner -> Run] /\ row \in Row
      /\ now \in Nat /\ run[n].since \in Nat /\ OnTime(n, run[n])
      /\ BatchLag \in Nat /\ DbLag \in Nat /\ TakeSpan = BatchLag + DbLag
      /\ z \in Nat /\ TakeSpan \in Nat
  <2>1. n \in Runner /\ run \in [Runner -> Run] /\ row \in Row /\ now \in Nat
    BY DEF LeaseInv, BootstrapTypeOK, Runner
  <2>2. run[n] \in Run /\ run[n].since \in Nat /\ OnTime(n, run[n])
    BY <2>1 DEF Run, Timely
  <2>3. BatchLag \in Nat /\ DbLag \in Nat /\ TakeSpan = BatchLag + DbLag /\ TakeSpan \in Nat
    BY LeaseAssumption DEF TakeSpan
  <2>4. Base(d) \in Nat /\ DueSpan(d) \in Nat
    BY BoundType
  <2> QED BY <2>1, <2>2, <2>3, <2>4
<1>z. UNCHANGED <<row, faults>> => z' = z
  BY DEF Base
<1>s. SweeperBound(s, z)
  BY DEF Bound
<1> HIDE DEF z
<1>1. ASSUME SweepObserve(n) PROVE Bound(s, d)'
  <2> DEFINE p == [IdleRun EXCEPT !.stage = "observed", !.since = now, !.seen = row]
  <2>1. p.stage = "observed" /\ p.since = now /\ p.seen = row
    BY DEF IdleRun
  <2>2. /\ run' = [run EXCEPT ![n] = p] /\ run[n].stage = "idle"
        /\ UNCHANGED <<now, row, faults>>
        /\ row.code = "retryable" /\ (row.status = "in_progress" => row.expiresAt < now)
    BY <1>1 DEF SweepObserve, Candidate
  <2> HIDE DEF p
  <2>3. n = s => SweeperBound(s, z)'
    <3> SUFFICES ASSUME n = s PROVE SweeperBound(s, z)'
      OBVIOUS
    <3>1. run'[s] = p /\ now <= z + TakeSpan
      BY <1>0, <1>s, <2>2 DEF SweeperBound
    <3> QED BY <1>0, <1>z, <2>1, <2>2, <3>1 DEF SweeperBound, Ready
  <2> QED BY <1>0, <2>1, <2>2, <2>3, AsideBound DEF z, Running
<1>2. ASSUME ReapRead(n) PROVE Bound(s, d)'
  <2> DEFINE p == [IdleRun EXCEPT !.stage = "reaping", !.since = now, !.seen = row]
  <2>1. p.stage = "reaping" /\ p.since = now /\ p.seen = row
    BY DEF IdleRun
  <2>2. /\ run' = [run EXCEPT ![n] = p] /\ run[n].stage = "idle"
        /\ UNCHANGED <<now, row, faults>>
    BY <1>2 DEF ReapRead
  <2> HIDE DEF p
  <2>3. n = s => SweeperBound(s, z)'
    <3> SUFFICES ASSUME n = s PROVE SweeperBound(s, z)'
      OBVIOUS
    <3>1. run'[s] = p /\ now <= z + TakeSpan
      BY <1>0, <1>s, <2>2 DEF SweeperBound
    <3> QED BY <1>0, <1>z, <2>1, <2>2, <3>1 DEF SweeperBound
  <2> QED BY <1>0, <2>1, <2>2, <2>3, AsideBound DEF z, Running
<1>i. ASSUME run' = [run EXCEPT ![n] = IdleRun], UNCHANGED <<now, row, faults>>,
             n = s => now <= z + TakeSpan
      PROVE  Bound(s, d)'
  <2>1. IdleRun.stage = "idle"
    BY DEF IdleRun
  <2>2. n = s => SweeperBound(s, z)'
    BY <1>0, <1>z, <1>i, <2>1 DEF SweeperBound
  <2> QED BY <1>0, <1>i, <2>1, <2>2, AsideBound DEF z, Running
<1>3. ASSUME SweepRead(n) PROVE Bound(s, d)'
  <2> DEFINE p == [run[n] EXCEPT !.stage = "claiming", !.since = now, !.reclaim = Reclaims]
  <2>1. /\ run[n].stage = "observed" /\ UNCHANGED <<now, row, faults>>
        /\ run' = [run EXCEPT ![n] = IF row.status = "complete" THEN IdleRun ELSE p]
    BY <1>3 DEF SweepRead
  <2>2. row.status # "complete"
    BY DEF Open, LeaseInv, RowBound
  <2>3. p.stage = "claiming" /\ p.since = now /\ p.seen = run[n].seen
    BY <1>0 DEF Run
  <2> HIDE DEF p
  <2>4. n = s => SweeperBound(s, z)'
    <3> SUFFICES ASSUME n = s PROVE SweeperBound(s, z)'
      OBVIOUS
    <3>1. run'[s] = p /\ now <= run[s].since + BatchLag /\ run[s].since <= now
      BY <1>0, <2>1, <2>2 DEF OnTime
    <3>2. run[s].since <= z \/ (Ready(s) /\ run[s].since <= z + TakeSpan)
      BY <1>s, <2>1 DEF SweeperBound
    <3>3. CASE run[s].since <= z
      <4>1. now <= z + BatchLag
        BY <1>0, <3>1, <3>3
      <4> QED BY <1>z, <2>1, <2>3, <3>1, <4>1 DEF SweeperBound
    <3>4. CASE Ready(s) /\ run[s].since <= z + TakeSpan
      <4>1. now <= z + TakeSpan + BatchLag
        BY <1>0, <3>1, <3>4
      <4>2. Ready(s)'
        <5>1. row.expiresAt \in Nat
          BY <1>0 DEF Row
        <5> QED BY <1>0, <2>1, <2>3, <3>1, <3>4, <5>1 DEF Ready
      <4> QED BY <1>z, <2>1, <2>3, <3>1, <4>1, <4>2 DEF SweeperBound
    <3> QED BY <3>2, <3>3, <3>4
  <2> QED BY <1>0, <2>1, <2>2, <2>3, <2>4, AsideBound DEF z, Running
<1>4. ASSUME SweepClaim(n), LoseClaim(n) PROVE Bound(s, d)'
  <2>1. /\ run[n].stage = "claiming" /\ UNCHANGED <<now, row, faults, eligible, claims>>
        /\ run' = [run EXCEPT ![n] = IdleRun]
    BY <1>4 DEF SweepClaim, LoseClaim
  <2>2. ASSUME n = s PROVE ~Ready(s)
    <3> SUFFICES ASSUME Ready(s) PROVE FALSE
      OBVIOUS
    <3>1. NewHolder(n, row.sweepAttempts + 1)
      BY <1>4, <2>2 DEF SweepClaim, Ready, Unchanged, Open
    <3>2. claims' = claims + 1 /\ claims \in Nat
      BY <3>1 DEF NewHolder, LeaseInv, BootstrapTypeOK
    <3> QED BY <2>1, <3>2
  <2>3. n = s => now <= z + TakeSpan
    <3> SUFFICES ASSUME n = s PROVE now <= z + TakeSpan
      OBVIOUS
    <3>1. run[s].since <= z + BatchLag /\ now <= run[s].since + DbLag
      BY <1>0, <1>s, <2>1, <2>2 DEF SweeperBound, OnTime
    <3> QED BY <1>0, <3>1
  <2> QED BY <1>i, <2>1, <2>3
<1>5. ASSUME ReapWrite(n), row' = row PROVE Bound(s, d)'
  <2>1. /\ run[n].stage = "reaping" /\ UNCHANGED <<now, faults>>
        /\ run' = [run EXCEPT ![n] = IdleRun]
    BY <1>5 DEF ReapWrite
  <2>2. ~StillAbandoned(run[n].seen)
    BY <1>0, <1>5 DEF ReapWrite, StillAbandoned, Row
  <2>3. n = s => now <= z + TakeSpan
    <3> SUFFICES ASSUME n = s PROVE now <= z + TakeSpan
      OBVIOUS
    <3>1. run[s].seen # row
      <4> SUFFICES ASSUME run[s].seen = row PROVE FALSE
        OBVIOUS
      <4>1. row.code # "retryable"
        BY <1>0, <2>1 DEF OnTime
      <4> QED BY <2>2, <4>1 DEF StillAbandoned, Open
    <3>2. run[s].since <= z /\ now <= run[s].since + DbLag
      BY <1>0, <1>s, <2>1, <3>1 DEF SweeperBound, OnTime
    <3> QED BY <1>0, <3>2
  <2> QED BY <1>5, <1>i, <2>1, <2>3
<1> QED BY <1>1, <1>2, <1>3, <1>4, <1>5

\* A claim by the sweep uses one unit of the budget; a fault is one more fault.
LEMMA SpendsRound ==
  ASSUME LeaseInv, NEW n \in Runner
  PROVE  /\ NewHolder(n, row.sweepAttempts + 1) /\ faults' = faults =>
              row'.sweepAttempts + faults' = row.sweepAttempts + faults + 1
         /\ Fault(n) =>
              /\ row'.sweepAttempts + faults' = row.sweepAttempts + faults + 1
              /\ UNCHANGED <<now, row, eligible>>
<1>1. row \in Row /\ row.sweepAttempts \in Nat /\ faults \in Nat
  BY DEF LeaseInv, BootstrapTypeOK, Row
<1>2. ASSUME NewHolder(n, row.sweepAttempts + 1), faults' = faults
      PROVE  row'.sweepAttempts + faults' = row.sweepAttempts + faults + 1
  <2>1. row'.sweepAttempts = row.sweepAttempts + 1
    BY <1>1, <1>2 DEF NewHolder, Row
  <2> QED BY <1>1, <1>2, <2>1
<1>3. ASSUME Fault(n)
      PROVE  /\ row'.sweepAttempts + faults' = row.sweepAttempts + faults + 1
             /\ UNCHANGED <<now, row, eligible>>
  <2>1. faults' = faults + 1 /\ UNCHANGED <<now, row, eligible>>
    BY <1>3 DEF Fault, HeartbeatError, StatementError, Crash
  <2> QED BY <1>1, <2>1
<1> QED BY <1>2, <1>3

\* The reaper ends what it marks: the sweep does not run it again.
LEMMA ReapCloses ==
  ASSUME LeaseInv, Timely, NEW n \in Sweeper, ReapWrite(n), row' # row
  PROVE  ~Open'
<1>1. n \in Runner /\ row \in Row /\ OnTime(n, run[n]) /\ run[n].stage = "reaping"
  BY DEF LeaseInv, BootstrapTypeOK, Runner, Timely, ReapWrite
<1>2. StillAbandoned(run[n].seen) /\ run[n].seen.code # "retryable"
  BY <1>1 DEF ReapWrite, OnTime
<1>3. row.code # "retryable"
  BY <1>2 DEF StillAbandoned
<1>4. row'.status = "failed" /\ row'.code # "retryable"
  BY <1>1, <1>2, <1>3 DEF ReapWrite, Row
<1> QED BY <1>4 DEF Open

\* An open row is overdue once its lease and the longest delay have passed.
LEMMA OpenIsOverdue ==
  ASSUME LeaseInv, Timely, NEW d \in Nat, \A i \in 1..SweepCap : SweepDelays[i] <= d,
         NEW s \in Sweeper, Bound(s, d), Open, Base(d) + DueSpan(d) <= now
  PROVE  SweepOverdue
<1>1. /\ WorkSpan \in Nat /\ Base(d) \in Nat /\ LockTtl \in Nat /\ SweepLag \in Nat
      /\ DueSpan(d) = WorkSpan + LockTtl + d + SweepLag + 1
  BY BoundType, LeaseAssumption DEF DueSpan
<1>2. /\ row \in Row /\ now \in Nat /\ row.checkedAt \in Nat /\ row.expiresAt \in Nat
      /\ row.sweepAttempts \in Nat
  BY DEF LeaseInv, BootstrapTypeOK, Row
<1>3. row.checkedAt <= Base(d) + WorkSpan /\ row.expiresAt <= Base(d) + WorkSpan + LockTtl
  BY DEF Bound
<1>4. row.expiresAt + SweepLag < now /\ row.expiresAt < now
  BY <1>1, <1>2, <1>3
<1>5. CASE row.code # "retryable"
  BY <1>4, <1>5 DEF Open, SweepOverdue, Abandoned
<1>6. CASE row.code = "retryable"
  <2>1. row.sweepAttempts < SweepCap /\ eligible
    BY <1>6 DEF Open
  <2>2. SweepCap \in Nat
    BY LeaseAssumption DEF SweepCap
  <2>3. /\ row.sweepAttempts + 1 \in 1..SweepCap
        /\ SweepDelays[row.sweepAttempts + 1] \in Nat
    BY <1>2, <2>1, <2>2, LeaseAssumption DEF SweepCap
  <2> DEFINE w == SweepDelays[row.sweepAttempts + 1]
  <2>4. w \in Nat /\ w <= d
    BY <2>3
  <2> HIDE DEF w
  <2>5. row.checkedAt + w + SweepLag <= now /\ row.checkedAt + w <= now
    BY <1>1, <1>2, <1>3, <2>4
  <2>6. row.status \in {"failed", "in_progress"}
    BY <1>2, <1>6 DEF Row, Timely, LeaseInv, RowBound
  <2>7. Candidate
    BY <1>4, <1>6, <2>1, <2>5, <2>6 DEF Candidate, w
  <2> QED BY <1>4, <2>5, <2>7 DEF SweepOverdue, w
<1> QED BY <1>5, <1>6

\* While the row is overdue the clock waits for an idle sweep; before, it has not come so far.
LEMMA TickBound ==
  ASSUME LeaseInv, Timely, NEW d \in Nat, \A i \in 1..SweepCap : SweepDelays[i] <= d,
         NEW s \in Sweeper, Bound(s, d), Open, Tick
  PROVE  Bound(s, d)'
<1> DEFINE z == Base(d) + DueSpan(d)
<1>1. now \in Nat /\ run \in [Runner -> Run] /\ s \in Runner
  BY DEF LeaseInv, BootstrapTypeOK, Runner
<1>2. z \in Nat /\ TakeSpan \in Nat
  <2>1. Base(d) \in Nat /\ DueSpan(d) \in Nat
    BY BoundType
  <2>2. TakeSpan \in Nat
    BY BoundType
  <2> QED BY <2>1, <2>2
<1>3. /\ now' = now + 1 /\ row' = row /\ faults' = faults
  BY DEF Tick
<1>4. Base(d)' = Base(d) /\ z' = z
  BY <1>3 DEF Base
<1>5. \A m \in Runner : /\ run'[m].stage = run[m].stage /\ run'[m].since = run[m].since
                        /\ run'[m].seen = run[m].seen /\ run'[m].claimedAt = run[m].claimedAt
  <2> SUFFICES ASSUME NEW m \in Runner
               PROVE  /\ run'[m].stage = run[m].stage /\ run'[m].since = run[m].since
                      /\ run'[m].seen = run[m].seen /\ run'[m].claimedAt = run[m].claimedAt
    OBVIOUS
  <2>1. \E b : run'[m] = [run[m] EXCEPT !.due = b]
    BY DEF Tick
  <2> QED BY <1>1, <2>1 DEF Run
<1>6. SweeperBound(s, z)
  BY DEF Bound
<1>7. run[s].stage = "idle" => now < z
  <2> SUFFICES ASSUME run[s].stage = "idle", ~(now < z) PROVE FALSE
    OBVIOUS
  <2>1. z <= now
    BY <1>1, <1>2
  <2>2. SweepOverdue
    BY <2>1, OpenIsOverdue
  <2> QED BY <2>2 DEF Tick, MayTick
<1> HIDE DEF z
<1>8. SweeperBound(s, z)'
  <2>1. run[s].stage = "idle" => now' <= z + TakeSpan
    BY <1>1, <1>2, <1>3, <1>7
  <2>2. Ready(s)' = Ready(s)
    BY <1>1, <1>3, <1>5 DEF Ready
  <2> QED BY <1>1, <1>3, <1>4, <1>5, <1>6, <2>1, <2>2 DEF SweeperBound
<1>9. \A m \in Runner : run'[m].stage \in Running => run'[m].claimedAt <= Base(d)
  BY <1>5 DEF Bound
<1> QED BY <1>3, <1>4, <1>8, <1>9 DEF Bound, z

\* Every step keeps the bound of an open setup.
LEMMA StepBound ==
  ASSUME LeaseInv, LeaseInv', Timely, Timely', NEW d \in Nat,
         \A i \in 1..SweepCap : SweepDelays[i] <= d,
         NEW s \in Sweeper, Open => Bound(s, d), [Next]_vars, Open'
  PROVE  Bound(s, d)'
<1>1. CASE (\E a \in Approver : ReadState(a) \/ Claim(a)) \/ ChangeEligible
  BY <1>1, ApprovalBound
<1>2. CASE \E n \in Runner : RunStep(n)
  BY <1>2, RunStepBound
<1>3. CASE \E n \in Sweeper : SweepObserve(n) \/ SweepRead(n) \/ ReapRead(n)
  <2>1. Open
    BY <1>3 DEF SweepObserve, SweepRead, ReapRead, Open
  <2> QED BY <1>3, <2>1, TurnBound
<1>4. CASE \E n \in Sweeper : SweepClaim(n)
  <2>1. PICK n \in Sweeper : SweepClaim(n)
    BY <1>4
  <2>2. n \in Runner /\ UNCHANGED <<now, eligible, faults>>
    BY <2>1 DEF SweepClaim, Runner
  <2>3. CASE LoseClaim(n)
    <3>1. Open
      BY <2>2, <2>3 DEF LoseClaim, Open
    <3> QED BY <2>1, <2>3, <3>1, TurnBound
  <2>4. CASE /\ NewHolder(n, row.sweepAttempts + 1)
             /\ Unchanged(run[n].seen) /\ row.code = "retryable" /\ eligible
    <3>1. row.sweepAttempts < SweepCap
      BY <2>1, <2>2, <2>4 DEF SweepClaim, Unchanged, LeaseInv, SeenBound
    <3>2. Open
      BY <2>4, <3>1 DEF Open
    <3> QED BY <2>2, <2>4, <3>2, SpendsRound, RoundStarts
  <2> QED BY <2>1, <2>3, <2>4 DEF SweepClaim
<1>5. CASE \E n \in Sweeper : ReapWrite(n)
  <2>1. PICK n \in Sweeper : ReapWrite(n)
    BY <1>5
  <2>2. row' = row
    BY <2>1, ReapCloses
  <2>3. Open
    BY <2>1, <2>2 DEF ReapWrite, Open
  <2> QED BY <2>1, <2>2, <2>3, TurnBound
<1>6. CASE \E n \in Runner : Fault(n)
  <2>1. PICK n \in Runner : Fault(n)
    BY <1>6
  <2>2. Open
    BY <2>1, SpendsRound DEF Open
  <2> QED BY <2>1, <2>2, SpendsRound, RoundStarts
<1>7. CASE Tick
  <2>1. Open
    BY <1>7 DEF Tick, Open
  <2> QED BY <1>7, <2>1, TickBound
<1>8. CASE UNCHANGED vars
  <2>1. Open
    BY <1>8 DEF vars, Open
  <2> QED BY <1>8, <2>1 DEF vars, Bound, Base, SweeperBound, Ready
<1> QED BY <1>1, <1>2, <1>3, <1>4, <1>5, <1>6, <1>7, <1>8
        DEF Next, ClaimStep, ReapStep, Runner

\* What an open setup has left of the claims and faults ends before the horizon.
LEMMA OpenEnds ==
  ASSUME LeaseInv, Timely, NEW d \in Nat, NEW s \in Sweeper, Bound(s, d)
  PROVE  now <= Horizon(d)
<1>1. /\ row.sweepAttempts \in Nat /\ faults \in Nat /\ now \in Nat
      /\ row.sweepAttempts + faults \in Nat
  BY DEF LeaseInv, BootstrapTypeOK, Row
<1>2. SweepCap \in Nat /\ MaxFaults \in Nat
  BY LeaseAssumption DEF SweepCap
<1>3. row.sweepAttempts <= SweepCap /\ faults <= MaxFaults
  BY DEF LeaseInv, SweepBudget, Timely
<1> DEFINE k == row.sweepAttempts + faults
<1>4. k + 1 \in Nat /\ SweepCap + MaxFaults + 1 \in Nat /\ k + 1 <= SweepCap + MaxFaults + 1
  BY <1>1, <1>2, <1>3
<1>5. k \in Nat /\ Base(d) = BaseAt(k, d)
  BY <1>1 DEF Base
<1> HIDE DEF k
<1>6. /\ BaseAt(k + 1, d) = BaseAt(k, d) + Round(d)
      /\ BaseAt(k + 1, d) <= Horizon(d) /\ Horizon(d) \in Nat /\ BaseAt(k + 1, d) \in Nat
  BY <1>4, <1>5, BaseMoves DEF Horizon
<1>7. now <= Base(d) + Round(d)
  BY RoundEnds
<1> QED BY <1>1, <1>5, <1>6, <1>7

-------------------------------------------------------------------------------
(* The bound holds from the start, and after the horizon nothing is open.     *)

\* The clock does not go back, and only a claim writes the budget.
LEMMA TimeGoesOn ==
  ASSUME LeaseInv, [Next]_vars
  PROVE  /\ now >= MaxTime => now' >= MaxTime
         /\ row'.sweepAttempts = row.sweepAttempts \/ row'.status = "in_progress"
<1>1. now \in Nat /\ row \in Row /\ MaxTime \in Nat
  BY LeaseAssumption DEF LeaseInv, BootstrapTypeOK
<1>2. CASE \E a \in Approver : ReadState(a)
  BY <1>1, <1>2 DEF ReadState
<1>3. CASE \E n \in Runner : ClaimStep(n)
  <2>1. now' = now
    BY <1>3 DEF ClaimStep, Claim, SweepObserve, SweepRead, SweepClaim
  <2>2. row' = row \/ \E n \in Runner, k \in Nat : NewHolder(n, k)
    <3>1. row.sweepAttempts + 1 \in Nat
      BY <1>1 DEF Row
    <3> QED BY <1>3, <3>1
            DEF ClaimStep, Claim, SweepObserve, SweepRead, SweepClaim, LoseClaim
  <2>3. row' = row \/ row'.status = "in_progress"
    BY <1>1, <2>2 DEF NewHolder, Row
  <2> QED BY <1>1, <2>1, <2>3
<1>4. CASE \E n \in Runner : RunStep(n)
  BY <1>1, <1>4, RunStepKeeps
<1>5. CASE \E n \in Runner : ReapStep(n)
  BY <1>1, <1>5 DEF ReapStep, ReapRead, ReapWrite, Row
<1>6. CASE \E n \in Runner : Fault(n)
  BY <1>1, <1>6, SpendsRound
<1>7. CASE ChangeEligible \/ UNCHANGED vars
  BY <1>1, <1>7 DEF ChangeEligible, vars
<1>8. CASE Tick
  <2>1. now' = now + 1 /\ row' = row
    BY <1>8 DEF Tick
  <2> QED BY <1>1, <2>1
<1> QED BY <1>2, <1>3, <1>4, <1>5, <1>6, <1>7, <1>8 DEF Next

\* Wherever a setup is open, its bound holds.
LEMMA OpenIsBounded ==
  ASSUME NEW s \in Sweeper, NEW d \in Nat, \A i \in 1..SweepCap : SweepDelays[i] <= d
  PROVE  Spec => [](LeaseInv /\ Timely /\ (Open => Bound(s, d)))
<1> DEFINE Inv == LeaseInv /\ Timely /\ (Open => Bound(s, d))
<1>1. Init => Inv
  <2>1. Init => ~Open
    BY DEF Init, AbsentRow, Open
  <2> QED BY <2>1, InitInv, TimelyInit
<1>2. Inv /\ [Next]_vars => Inv'
  <2> SUFFICES ASSUME Inv, [Next]_vars PROVE Inv'
    OBVIOUS
  <2>1. LeaseInv'
    BY StepInv
  <2>2. Timely'
    BY StepOnTime
  <2> QED BY <2>1, <2>2, StepBound
<1> QED BY <1>1, <1>2, PTL DEF Spec

\* An account's setup is over when the clock has passed the horizon, so a lease ends,
\* whatever the runs, crashes and instances of the service do: the row is settled, or waits
\* for an approval.
THEOREM LeasesEnd ==
  ASSUME NEW s \in Sweeper, NEW d \in Nat, \A i \in 1..SweepCap : SweepDelays[i] <= d,
         Horizon(d) < MaxTime
  PROVE  Spec /\ TimePasses => LeaseEnds
<1> DEFINE Inv == LeaseInv /\ Timely /\ (Open => Bound(s, d))
           Late == now >= MaxTime
           Over == \/ row.status # "in_progress"
                   \/ row.code = "retryable" /\ (row.sweepAttempts >= SweepCap \/ ~eligible)
<1>1. Spec => []Inv
  BY OpenIsBounded
<1>2. Inv /\ Late /\ [Next]_vars => Late'
  BY TimeGoesOn
<1>3. Inv /\ Late => Over
  <2> SUFFICES ASSUME Inv, Late PROVE Over
    OBVIOUS
  <2>1. ~Open
    <3> SUFFICES ASSUME Open PROVE FALSE
      OBVIOUS
    <3>1. now <= Horizon(d)
      BY OpenEnds
    <3>2. now \in Nat /\ MaxTime \in Nat /\ Horizon(d) \in Nat
      <4>1. SweepCap + MaxFaults + 1 \in Nat
        BY LeaseAssumption DEF SweepCap
      <4> QED BY <4>1, BaseMoves, LeaseAssumption DEF Horizon, LeaseInv, BootstrapTypeOK
    <3> QED BY <3>1, <3>2
  <2>2. row.sweepAttempts \in Nat /\ SweepCap \in Nat
    BY LeaseAssumption DEF LeaseInv, BootstrapTypeOK, Row, SweepCap
  <2> QED BY <2>1, <2>2 DEF Open
<1> QED BY <1>1, <1>2, <1>3, PTL DEF Spec, TimePasses, LeaseEnds

\* A failure the sweep may retry does not outlive the horizon either: it is claimed again,
\* or loses its eligibility.
THEOREM FailuresAreRetried ==
  ASSUME NEW s \in Sweeper, NEW d \in Nat, \A i \in 1..SweepCap : SweepDelays[i] <= d,
         Horizon(d) < MaxTime
  PROVE  Spec /\ TimePasses => FailureIsRetried
<1> DEFINE Inv == LeaseInv /\ Timely /\ (Open => Bound(s, d))
           Late == now >= MaxTime
           Waits == row.status = "failed" /\ row.code = "retryable" /\ row.sweepAttempts < SweepCap
           Tried == row.status # "failed" \/ row.code # "retryable" \/ ~eligible
<1>1. Spec => []Inv
  BY OpenIsBounded
<1>2. Inv /\ Late /\ [Next]_vars => Late'
  BY TimeGoesOn
<1>3. Inv /\ Waits /\ [Next]_vars => Waits' \/ Tried'
  BY TimeGoesOn
<1>4. Inv /\ Waits /\ Late => Tried
  <2> SUFFICES ASSUME Inv, Waits, Late, ~Tried PROVE FALSE
    OBVIOUS
  <2>1. now <= Horizon(d)
    BY OpenEnds DEF Open
  <2>2. now \in Nat /\ MaxTime \in Nat /\ Horizon(d) \in Nat
    <3>1. SweepCap + MaxFaults + 1 \in Nat
      BY LeaseAssumption DEF SweepCap
    <3> QED BY <3>1, BaseMoves, LeaseAssumption DEF Horizon, LeaseInv, BootstrapTypeOK
  <2> QED BY <2>1, <2>2
<1> QED BY <1>1, <1>2, <1>3, <1>4, PTL DEF Spec, TimePasses, FailureIsRetried
=============================================================================
