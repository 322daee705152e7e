------------------------------ MODULE JobQueue ------------------------------
(***************************************************************************)
(* One row of the jobs table and the statements of jobs.repository.ts that *)
(* change it, as operators on a record.  Every UPDATE of that file is one  *)
(* statement guarded by id, status and lease_token, so it is one operator  *)
(* here; the modules that use them decide who runs it and when.            *)
(*                                                                         *)
(* Time is kept as countdowns: due is the number of ticks until            *)
(* scheduled_for, lease the number until lease_expires_at, and both stop   *)
(* at 0.  The code only asks whether those instants have passed            *)
(* (scheduled_for <= now(), lease_expires_at <= now()), which is due = 0   *)
(* and lease = 0, so nothing has to bound the clock.                       *)
(*                                                                         *)
(* A lease token is 32 random bytes and only ever compared with the token  *)
(* of the same row: it is the number of the claim that drew it, and 0 is   *)
(* NULL.                                                                   *)
(***************************************************************************)
EXTENDS Naturals

CONSTANTS
  MaxAttempts,   \* max_attempts of a row (DEFAULT_MAX_ATTEMPTS unless given)
  LeaseTicks,    \* leaseMs, in ticks
  MaxDelay,      \* longest delay before a row becomes due, in ticks
  Skew           \* ticks a worker's clock may be ahead of the database's

ASSUME QueueAssumption ==
  /\ MaxAttempts \in Nat \ {0}
  /\ LeaseTicks \in Nat \ {0}
  /\ MaxDelay \in Nat
  /\ Skew \in 0..MaxDelay

NoToken == 0
Statuses == {"absent", "pending", "running", "completed", "failed"}
Active == {"pending", "running"}
Settled == {"completed", "failed"}

Row == [status   : Statuses,
        attempts : 0..MaxAttempts,
        due      : 0..MaxDelay,
        token    : Nat,
        lease    : 0..LeaseTicks]

\* A row that is not claimed: every statement that ends a claim clears its
\* lease_token and lease_expires_at.
Unclaimed(s, n, d) == [status |-> s, attempts |-> n, due |-> d,
                       token |-> NoToken, lease |-> 0]

\* A row that no INSERT has created yet.
AbsentRow == Unclaimed("absent", 0, 0)

\* INSERT of enqueueJob, due in d ticks.
Enqueued(d) == Unclaimed("pending", 0, d)

Exhausted(r) == r.attempts >= MaxAttempts

\* Mutant: rows whose attempts are used up are claimed again.
ClaimableForEver(r) ==
  \/ r.status = "pending" /\ r.due = 0
  \/ r.status = "running" /\ r.lease = 0

\* WHERE clause of the SELECT in claimJobs.
Claimable(r) ==
  /\ \/ r.status = "pending" /\ r.due = 0
     \/ r.status = "running" /\ r.lease = 0
  /\ ~Exhausted(r)

\* Mutant: an expired row is claimed again without a new token.
ClaimedKeepingToken(r, t) ==
  [status |-> "running", attempts |-> r.attempts + 1, due |-> r.due,
   token |-> IF r.status = "running" THEN r.token ELSE t, lease |-> LeaseTicks]

\* UPDATE of claimJobs with the new token t.
Claimed(r, t) ==
  [status |-> "running", attempts |-> r.attempts + 1, due |-> r.due,
   token |-> t, lease |-> LeaseTicks]

\* Mutant: the fence compares the status only.
HoldsAnyClaim(r, t) == r.status = "running"

\* The fence every later statement of the claim carries in its WHERE clause.
Holds(r, t) == r.status = "running" /\ r.token = t

\* Mutants: the UPDATE of completeJob, and that of retryJob, without a fence.
CompletedUnfenced(r, t) ==
  IF r.status = "running" THEN Unclaimed("completed", r.attempts, r.due) ELSE r

RetriedUnfenced(r, t, d) ==
  Unclaimed(IF Exhausted(r) THEN "failed" ELSE "pending", r.attempts, d)

\* completeJob, retryJob, failJob, heartbeatJob and releaseJob leave the row
\* as it is when the fence does not hold (their UPDATE matches no row).
Completed(r, t) ==
  IF Holds(r, t) THEN Unclaimed("completed", r.attempts, r.due) ELSE r

Retried(r, t, d) ==
  IF Holds(r, t)
  THEN Unclaimed(IF Exhausted(r) THEN "failed" ELSE "pending", r.attempts, d)
  ELSE r

Failed(r, t) ==
  IF Holds(r, t) THEN Unclaimed("failed", r.attempts, r.due) ELSE r

Heartbeat(r, t) ==
  IF Holds(r, t) THEN [r EXCEPT !.lease = LeaseTicks] ELSE r

Released(r, t, d) ==
  IF Holds(r, t)
  THEN Unclaimed("pending", IF r.attempts > 0 THEN r.attempts - 1 ELSE 0, d)
  ELSE r

\* reapExpiredJobs compares lease_expires_at with the clock of the process
\* that runs it, ahead ticks before the database's, and makes the row due at
\* that instant.
Expired(r, ahead) == r.status = "running" /\ r.lease <= ahead

\* Mutants: the reaper gives up every expired row, or leaves the exhausted ones.
ReapedAsFailed(r, ahead) ==
  IF Expired(r, ahead) THEN Unclaimed("failed", r.attempts, r.due) ELSE r

ReapedUnlessExhausted(r, ahead) ==
  IF Expired(r, ahead) /\ ~Exhausted(r)
  THEN Unclaimed("pending", r.attempts, ahead)
  ELSE r

Reaped(r, ahead) ==
  IF ~Expired(r, ahead) THEN r
  ELSE IF Exhausted(r) THEN Unclaimed("failed", r.attempts, r.due)
  ELSE Unclaimed("pending", r.attempts, ahead)

\* One tick of the clock, as a row sees it.
Sooner(n) == IF n > 0 THEN n - 1 ELSE 0
Aged(r) == [status |-> r.status, attempts |-> r.attempts, due |-> Sooner(r.due),
            token |-> r.token, lease |-> Sooner(r.lease)]
=============================================================================
