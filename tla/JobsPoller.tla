----------------------------- MODULE JobsPoller -----------------------------
(***************************************************************************)
(* The jobs table shared by several worker processes, each of them running *)
(* the drain loop of jobs-poller.ts once per sweep (default-worker-        *)
(* adapters.ts: the scheduler tick, which reaps, comes before the drain).  *)
(* A handler is any code that eventually returns or throws.                *)
(*                                                                         *)
(* A worker talks to the database in two steps wherever something can      *)
(* happen in between: claimJobs commits, and only later does the reply     *)
(* reach the process (Claim, then Start); a handler returns, and only      *)
(* later is the row updated (HandlerReturns, then Complete).               *)
(***************************************************************************)
EXTENDS JobQueue, FiniteSets

CONSTANTS
  Jobs,          \* rows that callers may insert
  Workers,       \* worker processes
  Users,         \* users a sync_pipeline job is keyed by
  SyncUser,      \* the user of each row, NoUser for the other job types
  NoUser,
  Unrunnable,    \* rows without a handler or with an invalid payload
  Concurrency,   \* jobs a worker claims at once
  Delays,        \* delays a caller or the retry policy may choose
  MaxOutages     \* bound: how often a worker process is stopped or dies

ASSUME PollerAssumption ==
  /\ SyncUser \in [Jobs -> Users \cup {NoUser}]
  /\ NoUser \notin Users
  /\ Unrunnable \subseteq Jobs
  /\ Concurrency \in Nat \ {0}
  /\ Delays \subseteq 0..MaxDelay
  /\ MaxOutages \in Nat
  /\ IsFiniteSet(Workers)

VARIABLES
  jobs,      \* the jobs table
  issued,    \* tokens drawn so far for each row
  caller,    \* progress of the enqueueJob call that may insert each row
  tasks,     \* tasks[w][j]: what worker w is doing with its claim on j
  mode,      \* "up", "stopping" (stop() was called) or "down"
  sweep,     \* part of its sweep the worker is in
  outages,   \* stops and deaths of worker processes so far
  runs,      \* handler executions started, per row
  returned   \* tokens under which the handler returned without an error

tableVars == <<jobs, issued, caller>>
workerVars == <<tasks, mode, sweep, outages>>
historyVars == <<runs, returned>>
vars == <<tableVars, workerVars, historyVars>>

\* Stages of one claim inside the process that made it.
InHandler == {"running", "completing", "retrying", "failing"}
Stage == {"none", "claimed", "releasing", "rejecting"} \cup InHandler

\* exhausted is the comparison of the claimed snapshot's attempts with its
\* maxAttempts; lost is lostLease of runOne.
Task == [at : Stage, token : Nat, exhausted : BOOLEAN, lost : BOOLEAN]
Idle == [at |-> "none", token |-> NoToken, exhausted |-> FALSE, lost |-> FALSE]

Callers == {"idle", "inserting", "conflicted", "inserted", "deduped", "error"}

TypeOK ==
  /\ jobs \in [Jobs -> Row]
  /\ issued \in [Jobs -> Nat]
  /\ caller \in [Jobs -> Callers]
  /\ tasks \in [Workers -> [Jobs -> Task]]
  /\ mode \in [Workers -> {"up", "stopping", "down"}]
  /\ sweep \in [Workers -> {"reap", "drain"}]
  /\ outages \in 0..MaxOutages
  /\ runs \in [Jobs -> Nat]
  /\ returned \in [Jobs -> SUBSET Nat]

Init ==
  /\ jobs = [j \in Jobs |-> AbsentRow]
  /\ issued = [j \in Jobs |-> NoToken]
  /\ caller = [j \in Jobs |-> "idle"]
  /\ tasks = [w \in Workers |-> [j \in Jobs |-> Idle]]
  /\ mode = [w \in Workers |-> "up"]
  /\ sweep = [w \in Workers |-> "reap"]
  /\ outages = 0
  /\ runs = [j \in Jobs |-> 0]
  /\ returned = [j \in Jobs |-> {}]
-----------------------------------------------------------------------------
(* enqueueJob: look for an active job of the user, INSERT .. ON CONFLICT DO *)
(* NOTHING, look again when the index refused the row.  READ COMMITTED:     *)
(* other transactions commit between the three statements.                  *)

ActiveSync(j) ==
  \E i \in Jobs \ {j} : /\ SyncUser[i] # NoUser
                        /\ SyncUser[i] = SyncUser[j]
                        /\ jobs[i].status \in Active

FindActive(j) ==
  /\ caller[j] = "idle"
  /\ SyncUser[j] # NoUser
  /\ caller' = [caller EXCEPT ![j] = IF ActiveSync(j) THEN "deduped" ELSE "inserting"]
  /\ UNCHANGED <<jobs, issued, workerVars, historyVars>>

\* Mutant: no unique index behind the lookup.
InsertUnchecked(j, d) ==
  /\ caller[j] = "inserting"
  /\ jobs' = [jobs EXCEPT ![j] = Enqueued(d)]
  /\ caller' = [caller EXCEPT ![j] = "inserted"]
  /\ UNCHANGED <<issued, workerVars, historyVars>>

Insert(j, d) ==
  /\ \/ caller[j] = "inserting"
     \/ caller[j] = "idle" /\ SyncUser[j] = NoUser
  /\ ~ActiveSync(j)
  /\ jobs' = [jobs EXCEPT ![j] = Enqueued(d)]
  /\ caller' = [caller EXCEPT ![j] = "inserted"]
  /\ UNCHANGED <<issued, workerVars, historyVars>>

InsertConflict(j) ==
  /\ caller[j] = "inserting"
  /\ ActiveSync(j)
  /\ caller' = [caller EXCEPT ![j] = "conflicted"]
  /\ UNCHANGED <<jobs, issued, workerVars, historyVars>>

FindAgain(j) ==
  /\ caller[j] = "conflicted"
  /\ caller' = [caller EXCEPT ![j] = IF ActiveSync(j) THEN "deduped" ELSE "error"]
  /\ UNCHANGED <<jobs, issued, workerVars, historyVars>>
-----------------------------------------------------------------------------
(* The sweep of one worker: reap, then drain until a claim comes back empty. *)

Busy(w) == {j \in Jobs : tasks[w][j].at # "none"}

Reap(w, ahead) ==
  /\ mode[w] = "up"
  /\ sweep[w] = "reap"
  /\ jobs' = [j \in Jobs |-> Reaped(jobs[j], ahead)]
  /\ sweep' = [sweep EXCEPT ![w] = "drain"]
  /\ UNCHANGED <<issued, caller, tasks, mode, outages, historyVars>>

\* The UPDATE failed or rolled back: the scheduler logs it and the sweep goes on.
ReapFault(w) ==
  /\ mode[w] = "up"
  /\ sweep[w] = "reap"
  /\ sweep' = [sweep EXCEPT ![w] = "drain"]
  /\ UNCHANGED <<tableVars, tasks, mode, outages, historyVars>>

\* FOR UPDATE SKIP LOCKED passes over rows another worker's statement holds.
Lockable(w) == UNION {Busy(v) : v \in Workers \ {w}}

\* The claim takes as many of the remaining rows as LIMIT allows.  They come in
\* the order of scheduled_for, which countdowns forget once a row is due, so
\* any choice is possible.
Batches(w, skipped) ==
  LET due == {j \in Jobs \ skipped : Claimable(jobs[j])}
  IN {S \in SUBSET due : /\ Cardinality(S) <= Concurrency
                         /\ Cardinality(S) < Concurrency => S = due}

\* The transaction of claimJobs commits.
Claim(w, S) ==
  /\ mode[w] = "up"
  /\ sweep[w] = "drain"
  /\ Busy(w) = {}
  /\ S # {}
  /\ issued' = [j \in Jobs |-> IF j \in S THEN issued[j] + 1 ELSE issued[j]]
  /\ jobs' = [j \in Jobs |-> IF j \in S THEN Claimed(jobs[j], issued'[j]) ELSE jobs[j]]
  /\ tasks' = [tasks EXCEPT ![w] = [j \in Jobs |->
                 IF j \in S
                 THEN [at |-> "claimed", token |-> issued'[j],
                       exhausted |-> Exhausted(jobs'[j]), lost |-> FALSE]
                 ELSE Idle]]
  /\ UNCHANGED <<caller, mode, sweep, outages, historyVars>>

\* The claim came back empty: the drain is over.
DrainEnds(w) ==
  /\ mode[w] = "up"
  /\ sweep[w] = "drain"
  /\ Busy(w) = {}
  /\ \E skipped \in SUBSET Lockable(w) : {} \in Batches(w, skipped)
  /\ sweep' = [sweep EXCEPT ![w] = "reap"]
  /\ UNCHANGED <<tableVars, tasks, mode, outages, historyVars>>

\* The claim fails before its commit: the drain logs the error and is over.
ClaimFault(w) ==
  /\ mode[w] = "up"
  /\ sweep[w] = "drain"
  /\ Busy(w) = {}
  /\ sweep' = [sweep EXCEPT ![w] = "reap"]
  /\ UNCHANGED <<tableVars, tasks, mode, outages, historyVars>>

Pending(w) == {j \in Jobs : tasks[w][j].at = "claimed"}

\* The reply of the claim arrives.  A worker told to stop meanwhile releases
\* what it claimed; otherwise runOne begins for each job.
Started(w, j) ==
  IF mode[w] = "stopping" THEN [tasks[w][j] EXCEPT !.at = "releasing"]
  ELSE [tasks[w][j] EXCEPT !.at = IF j \in Unrunnable THEN "rejecting" ELSE "running"]

Start(w) ==
  /\ mode[w] # "down"
  /\ Pending(w) # {}
  /\ tasks' = [tasks EXCEPT ![w] = [j \in Jobs |->
                 IF j \in Pending(w) THEN Started(w, j) ELSE tasks[w][j]]]
  /\ runs' = [j \in Jobs |-> IF j \in Pending(w) /\ Started(w, j).at = "running"
                             THEN runs[j] + 1 ELSE runs[j]]
  /\ UNCHANGED <<tableVars, mode, sweep, outages, returned>>

\* The reply is lost after the commit: the drain logs the error and ends, and
\* nobody in this process knows of the claims.
ClaimReplyLost(w) ==
  /\ mode[w] # "down"
  /\ Pending(w) # {}
  /\ tasks' = [tasks EXCEPT ![w] = [j \in Jobs |->
                 IF j \in Pending(w) THEN Idle ELSE tasks[w][j]]]
  /\ sweep' = [sweep EXCEPT ![w] = "reap"]
  /\ UNCHANGED <<tableVars, mode, outages, historyVars>>
-----------------------------------------------------------------------------
(* One claimed job inside its worker: runOne. *)

SetTask(w, j, t) == tasks' = [tasks EXCEPT ![w][j] = t]
AtStage(w, j, s) == mode[w] # "down" /\ tasks[w][j].at = s

\* Mutant: shutdown releases jobs whose handler has already run.
CaughtReleasing(w, j) ==
  IF mode[w] = "stopping" \/ tasks[w][j].lost
  THEN [tasks[w][j] EXCEPT !.at = "releasing"]
  ELSE [tasks[w][j] EXCEPT !.at = IF tasks[w][j].exhausted THEN "failing" ELSE "retrying"]

\* The catch clause: nothing is written once the lease is known to be lost or
\* the worker is stopping, and the last attempt fails instead of retrying.
Caught(w, j) ==
  LET t == tasks[w][j] IN
  IF t.lost \/ mode[w] = "stopping" THEN Idle
  ELSE [t EXCEPT !.at = IF t.exhausted THEN "failing" ELSE "retrying"]

HandlerReturns(w, j) ==
  /\ AtStage(w, j, "running")
  /\ returned' = [returned EXCEPT ![j] = @ \cup {tasks[w][j].token}]
  /\ SetTask(w, j, IF tasks[w][j].lost \/ mode[w] = "stopping" THEN Idle
                   ELSE [tasks[w][j] EXCEPT !.at = "completing"])
  /\ UNCHANGED <<tableVars, mode, sweep, outages, runs>>

HandlerThrows(w, j) ==
  /\ AtStage(w, j, "running")
  /\ SetTask(w, j, Caught(w, j))
  /\ UNCHANGED <<tableVars, mode, sweep, outages, historyVars>>

\* The heartbeat interval runs until the task is over, lost or stopped.
Beats(w, j) ==
  /\ mode[w] = "up"
  /\ tasks[w][j].at \in InHandler
  /\ j \notin Unrunnable
  /\ ~tasks[w][j].lost

HeartbeatTick(w, j) ==
  LET t == tasks[w][j].token IN
  /\ Beats(w, j)
  /\ jobs' = [jobs EXCEPT ![j] = Heartbeat(@, t)]
  /\ SetTask(w, j, [tasks[w][j] EXCEPT !.lost = ~Holds(jobs[j], t)])
  /\ UNCHANGED <<issued, caller, mode, sweep, outages, historyVars>>

\* An error of the heartbeat query also counts as a lost lease.
HeartbeatFault(w, j) ==
  /\ Beats(w, j)
  /\ SetTask(w, j, [tasks[w][j] EXCEPT !.lost = TRUE])
  /\ UNCHANGED <<tableVars, mode, sweep, outages, historyVars>>

\* The row's new value r is written and the task moves on to t.
Write(w, j, r, t) ==
  /\ jobs' = [jobs EXCEPT ![j] = r]
  /\ SetTask(w, j, t)
  /\ UNCHANGED <<issued, caller, mode, sweep, outages, historyVars>>

Token(w, j) == tasks[w][j].token

Complete(w, j) ==
  /\ AtStage(w, j, "completing")
  /\ Write(w, j, Completed(jobs[j], Token(w, j)), Idle)

Retry(w, j, d) ==
  /\ AtStage(w, j, "retrying")
  /\ Write(w, j, Retried(jobs[j], Token(w, j), d), Idle)

Fail(w, j) ==
  /\ AtStage(w, j, "failing")
  /\ Write(w, j, Failed(jobs[j], Token(w, j)), Idle)

\* MISSING_HANDLER and INVALID_PAYLOAD.
Reject(w, j) ==
  /\ AtStage(w, j, "rejecting")
  /\ Write(w, j, Failed(jobs[j], Token(w, j)), Idle)

Release(w, j, d) ==
  /\ AtStage(w, j, "releasing")
  /\ Write(w, j, Released(jobs[j], Token(w, j), d), Idle)

\* completeJob or the rejecting failJob throws, with the row updated (the
\* reply was lost) or not: both are inside the try, so the catch clause
\* decides what happens next.
WriteFaultInTry(w, j) ==
  /\ \/ AtStage(w, j, "completing") /\ jobs' \in {jobs, [jobs EXCEPT ![j] = Completed(@, Token(w, j))]}
     \/ AtStage(w, j, "rejecting") /\ jobs' \in {jobs, [jobs EXCEPT ![j] = Failed(@, Token(w, j))]}
  /\ SetTask(w, j, Caught(w, j))
  /\ UNCHANGED <<issued, caller, mode, sweep, outages, historyVars>>

\* retryJob or failJob throws inside the catch clause: runOne rejects, and with
\* it the Promise.all of the batch, so the drain ends although other tasks of
\* the batch may still run.
WriteFaultInCatch(w, j) ==
  /\ AtStage(w, j, "retrying") \/ AtStage(w, j, "failing")
  /\ SetTask(w, j, Idle)
  /\ sweep' = [sweep EXCEPT ![w] = "reap"]
  /\ UNCHANGED <<tableVars, mode, outages, historyVars>>

\* releaseJob throws: the error is logged and the lease left to expire.
ReleaseFault(w, j) ==
  /\ AtStage(w, j, "releasing")
  /\ SetTask(w, j, Idle)
  /\ UNCHANGED <<tableVars, mode, sweep, outages, historyVars>>
-----------------------------------------------------------------------------
(* Processes and time. *)

Stop(w) ==
  /\ mode[w] = "up"
  /\ outages < MaxOutages
  /\ mode' = [mode EXCEPT ![w] = "stopping"]
  /\ outages' = outages + 1
  /\ UNCHANGED <<tableVars, tasks, sweep, historyVars>>

\* The process is gone: it crashed, or its shutdown finished or ran into the
\* deadline.  Whatever it was doing is forgotten, its claims are not.
Die(w) ==
  /\ mode' = [mode EXCEPT ![w] = "down"]
  /\ tasks' = [tasks EXCEPT ![w] = [j \in Jobs |-> Idle]]
  /\ UNCHANGED <<tableVars, sweep, historyVars>>

Crash(w) ==
  /\ mode[w] = "up"
  /\ outages < MaxOutages
  /\ outages' = outages + 1
  /\ Die(w)

Exit(w) ==
  /\ mode[w] = "stopping"
  /\ UNCHANGED outages
  /\ Die(w)

Restart(w) ==
  /\ mode[w] = "down"
  /\ mode' = [mode EXCEPT ![w] = "up"]
  /\ sweep' = [sweep EXCEPT ![w] = "reap"]
  /\ UNCHANGED <<tableVars, tasks, outages, historyVars>>

Tick ==
  /\ jobs' = [j \in Jobs |-> Aged(jobs[j])]
  /\ jobs' # jobs
  /\ UNCHANGED <<issued, caller, workerVars, historyVars>>
-----------------------------------------------------------------------------
CallerNext == \E j \in Jobs : \/ FindActive(j)
                              \/ \E d \in Delays : Insert(j, d)
                              \/ InsertConflict(j)
                              \/ FindAgain(j)

SweepNext == \E w \in Workers :
  \/ \E ahead \in 0..Skew : Reap(w, ahead)
  \/ ReapFault(w)
  \/ \E skipped \in SUBSET Lockable(w) : \E S \in Batches(w, skipped) : Claim(w, S)
  \/ DrainEnds(w)
  \/ ClaimFault(w)
  \/ Start(w)
  \/ ClaimReplyLost(w)

TaskAction(w, j) ==
  \/ HandlerReturns(w, j)
  \/ HandlerThrows(w, j)
  \/ HeartbeatTick(w, j)
  \/ HeartbeatFault(w, j)
  \/ Complete(w, j)
  \/ \E d \in Delays : Retry(w, j, d)
  \/ Fail(w, j)
  \/ Reject(w, j)
  \/ \E d \in 0..Skew : Release(w, j, d)
  \/ WriteFaultInTry(w, j)
  \/ WriteFaultInCatch(w, j)
  \/ ReleaseFault(w, j)

TaskNext == \E w \in Workers, j \in Jobs : TaskAction(w, j)

ProcessNext == \E w \in Workers : Stop(w) \/ Crash(w) \/ Exit(w) \/ Restart(w)

Next == CallerNext \/ SweepNext \/ TaskNext \/ ProcessNext \/ Tick

Spec == Init /\ [][Next]_vars
-----------------------------------------------------------------------------
(* What the queue promises. *)

\* The token of a running row is the newest one drawn for it, and a row that is
\* not running has none: two workers never both pass the fence of one row.
NewestHolds ==
  \A j \in Jobs :
    /\ (jobs[j].status = "running") <=> (jobs[j].token # NoToken)
    /\ jobs[j].token \in {NoToken, issued[j]}
    /\ \A v, w \in Workers :
         /\ v # w
         /\ tasks[v][j].at # "none"
         /\ tasks[w][j].at # "none"
         => tasks[v][j].token # tasks[w][j].token

\* A row is completed only after the handler of its newest claim returned,
\* never by a worker whose claim was superseded (the ABA case of the
\* repository test "rejects stale completion").
CompletedByNewest ==
  \A j \in Jobs : jobs[j].status = "completed" => issued[j] \in returned[j]

\* releaseJob gives the attempt back, so it must only run for claims whose
\* handler never started; then handlers never start more than MaxAttempts
\* times, whatever crashes, expiries and shutdowns happen in between.
RunsWithinAttempts ==
  \A j \in Jobs : runs[j] <= jobs[j].attempts

\* One active sync_pipeline job per user, although callers look before they
\* insert (the partial unique index jobs_one_active_sync_per_user).
OneActiveSyncPerUser ==
  \A i, j \in Jobs :
    /\ SyncUser[i] = SyncUser[j]
    /\ SyncUser[i] # NoUser
    /\ jobs[i].status \in Active
    /\ jobs[j].status \in Active
    => i = j

\* A job is given up only when its attempts are used up or it cannot run.
FailedOnlyWhenExhausted ==
  \A j \in Jobs : jobs[j].status = "failed" => Exhausted(jobs[j]) \/ j \in Unrunnable

\* A task whose claim was superseded ends without touching the row, in every
\* order of completion, retry, failure, release and heartbeat.
StaleTasksAreHarmless ==
  [][\A w \in Workers, j \in Jobs :
       /\ tasks[w][j].at # "none"
       /\ tasks[w][j].token # jobs[j].token
       /\ tasks'[w][j] # tasks[w][j]
       => jobs'[j] = jobs[j]]_vars

\* Fairness.  Processes that are down come back, the statements a process has
\* decided on are issued, handlers end and time passes; reaping and claiming
\* may fail now and then but not for ever, and sweeps keep being triggered.
Fairness ==
  /\ WF_vars(Tick)
  /\ \A w \in Workers :
       /\ WF_vars(Restart(w))
       /\ WF_vars(Exit(w))
       /\ WF_vars(Start(w))
       /\ WF_vars(DrainEnds(w))
       /\ SF_vars(\E ahead \in 0..Skew : Reap(w, ahead))
       /\ SF_vars(\E skipped \in SUBSET Lockable(w) : \E S \in Batches(w, skipped) : Claim(w, S))
       /\ \A j \in Jobs :
            WF_vars(\/ HandlerReturns(w, j) \/ HandlerThrows(w, j)
                    \/ Complete(w, j) \/ Fail(w, j) \/ Reject(w, j)
                    \/ (\E d \in Delays : Retry(w, j, d))
                    \/ (\E d \in 0..Skew : Release(w, j, d))
                    \/ WriteFaultInTry(w, j) \/ WriteFaultInCatch(w, j) \/ ReleaseFault(w, j))

FairSpec == Spec /\ Fairness

\* Every job that was accepted is eventually completed or failed.
EveryJobSettles ==
  \A j \in Jobs : (jobs[j].status \in Active) ~> (jobs[j].status \in Settled)

\* The queue implements LeasedWork: a claim is a grant, a row is done when its
\* status is completed, and whatever a superseded worker does changes no grant.
Phase(r) == CASE r.status = "absent"    -> "none"
              [] r.status = "pending"   -> "waiting"
              [] r.status = "running"   -> "granted"
              [] r.status = "completed" -> "done"
              [] r.status = "failed"    -> "dead"

Contract == INSTANCE LeasedWork WITH
  Work <- Jobs, Limit <- MaxAttempts, Hopeless <- Unrunnable,
  phase <- [j \in Jobs |-> Phase(jobs[j])],
  grants <- issued, begun <- runs, succeeded <- returned

ImplementsLeasedWork == Contract!LeasedWorkSpec
=============================================================================
