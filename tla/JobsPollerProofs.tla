-------------------------- MODULE JobsPollerProofs --------------------------
(***************************************************************************)
(* TypeOK, NewestHolds, CompletedByNewest, OneActiveSyncPerUser,           *)
(* FailedOnlyWhenExhausted, RunsWithinAttempts and StaleTasksAreHarmless   *)
(* hold of every instance of JobsPoller, and it implements LeasedWork.     *)
(*                                                                         *)
(* First the types: a lemma per kind of record, then one proof step per    *)
(* action.  Then the invariant: all actions but Claim and Insert are       *)
(* quiet, they never give a row a new token and never start a task.  What  *)
(* a quiet step may do is said once, by QuietRow and QuietTask, and        *)
(* preserves the invariant.                                                *)
(***************************************************************************)
EXTENDS JobsPoller, FiniteSetTheorems, TLAPS

\* Every statement of jobs.repository.ts leaves a well-formed row: the attempts
\* stay within max_attempts (the guard of the claim), the delays within bounds.
LEMMA RowTyping ==
  ASSUME NEW r \in Row, NEW t \in Nat, NEW d \in 0..MaxDelay, NEW a \in 0..Skew
  PROVE  /\ Enqueued(d) \in Row
         /\ Claimable(r) => Claimed(r, t) \in Row
         /\ Completed(r, t) \in Row
         /\ Retried(r, t, d) \in Row
         /\ Failed(r, t) \in Row
         /\ Heartbeat(r, t) \in Row
         /\ Released(r, t, a) \in Row
         /\ Reaped(r, a) \in Row
         /\ Aged(r) \in Row
<1> USE QueueAssumption DEF Row, Statuses, NoToken
<1>1. Enqueued(d) \in Row
  BY DEF Enqueued, Unclaimed
<1>2. Claimable(r) => Claimed(r, t) \in Row
  BY DEF Claimable, Claimed, Exhausted
<1>3. Completed(r, t) \in Row
  BY DEF Completed, Holds, Unclaimed
<1>4. Retried(r, t, d) \in Row
  BY DEF Retried, Holds, Unclaimed, Exhausted
<1>5. Failed(r, t) \in Row
  BY DEF Failed, Holds, Unclaimed
<1>6. Heartbeat(r, t) \in Row
  BY DEF Heartbeat, Holds
<1>7. Released(r, t, a) \in Row
  BY DEF Released, Holds, Unclaimed
<1>8. Reaped(r, a) \in Row
  BY DEF Reaped, Expired, Unclaimed, Exhausted
<1>9. Aged(r) \in Row
  BY DEF Aged, Sooner
<1> QED BY <1>1, <1>2, <1>3, <1>4, <1>5, <1>6, <1>7, <1>8, <1>9

\* r and s are a row before and after a statement that draws no token.
QuietRow(r, s) ==
  /\ s.status = "running" =>
       r.status = "running" /\ s.token = r.token /\ s.attempts = r.attempts
  /\ s.status # "running" => s.token = NoToken
  /\ s.status \in Active => r.status \in Active

\* The statements that end or extend a claim are quiet on the row.
LEMMA RowsQuiet ==
  ASSUME NEW r \in Row, NEW t \in Nat, NEW d, NEW a,
         (r.status = "running") <=> (r.token # NoToken)
  PROVE  \A s \in {r, Completed(r, t), Retried(r, t, d), Failed(r, t), Heartbeat(r, t),
                   Released(r, t, a), Reaped(r, a), Aged(r)} : QuietRow(r, s)
<1> USE DEF QuietRow, Active
<1>1. QuietRow(r, r)
  OBVIOUS
<1>2. QuietRow(r, Completed(r, t)) /\ QuietRow(r, Failed(r, t))
  BY DEF Completed, Failed, Holds, Unclaimed
<1>3. QuietRow(r, Retried(r, t, d))
  BY DEF Retried, Holds, Unclaimed
<1>4. QuietRow(r, Heartbeat(r, t))
  BY DEF Heartbeat, Row
<1>5. QuietRow(r, Released(r, t, a))
  BY DEF Released, Holds, Unclaimed
<1>6. QuietRow(r, Reaped(r, a))
  BY DEF Reaped, Expired, Unclaimed
<1>7. QuietRow(r, Aged(r))
  BY DEF Aged
<1> QED BY <1>1, <1>2, <1>3, <1>4, <1>5, <1>6, <1>7

\* Rows that stay as they are, or only lose their claim to the reaper or time
\* to the clock, do not end in a way the invariant forbids.
LEMMA RowsEnd ==
  ASSUME NEW r \in Row, NEW t, NEW d, NEW a,
         NEW s \in {r, Retried(r, t, d), Heartbeat(r, t), Released(r, t, a), Reaped(r, a), Aged(r)}
  PROVE  /\ s.status = "completed" => r.status = "completed"
         /\ s.status = "failed" => \/ r.status = "failed" /\ s.attempts = r.attempts
                                   \/ Exhausted(s)
<1>1. CASE s = r
  BY <1>1
<1>2. CASE s = Retried(r, t, d)
  BY <1>2 DEF Retried, Unclaimed, Exhausted
<1>3. CASE s = Heartbeat(r, t)
  BY <1>3 DEF Heartbeat, Row
<1>4. CASE s = Released(r, t, a)
  BY <1>4 DEF Released, Unclaimed
<1>5. CASE s = Reaped(r, a)
  BY <1>5 DEF Reaped, Unclaimed, Exhausted
<1>6. CASE s = Aged(r)
  BY <1>6 DEF Aged
<1> QED BY <1>1, <1>2, <1>3, <1>4, <1>5, <1>6

-----------------------------------------------------------------------------
\* The empty table and the idle processes are well-formed.
LEMMA TypeInit == Init => TypeOK
BY QueueAssumption, PollerAssumption
   DEF Init, TypeOK, AbsentRow, Unclaimed, Row, Statuses, NoToken, Callers, Task, Idle, Stage

\* A claim inside a process stays well-formed whichever stage it moves to.
LEMMA TaskTyping ==
  ASSUME TypeOK, NEW w \in Workers, NEW j \in Jobs
  PROVE  /\ tasks[w][j] \in Task
         /\ jobs[j] \in Row
         /\ Idle \in Task
         /\ Caught(w, j) \in Task
<1>1. tasks[w][j] \in Task /\ jobs[j] \in Row
  BY DEF TypeOK
<1>2. Idle \in Task
  BY DEF Idle, Task, Stage, NoToken
<1>3. \A s \in Stage : [tasks[w][j] EXCEPT !.at = s] \in Task
  BY <1>1 DEF Task
<1>4. Caught(w, j) \in Task
  BY <1>2, <1>3 DEF Caught, Stage, InHandler
<1> QED BY <1>1, <1>2, <1>4

\* Type correctness is inductive: one step per action of Next.
LEMMA TypeNext ==
  ASSUME TypeOK, Next
  PROVE  TypeOK'
<1> USE QueueAssumption, PollerAssumption
<1>1. ASSUME NEW j \in Jobs, FindActive(j) PROVE TypeOK'
  BY <1>1 DEF FindActive, TypeOK, Callers, workerVars, historyVars
<1>2. ASSUME NEW j \in Jobs, NEW d \in Delays, Insert(j, d) PROVE TypeOK'
  <2>1. Enqueued(d) \in Row
    BY DEF Enqueued, Unclaimed, Row, Statuses, NoToken
  <2> QED BY <1>2, <2>1 DEF Insert, TypeOK, Callers, workerVars, historyVars
<1>3. ASSUME NEW j \in Jobs, InsertConflict(j) PROVE TypeOK'
  BY <1>3 DEF InsertConflict, TypeOK, Callers, workerVars, historyVars
<1>4. ASSUME NEW j \in Jobs, FindAgain(j) PROVE TypeOK'
  BY <1>4 DEF FindAgain, TypeOK, Callers, workerVars, historyVars
<1>5. ASSUME NEW w \in Workers, NEW a \in 0..Skew, Reap(w, a) PROVE TypeOK'
  <2>1. \A j \in Jobs : Reaped(jobs[j], a) \in Row
    BY TaskTyping, RowTyping DEF TypeOK
  <2> QED BY <1>5, <2>1 DEF Reap, TypeOK, historyVars
<1>6. ASSUME NEW w \in Workers,
             ReapFault(w) \/ DrainEnds(w) \/ ClaimFault(w) \/ Restart(w)
      PROVE  TypeOK'
  BY <1>6 DEF ReapFault, DrainEnds, ClaimFault, Restart, TypeOK, tableVars, historyVars
<1>6a. ASSUME NEW w \in Workers, Stop(w) PROVE TypeOK'
  BY <1>6a DEF Stop, TypeOK, tableVars, historyVars
<1>7. ASSUME NEW w \in Workers, NEW skipped \in SUBSET Lockable(w),
             NEW S \in Batches(w, skipped), Claim(w, S)
      PROVE  TypeOK'
  <2>1. issued' \in [Jobs -> Nat]
    BY <1>7 DEF Claim, TypeOK
  <2>2. jobs' \in [Jobs -> Row]
    <3>1. \A j \in Jobs : j \in S => Claimed(jobs[j], issued'[j]) \in Row
      <4> TAKE j \in Jobs
      <4>1. j \in S => Claimable(jobs[j])
        BY DEF Batches
      <4> QED BY <4>1, <2>1, RowTyping DEF TypeOK
    <3> QED BY <1>7, <3>1 DEF Claim, TypeOK
  <2>3. tasks' \in [Workers -> [Jobs -> Task]]
    <3>1. \A j \in Jobs : [at |-> "claimed", token |-> issued'[j],
                           exhausted |-> Exhausted(jobs'[j]), lost |-> FALSE] \in Task
      BY <2>1 DEF Task, Stage, Exhausted
    <3>2. Idle \in Task
      BY DEF Idle, Task, Stage, NoToken
    <3> QED BY <1>7, <3>1, <3>2 DEF Claim, TypeOK
  <2> QED BY <1>7, <2>1, <2>2, <2>3 DEF Claim, TypeOK, historyVars
<1>8. ASSUME NEW w \in Workers, Start(w) PROVE TypeOK'
  <2>1. \A j \in Jobs : tasks[w][j] \in Task /\ Started(w, j) \in Task
    <3>1. \A j \in Jobs : tasks[w][j] \in Task
      BY DEF TypeOK
    <3>2. \A j \in Jobs, s \in Stage : [tasks[w][j] EXCEPT !.at = s] \in Task
      BY <3>1 DEF Task
    <3> QED BY <3>1, <3>2 DEF Started, Stage, InHandler
  <2>2. tasks' \in [Workers -> [Jobs -> Task]]
    BY <1>8, <2>1 DEF Start, TypeOK
  <2>3. runs' \in [Jobs -> Nat]
    BY <1>8 DEF Start, TypeOK
  <2> QED BY <1>8, <2>2, <2>3 DEF Start, TypeOK, tableVars
<1>9. ASSUME NEW w \in Workers, ClaimReplyLost(w) PROVE TypeOK'
  <2>1. \A j \in Jobs : tasks[w][j] \in Task /\ Idle \in Task
    BY TaskTyping
  <2>2. tasks' \in [Workers -> [Jobs -> Task]]
    BY <1>9, <2>1 DEF ClaimReplyLost, TypeOK
  <2> QED BY <1>9, <2>2 DEF ClaimReplyLost, TypeOK, tableVars, historyVars
<1>9a. ASSUME NEW w \in Workers, Die(w), outages' \in 0..MaxOutages PROVE TypeOK'
  <2>1. Idle \in Task
    BY DEF Idle, Task, Stage, NoToken
  <2>2. tasks' \in [Workers -> [Jobs -> Task]]
    BY <1>9a, <2>1 DEF Die, TypeOK
  <2> QED BY <1>9a, <2>2 DEF Die, TypeOK, tableVars, historyVars
<1>9b. ASSUME NEW w \in Workers, Crash(w) \/ Exit(w) PROVE TypeOK'
  BY <1>9a, <1>9b DEF Crash, Exit, TypeOK
<1>10. ASSUME NEW w \in Workers, NEW j \in Jobs,
              NEW r \in Row, NEW u \in Task, Write(w, j, r, u)
       PROVE  TypeOK'
  BY <1>10 DEF Write, SetTask, TypeOK, historyVars
<1>11. ASSUME NEW w \in Workers, NEW j \in Jobs, TaskAction(w, j) PROVE TypeOK'
  <2>1. /\ tasks[w][j] \in Task
        /\ jobs[j] \in Row
        /\ Idle \in Task
        /\ Caught(w, j) \in Task
    BY TaskTyping
  <2>2. Token(w, j) \in Nat
    BY <2>1 DEF Token, Task
  <2>3. Delays \subseteq 0..MaxDelay /\ Skew \in 0..MaxDelay
    OBVIOUS
  <2>4. CASE HandlerReturns(w, j)
    <3>1. [tasks[w][j] EXCEPT !.at = "completing"] \in Task
      BY <2>1 DEF Task, Stage, InHandler
    <3>2. \E u \in Task : SetTask(w, j, u)
      BY <2>1, <2>4, <3>1 DEF HandlerReturns
    <3>3. returned' \in [Jobs -> SUBSET Nat]
      BY <2>2, <2>4 DEF HandlerReturns, TypeOK, Token
    <3>4. tasks' \in [Workers -> [Jobs -> Task]]
      BY <3>2 DEF SetTask, TypeOK
    <3> QED BY <2>4, <3>3, <3>4 DEF HandlerReturns, TypeOK, tableVars
  <2>5. CASE HandlerThrows(w, j)
    BY <2>1, <2>5 DEF HandlerThrows, SetTask, TypeOK, tableVars, historyVars
  <2>6. CASE HeartbeatTick(w, j)
    <3>1. [tasks[w][j] EXCEPT !.lost = ~Holds(jobs[j], tasks[w][j].token)] \in Task
      BY <2>1 DEF Task, Holds
    <3>2. Heartbeat(jobs[j], tasks[w][j].token) \in Row
      BY <2>1, <2>2, QueueAssumption DEF Heartbeat, Holds, Row, Token
    <3>3. jobs' \in [Jobs -> Row]
      BY <2>6, <3>2 DEF HeartbeatTick, TypeOK
    <3>4. \E u \in Task : SetTask(w, j, u)
      BY <2>6, <3>1 DEF HeartbeatTick
    <3>5. tasks' \in [Workers -> [Jobs -> Task]]
      BY <3>4 DEF SetTask, TypeOK
    <3> QED BY <2>6, <3>3, <3>5 DEF HeartbeatTick, TypeOK, historyVars
  <2>7. CASE HeartbeatFault(w, j)
    <3>1. [tasks[w][j] EXCEPT !.lost = TRUE] \in Task
      BY <2>1 DEF Task
    <3> QED BY <2>7, <3>1 DEF HeartbeatFault, SetTask, TypeOK, tableVars, historyVars
  <2>8. CASE Complete(w, j)
    <3>1. Completed(jobs[j], Token(w, j)) \in Row
      BY <2>1 DEF Completed, Unclaimed, Row, Statuses, NoToken
    <3> QED BY <1>10, <2>1, <2>8, <3>1 DEF Complete
  <2>9. CASE \E d \in Delays : Retry(w, j, d)
    <3>1. PICK d \in Delays : Retry(w, j, d)
      BY <2>9
    <3>2. Retried(jobs[j], Token(w, j), d) \in Row
      BY <2>1, <2>3 DEF Retried, Unclaimed, Row, Statuses, NoToken
    <3> QED BY <1>10, <2>1, <3>1, <3>2 DEF Retry
  <2>10. CASE Fail(w, j) \/ Reject(w, j)
    <3>1. Failed(jobs[j], Token(w, j)) \in Row
      BY <2>1 DEF Failed, Unclaimed, Row, Statuses, NoToken
    <3> QED BY <1>10, <2>1, <2>10, <3>1 DEF Fail, Reject
  <2>11. CASE \E d \in 0..Skew : Release(w, j, d)
    <3>1. PICK d \in 0..Skew : Release(w, j, d)
      BY <2>11
    <3>2. Released(jobs[j], Token(w, j), d) \in Row
      BY <2>1, <2>2, RowTyping
    <3> QED BY <1>10, <2>1, <3>1, <3>2 DEF Release
  <2>12. CASE WriteFaultInTry(w, j)
    <3>1. /\ Completed(jobs[j], Token(w, j)) \in Row
          /\ Failed(jobs[j], Token(w, j)) \in Row
      BY <2>1 DEF Completed, Failed, Unclaimed, Row, Statuses, NoToken
    <3>2. jobs' \in [Jobs -> Row]
      BY <2>12, <3>1 DEF WriteFaultInTry, TypeOK
    <3> QED BY <2>1, <2>12, <3>2 DEF WriteFaultInTry, SetTask, TypeOK, historyVars
  <2>13. CASE WriteFaultInCatch(w, j)
    BY <2>1, <2>13 DEF WriteFaultInCatch, SetTask, TypeOK, tableVars, historyVars
  <2>14. CASE ReleaseFault(w, j)
    BY <2>1, <2>14 DEF ReleaseFault, SetTask, TypeOK, tableVars, historyVars
  <2> QED BY <1>11, <2>4, <2>5, <2>6, <2>7, <2>8, <2>9, <2>10, <2>11, <2>12, <2>13, <2>14
          DEF TaskAction
<1>12. CASE Tick
  <2>1. \A j \in Jobs : Aged(jobs[j]) \in Row
    BY RowTyping DEF TypeOK
  <2> QED BY <1>12, <2>1 DEF Tick, TypeOK, workerVars, historyVars
<1> QED
  BY <1>1, <1>2, <1>3, <1>4, <1>5, <1>6, <1>6a, <1>7, <1>8, <1>9, <1>9b, <1>11, <1>12
     DEF Next, CallerNext, SweepNext, TaskNext, ProcessNext, TaskAction

\* Rows, claims and processes keep their shape for every number of jobs,
\* workers, attempts and outages; attempts never pass max_attempts.
THEOREM TypeCorrect == Spec => []TypeOK
<1>1. TypeOK /\ UNCHANGED vars => TypeOK'
  BY DEF TypeOK, vars, tableVars, workerVars, historyVars
<1> QED BY TypeInit, TypeNext, <1>1, PTL DEF Spec
-----------------------------------------------------------------------------
\* Tokens in the hands of tasks were drawn for their row.
TokensIssued ==
  \A w \in Workers, j \in Jobs :
    tasks[w][j].at # "none" => tasks[w][j].token \in 1..issued[j]

\* Each stage of a task remembers why it was entered, and its snapshot of
\* attempts is current as long as its claim is.
StagesJustified ==
  \A w \in Workers, j \in Jobs :
    /\ tasks[w][j].at = "completing" => tasks[w][j].token \in returned[j]
    /\ tasks[w][j].at = "failing" => tasks[w][j].exhausted
    /\ tasks[w][j].at = "rejecting" => j \in Unrunnable
    /\ /\ tasks[w][j].at # "none"
       /\ Holds(jobs[j], tasks[w][j].token)
       => (tasks[w][j].exhausted <=> Exhausted(jobs[j]))

IInv == /\ TypeOK
        /\ NewestHolds
        /\ TokensIssued
        /\ StagesJustified
        /\ CompletedByNewest
        /\ OneActiveSyncPerUser
        /\ FailedOnlyWhenExhausted

\* How a quiet step may end row j.
EndsRow(j) ==
  /\ jobs'[j].status = "completed" =>
       \/ jobs[j].status = "completed"
       \/ jobs[j].status = "running" /\ jobs[j].token \in returned[j]
  /\ jobs'[j].status = "failed" =>
       \/ jobs[j].status = "failed" /\ jobs'[j].attempts = jobs[j].attempts
       \/ Exhausted(jobs'[j])
       \/ j \in Unrunnable

QuietTask(w, j) ==
  tasks'[w][j].at # "none" =>
    /\ tasks[w][j].at # "none"
    /\ tasks'[w][j].token = tasks[w][j].token
    /\ tasks'[w][j].exhausted = tasks[w][j].exhausted
    /\ tasks'[w][j].at = "completing" => tasks[w][j].token \in returned'[j]
    /\ tasks'[w][j].at = "failing" => tasks[w][j].exhausted
    /\ tasks'[w][j].at = "rejecting" => j \in Unrunnable

Quiet ==
  /\ issued' = issued
  /\ \A j \in Jobs : /\ returned[j] \subseteq returned'[j]
                     /\ QuietRow(jobs[j], jobs'[j])
                     /\ EndsRow(j)
  /\ \A w \in Workers, j \in Jobs : QuietTask(w, j)

\* A quiet step preserves the invariant.
LEMMA QuietKeeps ==
  ASSUME IInv, TypeOK', Quiet
  PROVE  IInv'
<1> USE DEF IInv
<1>1. NewestHolds'
  <2>1. ASSUME NEW j \in Jobs
        PROVE  /\ (jobs'[j].status = "running") <=> (jobs'[j].token # NoToken)
               /\ jobs'[j].token \in {NoToken, issued'[j]}
    BY <2>1 DEF Quiet, QuietRow, NewestHolds
  <2>2. ASSUME NEW j \in Jobs, NEW v \in Workers, NEW w \in Workers, v # w,
               tasks'[v][j].at # "none", tasks'[w][j].at # "none"
        PROVE  tasks'[v][j].token # tasks'[w][j].token
    BY <2>2 DEF Quiet, QuietTask, NewestHolds
  <2> QED BY <2>1, <2>2 DEF NewestHolds
<1>2. TokensIssued'
  BY DEF Quiet, QuietTask, TokensIssued
<1>3. StagesJustified'
  <2> SUFFICES ASSUME NEW w \in Workers, NEW j \in Jobs, tasks'[w][j].at # "none"
               PROVE  /\ tasks'[w][j].at = "completing" => tasks'[w][j].token \in returned'[j]
                      /\ tasks'[w][j].at = "failing" => tasks'[w][j].exhausted
                      /\ tasks'[w][j].at = "rejecting" => j \in Unrunnable
                      /\ Holds(jobs'[j], tasks'[w][j].token)
                         => (tasks'[w][j].exhausted <=> Exhausted(jobs'[j]))
    BY DEF StagesJustified
  <2>1. QuietTask(w, j) /\ QuietRow(jobs[j], jobs'[j])
    BY DEF Quiet
  <2>2. Holds(jobs'[j], tasks'[w][j].token)
        => (tasks'[w][j].exhausted <=> Exhausted(jobs'[j]))
    BY <2>1 DEF QuietTask, QuietRow, StagesJustified, Holds, Exhausted
  <2> QED BY <2>1, <2>2 DEF QuietTask
<1>4. CompletedByNewest'
  <2> SUFFICES ASSUME NEW j \in Jobs, jobs'[j].status = "completed"
               PROVE  issued'[j] \in returned'[j]
    BY DEF CompletedByNewest
  <2> QED BY DEF Quiet, EndsRow, NewestHolds, CompletedByNewest
<1>5. OneActiveSyncPerUser'
  BY DEF Quiet, QuietRow, OneActiveSyncPerUser
<1>6. FailedOnlyWhenExhausted'
  BY DEF Quiet, EndsRow, FailedOnlyWhenExhausted, Exhausted
<1> QED BY <1>1, <1>2, <1>3, <1>4, <1>5, <1>6

\* The inductive invariant holds of the empty table.
LEMMA InitSafe == Init => IInv
<1> SUFFICES ASSUME Init PROVE IInv
  OBVIOUS
<1>1. TypeOK
  BY TypeInit
<1>2. /\ \A j \in Jobs : jobs[j] = AbsentRow /\ issued[j] = NoToken
      /\ \A w \in Workers, j \in Jobs : tasks[w][j].at = "none"
  BY DEF Init, Idle
<1>3. NewestHolds /\ CompletedByNewest /\ OneActiveSyncPerUser /\ FailedOnlyWhenExhausted
  BY <1>2 DEF NewestHolds, CompletedByNewest, OneActiveSyncPerUser, FailedOnlyWhenExhausted,
              AbsentRow, Unclaimed, Active
<1>4. TokensIssued /\ StagesJustified
  BY <1>2 DEF TokensIssued, StagesJustified
<1> QED BY <1>1, <1>3, <1>4 DEF IInv

\* Steps of the sweep and of processes: rows at most reaped or aged, tasks at
\* most forgotten or started.
LEMMA SweepQuiet ==
  ASSUME IInv, issued' = issued, returned' = returned,
         \/ jobs' = jobs
         \/ \E a \in 0..Skew : jobs' = [j \in Jobs |-> Reaped(jobs[j], a)]
         \/ jobs' = [j \in Jobs |-> Aged(jobs[j])],
         \/ tasks' = tasks
         \/ \E w \in Workers : ClaimReplyLost(w) \/ Die(w) \/ Start(w)
  PROVE  Quiet
<1>1. ASSUME NEW j \in Jobs PROVE QuietRow(jobs[j], jobs'[j]) /\ EndsRow(j)
  <2>1. jobs[j] \in Row /\ ((jobs[j].status = "running") <=> (jobs[j].token # NoToken))
    BY DEF IInv, TypeOK, NewestHolds
  <2>2. CASE jobs' = jobs
    BY <2>1, <2>2, RowsQuiet DEF EndsRow
  <2>3. CASE \E a \in 0..Skew : jobs' = [i \in Jobs |-> Reaped(jobs[i], a)]
    <3>1. PICK a \in 0..Skew : jobs'[j] = Reaped(jobs[j], a)
      BY <2>3
    <3> QED BY <2>1, <3>1, RowsQuiet, RowsEnd DEF EndsRow
  <2>4. CASE jobs' = [i \in Jobs |-> Aged(jobs[i])]
    BY <2>1, <2>4, RowsQuiet, RowsEnd DEF EndsRow
  <2> QED BY <2>2, <2>3, <2>4
<1>2. ASSUME NEW v \in Workers, NEW j \in Jobs PROVE QuietTask(v, j)
  <2>1. tasks[v][j] \in Task
    BY DEF IInv, TypeOK
  <2>2. CASE tasks' = tasks
    BY <2>2 DEF QuietTask, IInv, StagesJustified
  <2>3. ASSUME NEW w \in Workers, ClaimReplyLost(w) PROVE QuietTask(v, j)
    <3>1. tasks'[v][j] \in {Idle, tasks[v][j]}
      BY <2>3 DEF ClaimReplyLost, IInv, TypeOK
    <3> QED BY <3>1 DEF QuietTask, IInv, StagesJustified, Idle
  <2>4. ASSUME NEW w \in Workers, Die(w) PROVE QuietTask(v, j)
    <3>1. tasks'[v][j] \in {Idle, tasks[v][j]}
      BY <2>4 DEF Die, IInv, TypeOK
    <3> QED BY <3>1 DEF QuietTask, IInv, StagesJustified, Idle
  <2>5. ASSUME NEW w \in Workers, Start(w) PROVE QuietTask(v, j)
    <3>1. \/ tasks'[v][j] = tasks[v][j]
          \/ v = w /\ j \in Pending(w) /\ tasks'[v][j] = Started(v, j)
      BY <2>5 DEF Start, IInv, TypeOK
    <3>2. CASE tasks'[v][j] = tasks[v][j]
      BY <3>2 DEF QuietTask, IInv, StagesJustified
    <3>3. CASE j \in Pending(v) /\ tasks'[v][j] = Started(v, j)
      BY <2>1, <3>3 DEF QuietTask, Started, Pending, Task
    <3> QED BY <3>1, <3>2, <3>3
  <2> QED BY <2>2, <2>3, <2>4, <2>5
<1> QED BY <1>1, <1>2 DEF Quiet

\* A step of runOne changes the row and the task of one claim only.
LEMMA TaskQuiet ==
  ASSUME IInv, NEW w \in Workers, NEW j \in Jobs, TaskAction(w, j)
  PROVE  Quiet
<1> DEFINE r == jobs[j]
           t == tasks[w][j]
<1>1. /\ r \in Row
      /\ t \in Task
      /\ Token(w, j) = t.token
      /\ t.token \in Nat
      /\ (r.status = "running") <=> (r.token # NoToken)
  BY DEF IInv, TypeOK, NewestHolds, Token, Task
<1>2. \A s \in {r, Completed(r, t.token), Failed(r, t.token), Heartbeat(r, t.token)} : QuietRow(r, s)
  BY <1>1, RowsQuiet
<1>3. \A d : QuietRow(r, Retried(r, t.token, d)) /\ QuietRow(r, Released(r, t.token, d))
  BY <1>1, RowsQuiet
<1>4. ASSUME issued' = issued,
             \A i \in Jobs : returned[i] \subseteq returned'[i],
             \A i \in Jobs \ {j} : jobs'[i] = jobs[i],
             QuietRow(r, jobs'[j]),
             EndsRow(j),
             \A v \in Workers, i \in Jobs : tasks'[v][i] = tasks[v][i] \/ (v = w /\ i = j),
             QuietTask(w, j)
      PROVE  Quiet
  <2>1. ASSUME NEW i \in Jobs PROVE QuietRow(jobs[i], jobs'[i]) /\ EndsRow(i)
    <3>1. CASE i = j
      BY <1>4, <3>1
    <3>2. CASE i # j
      <4>1. jobs[i] \in Row /\ ((jobs[i].status = "running") <=> (jobs[i].token # NoToken))
        BY DEF IInv, TypeOK, NewestHolds
      <4> QED BY <1>4, <3>2, <4>1, RowsQuiet DEF EndsRow
    <3> QED BY <3>1, <3>2
  <2>2. ASSUME NEW v \in Workers, NEW i \in Jobs PROVE QuietTask(v, i)
    <3>1. CASE v = w /\ i = j
      BY <1>4, <3>1
    <3>2. CASE tasks'[v][i] = tasks[v][i]
      BY <1>4, <3>2 DEF QuietTask, IInv, StagesJustified
    <3> QED BY <1>4, <3>1, <3>2
  <2> QED BY <1>4, <2>1, <2>2 DEF Quiet
<1>5. ASSUME NEW u, SetTask(w, j, u)
      PROVE  /\ \A v \in Workers, i \in Jobs : tasks'[v][i] = tasks[v][i] \/ (v = w /\ i = j)
             /\ tasks'[w][j] = u
  BY <1>5 DEF SetTask, IInv, TypeOK
<1>6. ASSUME UNCHANGED jobs PROVE /\ \A i \in Jobs \ {j} : jobs'[i] = jobs[i]
                                  /\ QuietRow(r, jobs'[j])
                                  /\ EndsRow(j)
  BY <1>2, <1>6 DEF EndsRow
<1>7. ASSUME NEW s, jobs' = [jobs EXCEPT ![j] = s]
      PROVE  (\A i \in Jobs \ {j} : jobs'[i] = jobs[i]) /\ jobs'[j] = s
  BY <1>7 DEF IInv, TypeOK
<1>8. ASSUME tasks'[w][j] = Idle PROVE QuietTask(w, j)
  BY <1>8 DEF QuietTask, Idle
<1>9. ASSUME tasks'[w][j] = Caught(w, j), t.at # "none" PROVE QuietTask(w, j)
  <2>1. CASE Caught(w, j) = Idle
    BY <1>8, <1>9, <2>1
  <2>2. CASE t.exhausted /\ Caught(w, j) = [t EXCEPT !.at = "failing"]
    BY <1>1, <1>9, <2>2 DEF QuietTask, Task
  <2>3. CASE ~t.exhausted /\ Caught(w, j) = [t EXCEPT !.at = "retrying"]
    BY <1>1, <1>9, <2>3 DEF QuietTask, Task
  <2> QED BY <2>1, <2>2, <2>3 DEF Caught
<1>10. CASE HandlerReturns(w, j)
  <2>1. \A i \in Jobs : returned[i] \subseteq returned'[i]
    BY <1>10 DEF HandlerReturns, IInv, TypeOK
  <2>2. t.token \in returned'[j]
    BY <1>10 DEF HandlerReturns, IInv, TypeOK
  <2>3. t.at # "none"
    BY <1>10 DEF HandlerReturns, AtStage
  <2>4. tasks'[w][j] \in {Idle, [t EXCEPT !.at = "completing"]}
    BY <1>5, <1>10 DEF HandlerReturns
  <2>5. QuietTask(w, j)
    BY <1>1, <2>2, <2>3, <2>4 DEF QuietTask, Idle, Task
  <2> QED BY <1>4, <1>5, <1>6, <1>10, <2>1, <2>5 DEF HandlerReturns, tableVars
<1>11. CASE HandlerThrows(w, j)
  <2>1. t.at # "none" /\ UNCHANGED jobs /\ issued' = issued /\ returned' = returned
    BY <1>11 DEF HandlerThrows, AtStage, tableVars, historyVars
  <2> QED BY <1>4, <1>5, <1>6, <1>9, <1>11, <2>1 DEF HandlerThrows
<1>12. ASSUME NEW l \in BOOLEAN, tasks'[w][j] = [t EXCEPT !.lost = l], returned' = returned
       PROVE  QuietTask(w, j)
  <2>1. /\ tasks'[w][j].at = t.at
        /\ tasks'[w][j].token = t.token
        /\ tasks'[w][j].exhausted = t.exhausted
    BY <1>1, <1>12 DEF Task
  <2>2. StagesJustified
    BY DEF IInv
  <2> QED BY <1>12, <2>1, <2>2 DEF QuietTask, StagesJustified
<1>13. CASE HeartbeatTick(w, j)
  <2>1. jobs'[j] = Heartbeat(r, t.token) /\ (\A i \in Jobs \ {j} : jobs'[i] = jobs[i])
    BY <1>13 DEF HeartbeatTick, IInv, TypeOK
  <2>2. QuietRow(r, jobs'[j])
    BY <1>2, <2>1
  <2>3. EndsRow(j)
    BY <1>1, <2>1, RowsEnd DEF EndsRow
  <2>4. QuietTask(w, j)
    BY <1>5, <1>12, <1>13 DEF HeartbeatTick, Holds, historyVars
  <2> QED BY <1>4, <1>5, <1>13, <2>1, <2>2, <2>3, <2>4 DEF HeartbeatTick, historyVars
<1>14. CASE HeartbeatFault(w, j)
  <2>1. QuietTask(w, j)
    BY <1>5, <1>12, <1>14 DEF HeartbeatFault, historyVars
  <2> QED BY <1>4, <1>5, <1>6, <1>14, <2>1 DEF HeartbeatFault, tableVars, historyVars
<1>15. ASSUME NEW s, Write(w, j, s, Idle), QuietRow(r, s), jobs'[j] = s => EndsRow(j)
       PROVE  Quiet
  BY <1>4, <1>5, <1>7, <1>8, <1>15 DEF Write, historyVars
<1>16. ASSUME jobs'[j] = Completed(r, t.token), t.at = "completing" PROVE EndsRow(j)
  BY <1>1, <1>16 DEF EndsRow, Completed, Holds, Unclaimed, IInv, StagesJustified
<1>17. ASSUME jobs'[j] = Failed(r, t.token), t.at \in {"failing", "rejecting"} PROVE EndsRow(j)
  BY <1>1, <1>17 DEF EndsRow, Failed, Holds, Unclaimed, IInv, StagesJustified, Exhausted
<1>18. CASE Complete(w, j)
  BY <1>1, <1>2, <1>15, <1>16, <1>18 DEF Complete, AtStage
<1>19. CASE \E d \in Delays : Retry(w, j, d)
  <2>1. PICK d \in Delays : Retry(w, j, d)
    BY <1>19
  <2>2. jobs'[j] = Retried(r, t.token, d) => EndsRow(j)
    BY <1>1, RowsEnd DEF EndsRow
  <2> QED BY <1>1, <1>3, <1>15, <2>1, <2>2 DEF Retry
<1>20. CASE Fail(w, j) \/ Reject(w, j)
  BY <1>1, <1>2, <1>15, <1>17, <1>20 DEF Fail, Reject, AtStage
<1>21. CASE \E d \in 0..Skew : Release(w, j, d)
  <2>1. PICK d \in 0..Skew : Release(w, j, d)
    BY <1>21
  <2>2. jobs'[j] = Released(r, t.token, d) => EndsRow(j)
    BY <1>1, RowsEnd DEF EndsRow
  <2> QED BY <1>1, <1>3, <1>15, <2>1, <2>2 DEF Release
<1>22. CASE WriteFaultInTry(w, j)
  <2>1. /\ t.at \in {"completing", "rejecting"}
        /\ SetTask(w, j, Caught(w, j))
        /\ issued' = issued /\ returned' = returned
    BY <1>22 DEF WriteFaultInTry, AtStage, historyVars
  <2>2. \/ jobs' = jobs
        \/ t.at = "completing" /\ jobs' = [jobs EXCEPT ![j] = Completed(r, t.token)]
        \/ t.at = "rejecting" /\ jobs' = [jobs EXCEPT ![j] = Failed(r, t.token)]
    BY <1>1, <1>22 DEF WriteFaultInTry, AtStage
  <2>3. QuietTask(w, j)
    BY <1>5, <1>9, <2>1
  <2>4. (\A i \in Jobs \ {j} : jobs'[i] = jobs[i]) /\ QuietRow(r, jobs'[j]) /\ EndsRow(j)
    BY <1>2, <1>6, <1>7, <1>16, <1>17, <2>2
  <2> QED BY <1>4, <1>5, <2>1, <2>3, <2>4
<1>23. CASE WriteFaultInCatch(w, j)
  BY <1>4, <1>5, <1>6, <1>8, <1>23 DEF WriteFaultInCatch, tableVars, historyVars
<1>24. CASE ReleaseFault(w, j)
  BY <1>4, <1>5, <1>6, <1>8, <1>24 DEF ReleaseFault, tableVars, historyVars
<1> QED BY <1>10, <1>11, <1>13, <1>14, <1>18, <1>19, <1>20, <1>21, <1>22, <1>23, <1>24
        DEF TaskAction

\* A claim draws a token above every token in use and writes it to the row.
LEMMA ClaimSafe ==
  ASSUME IInv, TypeOK', NEW w \in Workers, NEW skipped \in SUBSET Lockable(w),
         NEW S \in Batches(w, skipped), Claim(w, S)
  PROVE  IInv'
<1> USE DEF IInv
<1>1. S \subseteq Jobs /\ \A j \in S : Claimable(jobs[j])
  BY DEF Batches
<1>2. UNCHANGED historyVars
  BY DEF Claim
<1>3. ASSUME NEW j \in Jobs \ S PROVE issued'[j] = issued[j] /\ jobs'[j] = jobs[j]
  BY <1>3 DEF Claim
<1>4. ASSUME NEW j \in S
      PROVE  /\ issued'[j] = issued[j] + 1
             /\ issued[j] \in Nat
             /\ jobs'[j].status = "running"
             /\ jobs'[j].token = issued[j] + 1
  BY <1>1, <1>4 DEF Claim, Claimed, TypeOK
<1>5. ASSUME NEW j \in Jobs PROVE tasks[w][j].at = "none"
  BY DEF Claim, Busy
<1>6. ASSUME NEW v \in Workers, NEW j \in Jobs
      PROVE  \/ tasks'[v][j] = tasks[v][j] /\ (v # w \/ tasks'[v][j].at = "none")
             \/ tasks'[v][j].at = "none"
             \/ /\ v = w
                /\ j \in S
                /\ tasks'[v][j].at = "claimed"
                /\ tasks'[v][j].token = issued'[j]
                /\ tasks'[v][j].exhausted = Exhausted(jobs'[j])
  BY DEF Claim, TypeOK, Idle
<1>7. NewestHolds'
  <2>1. ASSUME NEW j \in Jobs
        PROVE  /\ (jobs'[j].status = "running") <=> (jobs'[j].token # NoToken)
               /\ jobs'[j].token \in {NoToken, issued'[j]}
    <3>1. CASE j \in S
      BY <1>4, <3>1 DEF NoToken
    <3>2. CASE j \notin S
      BY <1>3, <3>2 DEF NewestHolds
    <3> QED BY <3>1, <3>2
  <2>2. ASSUME NEW j \in Jobs, NEW u \in Workers, NEW v \in Workers, u # v,
               tasks'[u][j].at # "none", tasks'[v][j].at # "none"
        PROVE  tasks'[u][j].token # tasks'[v][j].token
    <3>1. CASE u # w /\ v # w
      BY <1>6, <2>2, <3>1 DEF NewestHolds
    <3>2. ASSUME NEW x \in Workers, x # w, tasks'[x][j].at # "none", j \in S
          PROVE  tasks'[x][j].token < issued'[j]
      <4>1. tasks'[x][j] = tasks[x][j]
        BY <1>6, <3>2
      <4>2. tasks[x][j].token \in 1..issued[j]
        BY <3>2, <4>1 DEF TokensIssued
      <4> QED BY <1>4, <3>2, <4>1, <4>2
    <3>3. CASE u = w
      <4>1. j \in S /\ tasks'[u][j].token = issued'[j]
        BY <1>5, <1>6, <2>2, <3>3
      <4> QED BY <1>4, <2>2, <3>2, <3>3, <4>1
    <3>4. CASE v = w
      <4>1. j \in S /\ tasks'[v][j].token = issued'[j]
        BY <1>5, <1>6, <2>2, <3>4
      <4> QED BY <1>4, <2>2, <3>2, <3>4, <4>1
    <3> QED BY <3>1, <3>3, <3>4
  <2> QED BY <2>1, <2>2 DEF NewestHolds
<1>8. TokensIssued'
  <2> SUFFICES ASSUME NEW v \in Workers, NEW j \in Jobs, tasks'[v][j].at # "none"
               PROVE  tasks'[v][j].token \in 1..issued'[j]
    BY DEF TokensIssued
  <2>1. CASE tasks'[v][j] = tasks[v][j]
    <3>1. issued'[j] \in {issued[j], issued[j] + 1} /\ issued[j] \in Nat
      BY <1>3, <1>4 DEF TypeOK
    <3> QED BY <2>1, <3>1 DEF TokensIssued
  <2>2. CASE j \in S /\ tasks'[v][j].token = issued'[j]
    BY <1>4, <2>2
  <2> QED BY <1>6, <2>1, <2>2
<1>9. StagesJustified'
  <2> SUFFICES ASSUME NEW v \in Workers, NEW j \in Jobs, tasks'[v][j].at # "none"
               PROVE  /\ tasks'[v][j].at = "completing" => tasks'[v][j].token \in returned'[j]
                      /\ tasks'[v][j].at = "failing" => tasks'[v][j].exhausted
                      /\ tasks'[v][j].at = "rejecting" => j \in Unrunnable
                      /\ Holds(jobs'[j], tasks'[v][j].token)
                         => (tasks'[v][j].exhausted <=> Exhausted(jobs'[j]))
    BY DEF StagesJustified
  <2>1. CASE tasks'[v][j] = tasks[v][j]
    <3>1. CASE j \in S
      <4>1. tasks[v][j].token \in 1..issued[j]
        BY <2>1 DEF TokensIssued
      <4>2. ~Holds(jobs'[j], tasks'[v][j].token)
        BY <1>4, <2>1, <3>1, <4>1 DEF Holds
      <4> QED BY <1>2, <2>1, <4>2 DEF StagesJustified, historyVars
    <3>2. CASE j \notin S
      BY <1>2, <1>3, <2>1, <3>2 DEF StagesJustified, historyVars
    <3> QED BY <3>1, <3>2
  <2>2. CASE tasks'[v][j].at = "claimed" /\ tasks'[v][j].exhausted = Exhausted(jobs'[j])
    BY <2>2
  <2> QED BY <1>6, <2>1, <2>2
<1>10. CompletedByNewest'
  BY <1>2, <1>3, <1>4 DEF CompletedByNewest, historyVars
<1>11. \A j \in Jobs : jobs'[j].status \in Active => jobs[j].status \in Active
  BY <1>1, <1>3 DEF Claimable, Active
<1>12. OneActiveSyncPerUser'
  BY <1>11 DEF OneActiveSyncPerUser
<1>13. FailedOnlyWhenExhausted'
  BY <1>3, <1>4 DEF FailedOnlyWhenExhausted
<1> QED BY <1>7, <1>8, <1>9, <1>10, <1>12, <1>13

\* An accepted request adds a pending row, and only where its user has no other
\* active one: the index refuses what the lookup did not see.
LEMMA InsertSafe ==
  ASSUME IInv, TypeOK', NEW k \in Jobs, NEW d \in Delays, Insert(k, d)
  PROVE  IInv'
<1> USE DEF IInv
<1>1. /\ \A j \in Jobs \ {k} : jobs'[j] = jobs[j]
      /\ jobs'[k].status = "pending"
      /\ jobs'[k].token = NoToken
  BY DEF Insert, TypeOK, Enqueued, Unclaimed
<1>2. UNCHANGED <<issued, tasks, returned>>
  BY DEF Insert, workerVars, historyVars
<1>3. NewestHolds'
  BY <1>1, <1>2 DEF NewestHolds
<1>4. TokensIssued'
  BY <1>2 DEF TokensIssued
<1>5. \A w \in Workers, j \in Jobs :
        Holds(jobs'[j], tasks[w][j].token) => jobs'[j] = jobs[j]
  BY <1>1 DEF Holds
<1>6. StagesJustified'
  BY <1>2, <1>5 DEF StagesJustified
<1>7. CompletedByNewest'
  BY <1>1, <1>2 DEF CompletedByNewest
<1>8. ~ActiveSync(k)
  BY DEF Insert
<1>9. OneActiveSyncPerUser'
  <2> SUFFICES ASSUME NEW i \in Jobs, NEW j \in Jobs, SyncUser[i] = SyncUser[j],
                      SyncUser[i] # NoUser, jobs'[i].status \in Active,
                      jobs'[j].status \in Active
               PROVE  i = j
    BY DEF OneActiveSyncPerUser
  <2>1. CASE i # k /\ j # k
    BY <1>1, <2>1 DEF OneActiveSyncPerUser
  <2>2. CASE i = k \/ j = k
    BY <1>1, <1>8, <2>2 DEF ActiveSync
  <2> QED BY <2>1, <2>2
<1>10. FailedOnlyWhenExhausted'
  BY <1>1 DEF FailedOnlyWhenExhausted
<1> QED BY <1>3, <1>4, <1>6, <1>7, <1>9, <1>10

\* The inductive invariant is preserved: claims and inserts by their own
\* lemmas, every other action because it is quiet.
LEMMA NextSafe ==
  ASSUME IInv, Next
  PROVE  IInv'
<1>1. TypeOK'
  BY TypeNext DEF IInv
<1>2. ASSUME UNCHANGED <<jobs, issued, tasks, returned>> PROVE Quiet
  BY <1>2, SweepQuiet
<1>3. CASE CallerNext
  <2>1. ASSUME NEW j \in Jobs, FindActive(j) \/ InsertConflict(j) \/ FindAgain(j)
        PROVE  Quiet
    BY <1>2, <2>1 DEF FindActive, InsertConflict, FindAgain, workerVars, historyVars
  <2> QED BY <1>1, <1>3, <2>1, QuietKeeps, InsertSafe DEF CallerNext
<1>4. CASE SweepNext
  <2>1. ASSUME NEW w \in Workers, NEW a \in 0..Skew, Reap(w, a) PROVE Quiet
    BY <2>1, SweepQuiet DEF Reap, historyVars
  <2>2. ASSUME NEW w \in Workers, ReapFault(w) \/ DrainEnds(w) \/ ClaimFault(w)
        PROVE  Quiet
    BY <1>2, <2>2 DEF ReapFault, DrainEnds, ClaimFault, tableVars, historyVars
  <2>3. ASSUME NEW w \in Workers, Start(w) \/ ClaimReplyLost(w) PROVE Quiet
    <3>1. UNCHANGED <<jobs, issued, returned>>
      BY <2>3 DEF Start, ClaimReplyLost, tableVars, historyVars
    <3> QED BY <2>3, <3>1, SweepQuiet
  <2> QED BY <1>1, <1>4, <2>1, <2>2, <2>3, QuietKeeps, ClaimSafe DEF SweepNext
<1>5. CASE TaskNext
  BY <1>1, <1>5, TaskQuiet, QuietKeeps DEF TaskNext
<1>6. CASE ProcessNext
  <2>1. ASSUME NEW w \in Workers, Stop(w) \/ Restart(w) PROVE Quiet
    BY <1>2, <2>1 DEF Stop, Restart, tableVars, historyVars
  <2>2. ASSUME NEW w \in Workers, Die(w) PROVE Quiet
    <3>1. UNCHANGED <<jobs, issued, returned>>
      BY <2>2 DEF Die, tableVars, historyVars
    <3> QED BY <2>2, <3>1, SweepQuiet
  <2> QED BY <1>1, <1>6, <2>1, <2>2, QuietKeeps DEF ProcessNext, Crash, Exit
<1>7. CASE Tick
  <2>1. Quiet
    BY <1>7, SweepQuiet DEF Tick, workerVars, historyVars
  <2> QED BY <1>1, <2>1, QuietKeeps
<1> QED BY <1>3, <1>4, <1>5, <1>6, <1>7 DEF Next

\* The inductive invariant holds throughout every behaviour.
LEMMA Safe == Spec => []IInv
<1>1. ASSUME IInv, UNCHANGED vars PROVE IInv'
  BY <1>1 DEF IInv, TypeOK, NewestHolds, TokensIssued, StagesJustified, CompletedByNewest,
              OneActiveSyncPerUser, FailedOnlyWhenExhausted, vars, tableVars, workerVars,
              historyVars
<1> QED BY InitSafe, NextSafe, <1>1, PTL DEF Spec

\* A running row carries the newest token drawn for it and no two workers hold
\* the same one, for any number of workers, rows, attempts and outages.
THEOREM NewestClaimHolds == Spec => []NewestHolds
BY Safe, PTL DEF IInv

\* completeJob only ever succeeds for the claim whose handler returned last.
THEOREM OnlyNewestCompletes == Spec => []CompletedByNewest
BY Safe, PTL DEF IInv

\* Whatever callers race, a user has one active sync_pipeline job.
THEOREM OneActiveSync == Spec => []OneActiveSyncPerUser
BY Safe, PTL DEF IInv

\* No retry, release, reaping or race of snapshots gives a job up early.
THEOREM NoEarlyFailure == Spec => []FailedOnlyWhenExhausted
BY Safe, PTL DEF IInv

-----------------------------------------------------------------------------
(* RunsWithinAttempts, StaleTasksAreHarmless and the refinement of         *)
(* LeasedWork.  releaseJob gives an attempt back, so attempts alone do not *)
(* bound the executions: the invariant also counts the claims whose        *)
(* handler has not started, because each of them may still turn into an    *)
(* execution or give its attempt back, but never both.                     *)

\* Workers whose claim on j has an attempt that no handler execution used.
Unstarted(j) == {w \in Workers : tasks[w][j].at \in {"claimed", "releasing"}}

AttemptsCovered ==
  \A j \in Jobs : runs[j] + Cardinality(Unstarted(j)) <= jobs[j].attempts

\* No row before its INSERT, and never more attempts than claims.
Uninserted ==
  \A j \in Jobs :
    /\ caller[j] # "inserted" =>
         /\ jobs[j].status = "absent"
         /\ issued[j] = 0
         /\ runs[j] = 0
    /\ jobs[j].attempts <= issued[j]

CInv == IInv /\ Uninserted /\ AttemptsCovered

\* What one step may do to the account of row j.
Accounted(j) ==
  \/ /\ runs'[j] = runs[j]
     /\ issued'[j] = issued[j]
     /\ jobs'[j].attempts = jobs[j].attempts
     /\ Unstarted(j)' \subseteq Unstarted(j)
  \/ \E w \in Unstarted(j) :
       /\ Unstarted(j)' \subseteq Unstarted(j) \ {w}
       /\ issued'[j] = issued[j]
       /\ \/ runs'[j] = runs[j] + 1 /\ jobs'[j].attempts = jobs[j].attempts
          \/ runs'[j] = runs[j] /\ jobs'[j].attempts \in {jobs[j].attempts, jobs[j].attempts - 1}
  \/ \E w \in Workers :
       /\ Unstarted(j)' \subseteq Unstarted(j) \cup {w}
       /\ runs'[j] = runs[j]
       /\ issued'[j] = issued[j] + 1
       /\ jobs'[j].attempts = jobs[j].attempts + 1

\* The workers with an unstarted claim on a row can be counted.
LEMMA CountingUnstarted ==
  ASSUME NEW j \in Jobs
  PROVE  /\ IsFiniteSet(Unstarted(j))
         /\ Cardinality(Unstarted(j)) \in Nat
<1>1. Unstarted(j) \in SUBSET Workers
  BY DEF Unstarted
<1>2. IsFiniteSet(Unstarted(j))
  BY <1>1, FS_Subset, PollerAssumption
<1> QED BY <1>2, FS_CardinalityType

\* An accounted step keeps the executions and the open claims within attempts.
LEMMA AccountedKeeps ==
  ASSUME CInv, TypeOK', NEW j \in Jobs, Accounted(j)
  PROVE  runs'[j] + Cardinality(Unstarted(j)') <= jobs'[j].attempts
<1> DEFINE U == Unstarted(j)
           V == Unstarted(j)'
<1>1. IsFiniteSet(U) /\ Cardinality(U) \in Nat
  BY CountingUnstarted
<1>2. V \in SUBSET Workers
  BY DEF Unstarted
<1>3. IsFiniteSet(V)
  BY <1>2, FS_Subset, PollerAssumption
<1>4. Cardinality(V) \in Nat
  BY <1>3, FS_CardinalityType
<1>5. /\ runs[j] \in Nat /\ runs'[j] \in Nat
      /\ jobs[j].attempts \in Nat /\ jobs'[j].attempts \in Nat
      /\ runs[j] + Cardinality(U) <= jobs[j].attempts
  BY QueueAssumption DEF CInv, IInv, TypeOK, AttemptsCovered, Row
<1>6. CASE V \subseteq U /\ runs'[j] = runs[j] /\ jobs'[j].attempts = jobs[j].attempts
  <2>1. Cardinality(V) <= Cardinality(U)
    BY <1>1, <1>6, FS_Subset
  <2> QED BY <1>1, <1>4, <1>5, <1>6, <2>1
<1>7. ASSUME NEW w \in U, V \subseteq U \ {w},
             \/ runs'[j] = runs[j] + 1 /\ jobs'[j].attempts = jobs[j].attempts
             \/ runs'[j] = runs[j] /\ jobs'[j].attempts \in {jobs[j].attempts, jobs[j].attempts - 1}
      PROVE  runs'[j] + Cardinality(V) <= jobs'[j].attempts
  <2>1. IsFiniteSet(U \ {w}) /\ Cardinality(U \ {w}) = Cardinality(U) - 1
    BY <1>1, FS_RemoveElement
  <2>2. Cardinality(V) <= Cardinality(U \ {w})
    BY <1>7, <2>1, FS_Subset
  <2> QED BY <1>1, <1>4, <1>5, <1>7, <2>1, <2>2
<1>8. ASSUME NEW w \in Workers, V \subseteq U \cup {w}, runs'[j] = runs[j],
             jobs'[j].attempts = jobs[j].attempts + 1
      PROVE  runs'[j] + Cardinality(V) <= jobs'[j].attempts
  <2>1. IsFiniteSet(U \cup {w}) /\ Cardinality(U \cup {w}) <= Cardinality(U) + 1
    BY <1>1, FS_AddElement
  <2>2. Cardinality(V) <= Cardinality(U \cup {w}) /\ Cardinality(U \cup {w}) \in Nat
    BY <1>8, <2>1, FS_Subset, FS_CardinalityType
  <2> QED BY <1>1, <1>4, <1>5, <1>8, <2>1, <2>2
<1> QED BY <1>6, <1>7, <1>8 DEF Accounted

\* A step of runOne leaves other rows, other claims and the callers alone.
LEMMA TaskFrame ==
  ASSUME TypeOK, NEW w \in Workers, NEW j \in Jobs, TaskAction(w, j)
  PROVE  /\ UNCHANGED <<issued, caller, runs>>
         /\ \A i \in Jobs \ {j} : jobs'[i] = jobs[i] /\ returned'[i] = returned[i]
         /\ \A v \in Workers, i \in Jobs : v # w \/ i # j => tasks'[v][i] = tasks[v][i]
<1>1. ASSUME NEW u, SetTask(w, j, u)
      PROVE  \A v \in Workers, i \in Jobs : v # w \/ i # j => tasks'[v][i] = tasks[v][i]
  BY <1>1 DEF SetTask, TypeOK
<1>2. ASSUME NEW r, jobs' = [jobs EXCEPT ![j] = r]
      PROVE  \A i \in Jobs \ {j} : jobs'[i] = jobs[i]
  BY <1>2 DEF TypeOK
<1>3. ASSUME NEW r, NEW u, Write(w, j, r, u)
      PROVE  /\ UNCHANGED <<issued, caller, runs, returned>>
             /\ \A i \in Jobs \ {j} : jobs'[i] = jobs[i]
             /\ \A v \in Workers, i \in Jobs : v # w \/ i # j => tasks'[v][i] = tasks[v][i]
  BY <1>1, <1>2, <1>3 DEF Write, historyVars
<1>4. CASE HandlerReturns(w, j)
  <2>1. \A i \in Jobs \ {j} : returned'[i] = returned[i]
    BY <1>4 DEF HandlerReturns, TypeOK
  <2> QED BY <1>1, <1>4, <2>1 DEF HandlerReturns, tableVars
<1>5. CASE HandlerThrows(w, j) \/ HeartbeatFault(w, j)
  BY <1>1, <1>5 DEF HandlerThrows, HeartbeatFault, tableVars, historyVars
<1>6. CASE HeartbeatTick(w, j)
  <2>1. \A i \in Jobs \ {j} : jobs'[i] = jobs[i]
    BY <1>6 DEF HeartbeatTick, TypeOK
  <2> QED BY <1>1, <1>6, <2>1 DEF HeartbeatTick, historyVars
<1>7. CASE Complete(w, j) \/ (\E d \in Delays : Retry(w, j, d)) \/ Fail(w, j) \/ Reject(w, j)
           \/ (\E d \in 0..Skew : Release(w, j, d))
  BY <1>3, <1>7 DEF Complete, Retry, Fail, Reject, Release
<1>8. CASE WriteFaultInTry(w, j)
  <2>1. \A i \in Jobs \ {j} : jobs'[i] = jobs[i]
    BY <1>8 DEF WriteFaultInTry, TypeOK
  <2> QED BY <1>1, <1>8, <2>1 DEF WriteFaultInTry, historyVars
<1>9. CASE WriteFaultInCatch(w, j) \/ ReleaseFault(w, j)
  BY <1>1, <1>9 DEF WriteFaultInCatch, ReleaseFault, tableVars, historyVars
<1> QED BY <1>4, <1>5, <1>6, <1>7, <1>8, <1>9 DEF TaskAction

\* Only releaseJob takes an attempt off a row, and its claim was never started.
LEMMA TaskAccounts ==
  ASSUME CInv, NEW w \in Workers, NEW j \in Jobs, TaskAction(w, j), NEW i \in Jobs
  PROVE  Accounted(i)
<1>1. TypeOK
  BY DEF CInv, IInv
<1>2. runs'[i] = runs[i] /\ issued'[i] = issued[i]
  BY <1>1, TaskFrame
<1>3. CASE i # j
  BY <1>1, <1>2, <1>3, TaskFrame DEF Accounted, Unstarted
<1>4. ASSUME i = j, jobs'[j].attempts = jobs[j].attempts,
             tasks'[w][j].at \notin {"claimed", "releasing"}
      PROVE  Accounted(i)
  BY <1>1, <1>2, <1>4, TaskFrame DEF Accounted, Unstarted
<1>5. ASSUME NEW u, SetTask(w, j, u) PROVE tasks'[w][j] = u
  BY <1>1, <1>5 DEF SetTask, TypeOK
<1>6. jobs[j] \in Row /\ tasks[w][j] \in Task
  BY <1>1 DEF TypeOK
<1>7. \A t \in Nat : \A d :
        /\ Completed(jobs[j], t).attempts = jobs[j].attempts
        /\ Retried(jobs[j], t, d).attempts = jobs[j].attempts
        /\ Failed(jobs[j], t).attempts = jobs[j].attempts
        /\ Heartbeat(jobs[j], t).attempts = jobs[j].attempts
  BY <1>6 DEF Completed, Retried, Failed, Heartbeat, Unclaimed, Row
<1>8. tasks[w][j].token \in Nat /\ Token(w, j) = tasks[w][j].token
  BY <1>6 DEF Task, Token
<1>9. Idle.at = "none"
  BY DEF Idle
<1>10. ASSUME tasks'[w][j] = Caught(w, j)
       PROVE  tasks'[w][j].at \notin {"claimed", "releasing"}
  BY <1>6, <1>9, <1>10 DEF Caught, Task
<1>11. ASSUME NEW r, Write(w, j, r, Idle) PROVE jobs'[j] = r /\ tasks'[w][j] = Idle
  BY <1>1, <1>5, <1>11 DEF Write, TypeOK
<1>12. CASE HandlerReturns(w, j)
  <2>1. tasks'[w][j] = Idle \/ tasks'[w][j] = [tasks[w][j] EXCEPT !.at = "completing"]
    BY <1>5, <1>12 DEF HandlerReturns
  <2>2. tasks'[w][j].at \notin {"claimed", "releasing"}
    BY <1>6, <1>9, <2>1 DEF Task
  <2> QED BY <1>3, <1>4, <1>12, <2>2 DEF HandlerReturns, tableVars
<1>13. CASE HandlerThrows(w, j)
  BY <1>3, <1>4, <1>5, <1>10, <1>13 DEF HandlerThrows, tableVars
<1>14. CASE HeartbeatTick(w, j)
  <2>1. tasks'[w][j].at \in InHandler
    BY <1>5, <1>6, <1>14 DEF HeartbeatTick, Beats, Task
  <2>2. jobs'[j].attempts = jobs[j].attempts
    BY <1>1, <1>7, <1>8, <1>14 DEF HeartbeatTick, TypeOK
  <2> QED BY <1>3, <1>4, <2>1, <2>2 DEF InHandler
<1>15. CASE HeartbeatFault(w, j)
  <2>1. tasks'[w][j].at \in InHandler
    BY <1>5, <1>6, <1>15 DEF HeartbeatFault, Beats, Task
  <2> QED BY <1>3, <1>4, <1>15, <2>1 DEF InHandler, HeartbeatFault, tableVars
<1>16. CASE Complete(w, j) \/ (\E d \in Delays : Retry(w, j, d)) \/ Fail(w, j) \/ Reject(w, j)
  BY <1>3, <1>4, <1>7, <1>8, <1>9, <1>11, <1>16 DEF Complete, Retry, Fail, Reject
<1>17. CASE \E d \in 0..Skew : Release(w, j, d)
  <2>1. PICK d \in 0..Skew : Release(w, j, d)
    BY <1>17
  <2>2. jobs'[j] = Released(jobs[j], Token(w, j), d) /\ tasks'[w][j] = Idle
    BY <1>11, <2>1 DEF Release
  <2>3. w \in Unstarted(j)
    BY <2>1 DEF Release, AtStage, Unstarted
  <2>4. CASE i = j
    <3>1. Unstarted(j)' \subseteq Unstarted(j) \ {w}
      BY <1>1, <1>9, <2>2, TaskFrame DEF Unstarted
    <3>2. runs[j] \in Nat /\ Cardinality(Unstarted(j)) \in Nat /\ Cardinality(Unstarted(j)) # 0
      BY <1>1, <2>3, CountingUnstarted, FS_EmptySet DEF TypeOK
    <3>3. jobs[j].attempts > 0 /\ jobs[j].attempts \in Nat
      BY <1>6, <3>2, QueueAssumption DEF CInv, AttemptsCovered, Row
    <3>4. jobs'[j].attempts \in {jobs[j].attempts, jobs[j].attempts - 1}
      BY <1>6, <2>2, <3>3 DEF Released, Unclaimed
    <3> QED BY <1>2, <2>3, <2>4, <3>1, <3>4 DEF Accounted
  <2> QED BY <1>3, <2>4
<1>18. CASE WriteFaultInTry(w, j)
  <2>1. tasks'[w][j] = Caught(w, j)
    BY <1>5, <1>18 DEF WriteFaultInTry
  <2>2. jobs'[j].attempts = jobs[j].attempts
    BY <1>1, <1>7, <1>8, <1>18 DEF WriteFaultInTry, TypeOK
  <2> QED BY <1>3, <1>4, <1>10, <2>1, <2>2
<1>19. CASE WriteFaultInCatch(w, j) \/ ReleaseFault(w, j)
  BY <1>3, <1>4, <1>5, <1>9, <1>19 DEF WriteFaultInCatch, ReleaseFault, tableVars
<1> QED BY <1>12, <1>13, <1>14, <1>15, <1>16, <1>17, <1>18, <1>19 DEF TaskAction

\* Callers, sweeps, processes and time: a claim opens one account, a start
\* turns it into an execution, everything else at most forgets it.
LEMMA OthersAccount ==
  ASSUME CInv, NEW j \in Jobs,
         \/ CallerNext /\ ~(\E d \in Delays : Insert(j, d))
         \/ SweepNext \/ ProcessNext \/ Tick \/ UNCHANGED vars
  PROVE  Accounted(j)
<1>1. TypeOK
  BY DEF CInv, IInv
<1>2. ASSUME UNCHANGED <<issued, runs, tasks>>, jobs'[j].attempts = jobs[j].attempts
      PROVE  Accounted(j)
  BY <1>2 DEF Accounted, Unstarted
<1>3. CASE CallerNext /\ ~(\E d \in Delays : Insert(j, d))
  <2>1. jobs'[j] = jobs[j]
    BY <1>1, <1>3 DEF CallerNext, FindActive, Insert, InsertConflict, FindAgain, TypeOK
  <2>2. UNCHANGED <<issued, runs, tasks>>
    BY <1>3 DEF CallerNext, FindActive, Insert, InsertConflict, FindAgain, workerVars, historyVars
  <2> QED BY <1>2, <2>1, <2>2
<1>4. CASE SweepNext
  <2>1. ASSUME NEW w \in Workers, NEW a \in 0..Skew, Reap(w, a) PROVE Accounted(j)
    <3>1. jobs'[j].attempts = jobs[j].attempts
      BY <2>1 DEF Reap, Reaped, Unclaimed
    <3> QED BY <1>2, <2>1, <3>1 DEF Reap, historyVars
  <2>2. ASSUME NEW w \in Workers, ReapFault(w) \/ DrainEnds(w) \/ ClaimFault(w)
        PROVE  Accounted(j)
    BY <1>2, <2>2 DEF ReapFault, DrainEnds, ClaimFault, tableVars, historyVars
  <2>3. ASSUME NEW w \in Workers, NEW skipped \in SUBSET Lockable(w),
               NEW S \in Batches(w, skipped), Claim(w, S)
        PROVE  Accounted(j)
    <3>1. \A v \in Workers : v # w => tasks'[v][j] = tasks[v][j]
      BY <1>1, <2>3 DEF Claim, TypeOK
    <3>2. runs' = runs
      BY <2>3 DEF Claim, historyVars
    <3>3. CASE j \in S
      <4>1. jobs'[j].attempts = jobs[j].attempts + 1 /\ issued'[j] = issued[j] + 1
        BY <2>3, <3>3 DEF Claim, Claimed
      <4> QED BY <3>1, <3>2, <4>1 DEF Accounted, Unstarted
    <3>4. CASE j \notin S
      <4>1. jobs'[j] = jobs[j] /\ issued'[j] = issued[j] /\ tasks'[w][j].at = "none"
        BY <1>1, <2>3, <3>4 DEF Claim, TypeOK, Idle
      <4> QED BY <3>1, <3>2, <4>1 DEF Accounted, Unstarted
    <3> QED BY <3>3, <3>4
  <2>4. ASSUME NEW w \in Workers, Start(w) PROVE Accounted(j)
    <3>1. UNCHANGED <<jobs, issued>> /\ \A v \in Workers : v # w => tasks'[v][j] = tasks[v][j]
      BY <1>1, <2>4 DEF Start, TypeOK, tableVars
    <3>2. tasks'[w][j] = IF j \in Pending(w) THEN Started(w, j) ELSE tasks[w][j]
      BY <1>1, <2>4 DEF Start, TypeOK
    <3>3. runs'[j] = IF j \in Pending(w) /\ Started(w, j).at = "running" THEN runs[j] + 1 ELSE runs[j]
      BY <2>4 DEF Start
    <3>4. CASE j \in Pending(w) /\ Started(w, j).at = "running"
      <4>1. w \in Unstarted(j)
        BY <3>4 DEF Pending, Unstarted
      <4>2. Unstarted(j)' \subseteq Unstarted(j) \ {w}
        BY <3>1, <3>2, <3>4 DEF Unstarted
      <4> QED BY <3>1, <3>3, <3>4, <4>1, <4>2 DEF Accounted
    <3>5. CASE j \in Pending(w) /\ Started(w, j).at # "running"
      <4>1. w \in Unstarted(j)
        BY <3>5 DEF Pending, Unstarted
      <4> QED BY <3>1, <3>3, <3>5, <4>1 DEF Accounted, Unstarted
    <3>6. CASE j \notin Pending(w)
      BY <3>1, <3>2, <3>3, <3>6 DEF Accounted, Unstarted
    <3> QED BY <3>4, <3>5, <3>6
  <2>5. ASSUME NEW w \in Workers, ClaimReplyLost(w) PROVE Accounted(j)
    <3>1. \A v \in Workers : tasks'[v][j] \in {tasks[v][j], Idle}
      BY <1>1, <2>5 DEF ClaimReplyLost, TypeOK
    <3> QED BY <2>5, <3>1 DEF ClaimReplyLost, Accounted, Unstarted, Idle, tableVars, historyVars
  <2> QED BY <1>4, <2>1, <2>2, <2>3, <2>4, <2>5 DEF SweepNext
<1>5. CASE ProcessNext
  <2>1. ASSUME NEW w \in Workers, Die(w) PROVE Accounted(j)
    <3>1. \A v \in Workers : tasks'[v][j] \in {tasks[v][j], Idle}
      BY <1>1, <2>1 DEF Die, TypeOK
    <3> QED BY <2>1, <3>1 DEF Die, Accounted, Unstarted, Idle, tableVars, historyVars
  <2>2. ASSUME NEW w \in Workers, Stop(w) \/ Restart(w) PROVE Accounted(j)
    BY <1>2, <2>2 DEF Stop, Restart, tableVars, historyVars
  <2> QED BY <1>5, <2>1, <2>2 DEF ProcessNext, Crash, Exit
<1>6. CASE Tick
  <2>1. jobs'[j].attempts = jobs[j].attempts
    BY <1>6 DEF Tick, Aged
  <2> QED BY <1>2, <1>6, <2>1 DEF Tick, workerVars, historyVars
<1>7. CASE UNCHANGED vars
  BY <1>2, <1>7 DEF vars, tableVars, workerVars, historyVars
<1> QED BY <1>3, <1>4, <1>5, <1>6, <1>7

\* Rows appear with their INSERT and draw a token for every attempt.
LEMMA UninsertedKept ==
  ASSUME CInv, [Next]_vars, NEW j \in Jobs,
         Accounted(j) \/ (\E d \in Delays : Insert(j, d))
  PROVE  /\ caller'[j] # "inserted" =>
              jobs'[j].status = "absent" /\ issued'[j] = 0 /\ runs'[j] = 0
         /\ jobs'[j].attempts <= issued'[j]
<1>1. TypeOK
  BY DEF CInv, IInv
<1>2. /\ caller[j] # "inserted" => jobs[j].status = "absent" /\ issued[j] = 0 /\ runs[j] = 0
      /\ jobs[j].attempts <= issued[j]
  BY DEF CInv, Uninserted
<1>3. issued[j] \in Nat /\ jobs[j].attempts \in Nat /\ jobs[j] \in Row
  BY <1>1, QueueAssumption DEF TypeOK, Row
<1>4. CASE \E d \in Delays : Insert(j, d)
  <2>1. PICK d \in Delays : Insert(j, d)
    BY <1>4
  <2>2. jobs'[j].attempts = 0 /\ caller'[j] = "inserted" /\ issued'[j] = issued[j]
    BY <1>1, <2>1 DEF Insert, Enqueued, Unclaimed, TypeOK
  <2> QED BY <1>3, <2>2
<1>5. CASE Accounted(j) /\ ~(\E d \in Delays : Insert(j, d))
  <2>1. jobs'[j].attempts <= issued'[j]
    BY <1>2, <1>3, <1>5 DEF Accounted
  <2> SUFFICES ASSUME caller'[j] # "inserted"
               PROVE  jobs'[j].status = "absent" /\ issued'[j] = 0 /\ runs'[j] = 0
    BY <2>1
  <2>2. caller[j] # "inserted"
    <3>1. CASE CallerNext
      BY <1>1, <3>1 DEF CallerNext, FindActive, Insert, InsertConflict, FindAgain, TypeOK
    <3>2. CASE SweepNext
      BY <3>2 DEF SweepNext, Reap, ReapFault, Claim, DrainEnds, ClaimFault, Start,
                  ClaimReplyLost, tableVars
    <3>3. ASSUME NEW w \in Workers, NEW i \in Jobs, TaskAction(w, i) PROVE caller' = caller
      BY <1>1, <3>3, TaskFrame
    <3>4. CASE ProcessNext
      BY <3>4 DEF ProcessNext, Stop, Crash, Exit, Die, Restart, tableVars
    <3>5. CASE Tick \/ UNCHANGED vars
      BY <3>5 DEF Tick, vars, tableVars
    <3> QED BY <3>1, <3>2, <3>3, <3>4, <3>5 DEF Next, TaskNext
  <2>3. jobs[j].status = "absent" /\ issued[j] = 0 /\ runs[j] = 0
    BY <1>2, <2>2
  <2>4. \A w \in Workers : tasks[w][j].at = "none"
    BY <2>3 DEF CInv, IInv, TokensIssued
  <2>5. Unstarted(j) = {}
    BY <2>4 DEF Unstarted
  <2>6. jobs'[j].status = "absent" /\ jobs'[j].attempts = jobs[j].attempts
    <3>1. CASE CallerNext
      BY <1>1, <1>5, <2>3, <3>1 DEF CallerNext, FindActive, Insert, InsertConflict, FindAgain, TypeOK
    <3>2. CASE SweepNext
      <4>1. ASSUME NEW w \in Workers, NEW a \in 0..Skew, Reap(w, a) PROVE jobs'[j] = jobs[j]
        BY <2>3, <4>1 DEF Reap, Reaped, Expired
      <4>2. ASSUME NEW w \in Workers, NEW skipped \in SUBSET Lockable(w),
                   NEW S \in Batches(w, skipped), Claim(w, S)
            PROVE  jobs'[j] = jobs[j]
        BY <1>1, <2>3, <4>2 DEF Claim, Batches, Claimable, TypeOK
      <4> QED BY <2>3, <3>2, <4>1, <4>2 DEF SweepNext, ReapFault, DrainEnds, ClaimFault, Start,
                                            ClaimReplyLost, tableVars
    <3>3. ASSUME NEW w \in Workers, NEW i \in Jobs, TaskAction(w, i) PROVE jobs'[j] = jobs[j]
      <4>1. tasks[w][i].at # "none"
        BY <3>3 DEF TaskAction, HandlerReturns, HandlerThrows, HeartbeatTick, HeartbeatFault,
                    Complete, Retry, Fail, Reject, Release, WriteFaultInTry, WriteFaultInCatch,
                    ReleaseFault, AtStage, Beats, InHandler
      <4> QED BY <1>1, <2>4, <3>3, <4>1, TaskFrame
    <3>4. CASE ProcessNext
      BY <2>3, <3>4 DEF ProcessNext, Stop, Crash, Exit, Die, Restart, tableVars
    <3>5. CASE Tick
      BY <2>3, <3>5 DEF Tick, Aged
    <3>6. CASE UNCHANGED vars
      BY <2>3, <3>6 DEF vars, tableVars
    <3> QED BY <2>3, <3>1, <3>2, <3>3, <3>4, <3>5, <3>6 DEF Next, TaskNext
  <2>7. issued'[j] = 0 /\ runs'[j] = 0
    BY <1>1, <1>2, <1>3, <1>5, <2>3, <2>5, <2>6 DEF Accounted
  <2> QED BY <2>6, <2>7
<1> QED BY <1>4, <1>5

\* An INSERT only touches its own row, which nothing has been done with yet.
LEMMA InsertFrame ==
  ASSUME CInv, TypeOK', NEW k \in Jobs, NEW d \in Delays, Insert(k, d), NEW j \in Jobs
  PROVE  /\ j # k => Accounted(j)
         /\ runs'[j] + Cardinality(Unstarted(j)') <= jobs'[j].attempts
<1>1. UNCHANGED <<issued, runs, tasks>>
  BY DEF Insert, workerVars, historyVars
<1>2. CASE j # k
  <2>1. jobs'[j] = jobs[j]
    BY <1>2 DEF Insert, CInv, IInv, TypeOK
  <2>2. Accounted(j)
    BY <1>1, <2>1 DEF Accounted, Unstarted
  <2> QED BY <2>2, AccountedKeeps
<1>3. CASE j = k
  <2>1. issued[j] = 0 /\ runs[j] = 0
    BY <1>3 DEF Insert, CInv, Uninserted
  <2>2. \A w \in Workers : tasks[w][j].at = "none"
    BY <2>1 DEF CInv, IInv, TokensIssued
  <2>3. Unstarted(j)' = {}
    BY <1>1, <2>2 DEF Unstarted
  <2>4. jobs'[j].attempts = 0
    BY <1>3 DEF Insert, Enqueued, Unclaimed, CInv, IInv, TypeOK
  <2>5. Cardinality(Unstarted(j)') = 0
    BY <2>3, FS_EmptySet
  <2> QED BY <1>1, <1>3, <2>1, <2>4, <2>5
<1> QED BY <1>2, <1>3

\* Every step is an accounted step for every row, so the bound of
\* AttemptsCovered survives it.
LEMMA NextAccounts ==
  ASSUME CInv, TypeOK', [Next]_vars, NEW j \in Jobs
  PROVE  /\ Accounted(j) \/ (\E d \in Delays : Insert(j, d))
         /\ runs'[j] + Cardinality(Unstarted(j)') <= jobs'[j].attempts
<1>1. ASSUME NEW d \in Delays, Insert(j, d)
      PROVE  runs'[j] + Cardinality(Unstarted(j)') <= jobs'[j].attempts
  BY <1>1, InsertFrame
<1>2. ASSUME ~(\E d \in Delays : Insert(j, d)) PROVE Accounted(j)
  BY <1>2, OthersAccount, TaskAccounts DEF Next, TaskNext
<1> QED BY <1>1, <1>2, AccountedKeeps

\* Nothing has been claimed or executed at the start.
LEMMA InitCInv == Init => CInv
<1> SUFFICES ASSUME Init PROVE CInv
  OBVIOUS
<1>1. IInv
  BY InitSafe
<1>2. \A j \in Jobs : /\ jobs[j].status = "absent" /\ jobs[j].attempts = 0
                      /\ issued[j] = 0 /\ runs[j] = 0
  BY DEF Init, AbsentRow, Unclaimed, NoToken
<1>3. Uninserted
  BY <1>2 DEF Uninserted
<1>4. \A j \in Jobs : Unstarted(j) = {}
  BY DEF Init, Idle, Unstarted
<1>5. AttemptsCovered
  <2>1. \A j \in Jobs : Cardinality(Unstarted(j)) = 0
    BY <1>4, FS_EmptySet
  <2> QED BY <1>2, <2>1 DEF AttemptsCovered
<1> QED BY <1>1, <1>3, <1>5 DEF CInv

\* The accounting invariant is inductive on top of IInv.
LEMMA NextCInv ==
  ASSUME CInv, [Next]_vars
  PROVE  CInv'
<1>1. IInv'
  <2>1. CASE Next
    BY <2>1, NextSafe DEF CInv
  <2>2. CASE UNCHANGED vars
    BY <2>2 DEF CInv, IInv, TypeOK, NewestHolds, TokensIssued, StagesJustified,
                CompletedByNewest, OneActiveSyncPerUser, FailedOnlyWhenExhausted, vars,
                tableVars, workerVars, historyVars
  <2> QED BY <2>1, <2>2
<1>2. TypeOK'
  BY <1>1 DEF IInv
<1>3. AttemptsCovered'
  BY <1>2, NextAccounts DEF AttemptsCovered
<1>4. Uninserted'
  BY <1>2, NextAccounts, UninsertedKept DEF Uninserted
<1> QED BY <1>1, <1>3, <1>4 DEF CInv

\* Executions and unstarted claims stay within the attempts of the row.
LEMMA CInvHolds == Spec => []CInv
BY InitCInv, NextCInv, PTL DEF Spec

\* Handlers of a job start at most as often as the row counts attempts, so at
\* most MaxAttempts times, however claims expire, are released or are lost.
THEOREM RunsBounded == Spec => []RunsWithinAttempts
<1>1. CInv => RunsWithinAttempts
  <2> SUFFICES ASSUME CInv, NEW j \in Jobs PROVE runs[j] <= jobs[j].attempts
    BY DEF RunsWithinAttempts
  <2>1. /\ runs[j] \in Nat
        /\ jobs[j].attempts \in Nat
        /\ runs[j] + Cardinality(Unstarted(j)) <= jobs[j].attempts
    BY QueueAssumption DEF CInv, IInv, TypeOK, Row, AttemptsCovered
  <2> QED BY <2>1, CountingUnstarted
<1> QED BY <1>1, CInvHolds, PTL

\* One step of a claim that was superseded leaves its row as it is.
LEMMA StaleStep ==
  ASSUME IInv, [Next]_vars, NEW w \in Workers, NEW j \in Jobs,
         tasks[w][j].at # "none", tasks[w][j].token # jobs[j].token,
         tasks'[w][j] # tasks[w][j]
  PROVE  jobs'[j] = jobs[j]
<1>1. TypeOK
  BY DEF IInv
<1>2. \A d : LET t == tasks[w][j].token IN
        /\ Completed(jobs[j], t) = jobs[j]
        /\ Retried(jobs[j], t, d) = jobs[j]
        /\ Failed(jobs[j], t) = jobs[j]
        /\ Heartbeat(jobs[j], t) = jobs[j]
        /\ Released(jobs[j], t, d) = jobs[j]
  BY DEF Completed, Retried, Failed, Heartbeat, Released, Holds
<1>3. Token(w, j) = tasks[w][j].token
  BY DEF Token
<1>4. ASSUME TaskAction(w, j) PROVE jobs'[j] = jobs[j]
  <2>1. [jobs EXCEPT ![j] = jobs[j]] = jobs
    BY <1>1 DEF TypeOK
  <2> QED BY <1>2, <1>3, <1>4, <2>1
          DEF TaskAction, HandlerReturns, HandlerThrows, HeartbeatTick, HeartbeatFault,
              Complete, Retry, Fail, Reject, Release, WriteFaultInTry, WriteFaultInCatch,
              ReleaseFault, Write, tableVars
<1>5. ASSUME NEW v \in Workers, NEW i \in Jobs, TaskAction(v, i), v # w \/ i # j
      PROVE  FALSE
  BY <1>1, <1>5, TaskFrame
<1>6. CASE TaskNext
  BY <1>4, <1>5, <1>6 DEF TaskNext
<1>7. CASE CallerNext \/ Tick \/ UNCHANGED vars
  <2>1. tasks' = tasks
    BY <1>7 DEF CallerNext, FindActive, Insert, InsertConflict, FindAgain, Tick, vars, workerVars
  <2> QED BY <2>1
<1>8. CASE SweepNext
  <2>1. ASSUME NEW v \in Workers, NEW skipped \in SUBSET Lockable(v),
               NEW S \in Batches(v, skipped), Claim(v, S)
        PROVE  FALSE
    <3>1. v # w
      BY <2>1 DEF Claim, Busy
    <3> QED BY <1>1, <2>1, <3>1 DEF Claim, TypeOK
  <2> QED BY <1>8, <2>1 DEF SweepNext, Reap, ReapFault, DrainEnds, ClaimFault, Start,
                            ClaimReplyLost, tableVars
<1>9. CASE ProcessNext
  BY <1>9 DEF ProcessNext, Stop, Crash, Exit, Die, Restart, tableVars
<1> QED BY <1>6, <1>7, <1>8, <1>9 DEF Next

\* A superseded claim never changes its row again, for any number of workers
\* and in any order of completions, retries, failures, releases and heartbeats.
THEOREM StaleClaimsHarmless == Spec => StaleTasksAreHarmless
<1> DEFINE Harmless == \A w \in Workers, j \in Jobs :
             /\ tasks[w][j].at # "none"
             /\ tasks[w][j].token # jobs[j].token
             /\ tasks'[w][j] # tasks[w][j]
             => jobs'[j] = jobs[j]
<1>1. IInv /\ [Next]_vars => Harmless
  BY StaleStep
<1>2. IInv /\ [Next]_vars => [Harmless]_vars
  BY <1>1
<1>3. Spec => [][Harmless]_vars
  BY Safe, <1>2, PTL DEF Spec
<1> QED BY <1>3 DEF StaleTasksAreHarmless
-----------------------------------------------------------------------------
(* The refinement: what a step may do to one row, in the terms of LeasedWork. *)

\* Row j before and after the step has the same phase.
SamePhase(j) == jobs'[j].status = jobs[j].status

SameHistory(j) == runs'[j] = runs[j] /\ returned'[j] = returned[j]

\* The steps of LeasedWork, said of the rows.
RefinesStep(j) ==
  \/ SamePhase(j) /\ issued'[j] = issued[j] /\ SameHistory(j)
  \/ /\ jobs[j].status = "absent" /\ jobs'[j].status = "pending"
     /\ issued'[j] = issued[j] /\ SameHistory(j)
  \/ /\ jobs[j].status \in Active /\ jobs'[j].status = "running"
     /\ issued'[j] = issued[j] + 1 /\ SameHistory(j)
  \/ /\ SamePhase(j) /\ issued'[j] = issued[j]
     /\ runs[j] < MaxAttempts /\ runs'[j] = runs[j] + 1 /\ returned'[j] = returned[j]
  \/ /\ SamePhase(j) /\ issued'[j] = issued[j] /\ runs'[j] = runs[j]
     /\ \E g \in 1..issued[j] : returned'[j] = returned[j] \cup {g}
  \/ /\ jobs[j].status = "running" /\ issued'[j] = issued[j] /\ SameHistory(j)
     /\ \/ jobs'[j].status = "pending"
        \/ jobs'[j].status = "completed" /\ issued[j] \in returned[j]
        \/ jobs'[j].status = "failed" /\ (j \in Unrunnable \/ issued[j] >= MaxAttempts)

\* What RefinesStep says of the variables here is a step of LeasedWork, or no
\* step, under the refinement mapping.
LEMMA RefinesStepMaps ==
  ASSUME TypeOK, TypeOK', NEW j \in Jobs, RefinesStep(j)
  PROVE  Contract!Step(j)
<1>1. jobs[j].status \in Statuses /\ jobs'[j].status \in Statuses
  BY DEF TypeOK, Row
<1>2. /\ [i \in Jobs |-> Phase(jobs[i])][j] = Phase(jobs[j])
      /\ [i \in Jobs |-> Phase(jobs'[i])][j] = Phase(jobs'[j])
  OBVIOUS
<1> USE <1>1, <1>2 DEF SamePhase, SameHistory, Phase, Contract!Step, Contract!HistoryKept,
      Contract!GrantKept
<1>3. CASE SamePhase(j) /\ issued'[j] = issued[j] /\ SameHistory(j)
  BY <1>3 DEF Contract!Keep
<1>4. CASE /\ jobs[j].status = "absent" /\ jobs'[j].status = "pending"
           /\ issued'[j] = issued[j] /\ SameHistory(j)
  BY <1>4 DEF Contract!Submit
<1>5. CASE /\ jobs[j].status \in Active /\ jobs'[j].status = "running"
           /\ issued'[j] = issued[j] + 1 /\ SameHistory(j)
  BY <1>5 DEF Contract!Grant, Active
<1>6. CASE /\ SamePhase(j) /\ issued'[j] = issued[j]
           /\ runs[j] < MaxAttempts /\ runs'[j] = runs[j] + 1 /\ returned'[j] = returned[j]
  BY <1>6 DEF Contract!Begin
<1>7. CASE /\ SamePhase(j) /\ issued'[j] = issued[j] /\ runs'[j] = runs[j]
           /\ \E g \in 1..issued[j] : returned'[j] = returned[j] \cup {g}
  BY <1>7 DEF Contract!Succeed
<1>8. CASE /\ jobs[j].status = "running" /\ issued'[j] = issued[j] /\ SameHistory(j)
           /\ \/ jobs'[j].status = "pending"
              \/ jobs'[j].status = "completed" /\ issued[j] \in returned[j]
              \/ jobs'[j].status = "failed" /\ (j \in Unrunnable \/ issued[j] >= MaxAttempts)
  BY <1>8 DEF Contract!Return, Contract!Finish, Contract!GiveUp
<1> QED BY <1>3, <1>4, <1>5, <1>6, <1>7, <1>8 DEF RefinesStep

\* Statements that keep, reap, give back or retry a claim map to a return, to
\* giving up, or to nothing.
LEMMA RowsRefine ==
  ASSUME NEW r \in Row, NEW t, NEW d, NEW a,
         NEW s \in {r, Retried(r, t, d), Heartbeat(r, t), Released(r, t, a), Reaped(r, a), Aged(r)}
  PROVE  \/ s.status = r.status
         \/ r.status = "running" /\ s.status = "pending"
         \/ r.status = "running" /\ s.status = "failed" /\ Exhausted(r)
<1>1. CASE s = r
  BY <1>1
<1>2. CASE s = Retried(r, t, d)
  BY <1>2 DEF Retried, Holds, Unclaimed
<1>3. CASE s = Heartbeat(r, t)
  BY <1>3 DEF Heartbeat, Row
<1>4. CASE s = Released(r, t, a)
  BY <1>4 DEF Released, Holds, Unclaimed
<1>5. CASE s = Reaped(r, a)
  BY <1>5 DEF Reaped, Expired, Unclaimed
<1>6. CASE s = Aged(r)
  BY <1>6 DEF Aged
<1> QED BY <1>1, <1>2, <1>3, <1>4, <1>5, <1>6

\* A row that a statement changed without ending it, or that it gave up for
\* its spent attempts, made a step of the abstract job.
LEMMA RowStepRefines ==
  ASSUME CInv, NEW j \in Jobs, SameHistory(j), issued'[j] = issued[j],
         \/ jobs'[j].status = jobs[j].status
         \/ jobs[j].status = "running" /\ jobs'[j].status = "pending"
         \/ jobs[j].status = "running" /\ jobs'[j].status = "failed" /\ Exhausted(jobs[j])
  PROVE  RefinesStep(j)
<1>1. Exhausted(jobs[j]) => issued[j] >= MaxAttempts
  BY QueueAssumption DEF CInv, IInv, TypeOK, Uninserted, Exhausted, Row
<1> QED BY <1>1 DEF RefinesStep, SamePhase

\* Each step of runOne is a grant's execution ending, a completion, a return
\* to the queue, a failure, or nothing to the contract.
LEMMA TaskRefines ==
  ASSUME CInv, NEW w \in Workers, NEW j \in Jobs, TaskAction(w, j), NEW i \in Jobs
  PROVE  RefinesStep(i)
<1>1. TypeOK /\ IInv
  BY DEF CInv, IInv
<1>2. runs'[i] = runs[i] /\ issued'[i] = issued[i]
  BY <1>1, TaskFrame
<1>3. CASE i # j
  <2>1. jobs'[i] = jobs[i] /\ returned'[i] = returned[i]
    BY <1>1, <1>3, TaskFrame
  <2> QED BY <1>2, <2>1 DEF RefinesStep, SamePhase, SameHistory
<1> DEFINE r == jobs[j]
           t == tasks[w][j].token
<1>4. r \in Row /\ Token(w, j) = t /\ tasks[w][j] \in Task
  BY <1>1 DEF TypeOK, Token
<1>5. ASSUME i = j, returned' = returned, NEW d, NEW a,
             jobs'[j] \in {r, Retried(r, t, d), Heartbeat(r, t), Released(r, t, a)}
      PROVE  RefinesStep(i)
  BY <1>2, <1>4, <1>5, RowsRefine, RowStepRefines DEF SameHistory
<1>6. ASSUME i = j, returned' = returned, jobs'[j] = Completed(r, t), t \in returned[j]
      PROVE  RefinesStep(i)
  BY <1>1, <1>2, <1>6 DEF Completed, Holds, Unclaimed, RefinesStep, SamePhase, SameHistory,
                          IInv, NewestHolds
<1>7. ASSUME i = j, returned' = returned, jobs'[j] = Failed(r, t),
             tasks[w][j].at \in {"failing", "rejecting"}
      PROVE  RefinesStep(i)
  <2>1. CASE ~Holds(r, t)
    BY <1>2, <1>7, <2>1 DEF Failed, RefinesStep, SamePhase, SameHistory
  <2>2. CASE Holds(r, t)
    <3>1. Exhausted(r) \/ j \in Unrunnable
      BY <1>1, <1>7, <2>2 DEF IInv, StagesJustified
    <3>2. Exhausted(r) => issued[j] >= MaxAttempts
      BY <1>1, QueueAssumption DEF CInv, TypeOK, Uninserted, Exhausted, Row
    <3> QED BY <1>2, <1>7, <2>2, <3>1, <3>2
            DEF Failed, Holds, Unclaimed, RefinesStep, SameHistory
  <2> QED BY <2>1, <2>2
<1>8. ASSUME NEW s, Write(w, j, s, Idle) PROVE jobs'[j] = s /\ returned' = returned
  BY <1>1, <1>8 DEF Write, TypeOK, historyVars
<1>9. tasks[w][j].at = "completing" => t \in returned[j]
  BY <1>1 DEF IInv, StagesJustified
<1>10. CASE HandlerReturns(w, j)
  <2>1. tasks[w][j].at # "none"
    BY <1>10 DEF HandlerReturns, AtStage
  <2>2. t \in 1..issued[j]
    BY <1>1, <2>1 DEF IInv, TokensIssued
  <2>3. returned'[j] = returned[j] \cup {t} /\ jobs' = jobs
    BY <1>1, <1>10 DEF HandlerReturns, TypeOK, tableVars
  <2>4. CASE i = j
    BY <1>2, <2>2, <2>3, <2>4 DEF RefinesStep, SamePhase
  <2> QED BY <1>3, <2>4
<1>11. CASE HandlerThrows(w, j) \/ HeartbeatFault(w, j) \/ WriteFaultInCatch(w, j)
            \/ ReleaseFault(w, j)
  <2>1. jobs' = jobs /\ returned' = returned
    BY <1>11 DEF HandlerThrows, HeartbeatFault, WriteFaultInCatch, ReleaseFault, tableVars, historyVars
  <2> QED BY <1>2, <2>1 DEF RefinesStep, SamePhase, SameHistory
<1>12. CASE HeartbeatTick(w, j)
  <2>1. jobs'[j] = Heartbeat(r, t) /\ returned' = returned
    BY <1>1, <1>12 DEF HeartbeatTick, TypeOK, historyVars
  <2> QED BY <1>3, <1>5, <2>1
<1>13. CASE Complete(w, j)
  BY <1>3, <1>4, <1>6, <1>8, <1>9, <1>13 DEF Complete, AtStage
<1>14. CASE \E d \in Delays : Retry(w, j, d)
  BY <1>3, <1>4, <1>5, <1>8, <1>14 DEF Retry
<1>15. CASE Fail(w, j) \/ Reject(w, j)
  BY <1>3, <1>4, <1>7, <1>8, <1>15 DEF Fail, Reject, AtStage
<1>16. CASE \E d \in 0..Skew : Release(w, j, d)
  BY <1>3, <1>4, <1>5, <1>8, <1>16 DEF Release
<1>17. CASE WriteFaultInTry(w, j)
  <2>1. returned' = returned
    BY <1>17 DEF WriteFaultInTry, historyVars
  <2>2. \/ jobs'[j] = r
        \/ tasks[w][j].at = "completing" /\ jobs'[j] = Completed(r, t)
        \/ tasks[w][j].at = "rejecting" /\ jobs'[j] = Failed(r, t)
    BY <1>1, <1>4, <1>17 DEF WriteFaultInTry, AtStage, TypeOK
  <2> QED BY <1>3, <1>5, <1>6, <1>7, <1>9, <2>1, <2>2
<1> QED BY <1>10, <1>11, <1>12, <1>13, <1>14, <1>15, <1>16, <1>17 DEF TaskAction

\* Each step of the whole system is a step of LeasedWork or a stutter.
LEMMA NextRefines ==
  ASSUME CInv, CInv', [Next]_vars, NEW j \in Jobs
  PROVE  RefinesStep(j)
<1>1. TypeOK /\ TypeOK'
  BY DEF CInv, IInv
<1>2. ASSUME UNCHANGED <<jobs, issued, runs, returned>> PROVE RefinesStep(j)
  BY <1>2 DEF RefinesStep, SamePhase, SameHistory
<1>3. jobs[j] \in Row
  BY <1>1 DEF TypeOK
<1>4. CASE CallerNext
  <2>1. ASSUME NEW i \in Jobs, FindActive(i) \/ InsertConflict(i) \/ FindAgain(i)
        PROVE  RefinesStep(j)
    BY <1>2, <2>1 DEF FindActive, InsertConflict, FindAgain, historyVars
  <2>2. ASSUME NEW i \in Jobs, NEW d \in Delays, Insert(i, d) PROVE RefinesStep(j)
    <3>1. UNCHANGED <<issued, runs, returned>>
      BY <2>2 DEF Insert, historyVars
    <3>2. i # j => jobs'[j] = jobs[j]
      BY <1>1, <2>2 DEF Insert, TypeOK
    <3>3. i = j => jobs[j].status = "absent" /\ jobs'[j].status = "pending"
      BY <1>1, <2>2 DEF Insert, TypeOK, CInv, Uninserted, Enqueued, Unclaimed
    <3> QED BY <3>1, <3>2, <3>3 DEF RefinesStep, SamePhase, SameHistory
  <2> QED BY <1>4, <2>1, <2>2 DEF CallerNext
<1>5. CASE SweepNext
  <2>1. ASSUME NEW w \in Workers, NEW a \in 0..Skew, Reap(w, a) PROVE RefinesStep(j)
    <3>1. jobs'[j] = Reaped(jobs[j], a) /\ UNCHANGED <<issued, runs, returned>>
      BY <2>1 DEF Reap, historyVars
    <3> QED BY <1>3, <3>1, RowsRefine, RowStepRefines DEF SameHistory
  <2>2. ASSUME NEW w \in Workers,
               ReapFault(w) \/ DrainEnds(w) \/ ClaimFault(w) \/ ClaimReplyLost(w)
        PROVE  RefinesStep(j)
    BY <1>2, <2>2 DEF ReapFault, DrainEnds, ClaimFault, ClaimReplyLost, tableVars, historyVars
  <2>3. ASSUME NEW w \in Workers, NEW skipped \in SUBSET Lockable(w),
               NEW S \in Batches(w, skipped), Claim(w, S)
        PROVE  RefinesStep(j)
    <3>1. runs' = runs /\ returned' = returned
      BY <2>3 DEF Claim, historyVars
    <3>2. CASE j \in S
      <4>1. /\ jobs[j].status \in Active
            /\ jobs'[j].status = "running"
            /\ issued'[j] = issued[j] + 1
        BY <2>3, <3>2 DEF Claim, Claimed, Batches, Claimable, Active
      <4> QED BY <3>1, <4>1 DEF RefinesStep, SameHistory
    <3>3. CASE j \notin S
      BY <2>3, <3>1, <3>3 DEF Claim, RefinesStep, SamePhase, SameHistory
    <3> QED BY <3>2, <3>3
  <2>4. ASSUME NEW w \in Workers, Start(w) PROVE RefinesStep(j)
    <3>1. UNCHANGED <<jobs, issued, returned>> /\ runs'[j] \in {runs[j], runs[j] + 1}
      BY <2>4 DEF Start, tableVars
    <3>2. runs'[j] + Cardinality(Unstarted(j)') <= jobs'[j].attempts
      BY NextAccounts, <1>1
    <3>3. runs'[j] <= MaxAttempts
      <4>1. Cardinality(Unstarted(j)') \in Nat
        BY CountingUnstarted, Unstarted(j)' \in SUBSET Workers, FS_Subset, FS_CardinalityType,
           PollerAssumption DEF Unstarted
      <4> QED BY <1>1, <3>2, <4>1, QueueAssumption DEF TypeOK, Row
    <3> QED BY <1>1, <3>1, <3>3, QueueAssumption DEF RefinesStep, SamePhase, SameHistory, TypeOK
  <2> QED BY <1>5, <2>1, <2>2, <2>3, <2>4 DEF SweepNext
<1>6. CASE TaskNext
  BY <1>6, TaskRefines DEF TaskNext
<1>7. CASE ProcessNext
  BY <1>2, <1>7 DEF ProcessNext, Stop, Crash, Exit, Die, Restart, tableVars, historyVars
<1>8. CASE Tick
  <2>1. jobs'[j] = Aged(jobs[j]) /\ UNCHANGED <<issued, runs, returned>>
    BY <1>8 DEF Tick, historyVars
  <2> QED BY <1>3, <2>1, RowsRefine, RowStepRefines DEF SameHistory
<1>9. CASE UNCHANGED vars
  BY <1>2, <1>9 DEF vars, tableVars, historyVars
<1> QED BY <1>4, <1>5, <1>6, <1>7, <1>8, <1>9 DEF Next

\* The table with its workers, crashes and clocks implements LeasedWork: only
\* the newest grant decides, and only after an execution under it ended well.
THEOREM QueueImplementsContract == Spec => ImplementsLeasedWork
<1>1. Init => Contract!AInit
  BY DEF Init, Contract!AInit, AbsentRow, Unclaimed, Phase, NoToken
<1>2. CInv /\ CInv' /\ [Next]_vars => [Contract!ANext]_Contract!avars
  <2> SUFFICES ASSUME CInv, CInv', [Next]_vars PROVE Contract!ANext
    OBVIOUS
  <2> QED BY NextRefines, RefinesStepMaps DEF CInv, IInv, Contract!ANext
<1> QED BY <1>1, <1>2, CInvHolds, PTL DEF Spec, ImplementsLeasedWork, Contract!LeasedWorkSpec
=============================================================================
