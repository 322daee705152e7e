------------------------- MODULE PipelineRunProofs -------------------------
(***************************************************************************)
(* RunTellsTheTruth holds of every instance of PipelineRun: any stages and *)
(* dependents, any number of workers, attempts and crashes, any leases.    *)
(*                                                                         *)
(* What an execution may rely on is said of its record, in four parts: of  *)
(* its claim, of the stages behind it, of the stage it is at, and of the   *)
(* rows while it holds the job.  What a statement does to the job's row    *)
(* (RowTyping, RowsQuiet) is as in JobsPollerProofs.                       *)
(***************************************************************************)
EXTENDS PipelineRun, TLAPS

\* Every statement of jobs.repository.ts leaves a well-formed row: the attempts
\* stay within max_attempts (the guard of the claim), the delays within bounds.
LEMMA RowTyping ==
  ASSUME NEW r \in Row, NEW t \in Nat, NEW d \in 0..MaxDelay, NEW a \in 0..Skew
  PROVE  /\ Enqueued(d) \in Row
         /\ Claimable(r) => Claimed(r, t) \in Row
         /\ Completed(r, t) \in Row
         /\ Retried(r, t, d) \in Row
         /\ Failed(r, t) \in Row
         /\ Heartbeat(r, t) \in Row
         /\ Released(r, t, a) \in Row
         /\ Reaped(r, a) \in Row
         /\ Aged(r) \in Row
<1> USE QueueAssumption DEF Row, Statuses, NoToken
<1>1. Enqueued(d) \in Row
  BY DEF Enqueued, Unclaimed
<1>2. Claimable(r) => Claimed(r, t) \in Row
  BY DEF Claimable, Claimed, Exhausted
<1>3. Completed(r, t) \in Row
  BY DEF Completed, Holds, Unclaimed
<1>4. Retried(r, t, d) \in Row
  BY DEF Retried, Holds, Unclaimed, Exhausted
<1>5. Failed(r, t) \in Row
  BY DEF Failed, Holds, Unclaimed
<1>6. Heartbeat(r, t) \in Row
  BY DEF Heartbeat, Holds
<1>7. Released(r, t, a) \in Row
  BY DEF Released, Holds, Unclaimed
<1>8. Reaped(r, a) \in Row
  BY DEF Reaped, Expired, Unclaimed, Exhausted
<1>9. Aged(r) \in Row
  BY DEF Aged, Sooner
<1> QED BY <1>1, <1>2, <1>3, <1>4, <1>5, <1>6, <1>7, <1>8, <1>9

\* r and s are a row before and after a statement that draws no token.
QuietRow(r, s) ==
  /\ s.status = "running" =>
       r.status = "running" /\ s.token = r.token /\ s.attempts = r.attempts
  /\ s.status # "running" => s.token = NoToken
  /\ s.status \in Active => r.status \in Active

\* The statements that end or extend a claim are quiet on the row.
LEMMA RowsQuiet ==
  ASSUME NEW r \in Row, NEW t \in Nat, NEW d, NEW a,
         (r.status = "running") <=> (r.token # NoToken)
  PROVE  \A s \in {r, Completed(r, t), Retried(r, t, d), Failed(r, t), Heartbeat(r, t),
                   Released(r, t, a), Reaped(r, a), Aged(r)} : QuietRow(r, s)
<1> USE DEF QuietRow, Active
<1>1. QuietRow(r, r)
  OBVIOUS
<1>2. QuietRow(r, Completed(r, t)) /\ QuietRow(r, Failed(r, t))
  BY DEF Completed, Failed, Holds, Unclaimed
<1>3. QuietRow(r, Retried(r, t, d))
  BY DEF Retried, Holds, Unclaimed
<1>4. QuietRow(r, Heartbeat(r, t))
  BY DEF Heartbeat, Row
<1>5. QuietRow(r, Released(r, t, a))
  BY DEF Released, Holds, Unclaimed
<1>6. QuietRow(r, Reaped(r, a))
  BY DEF Reaped, Expired, Unclaimed
<1>7. QuietRow(r, Aged(r))
  BY DEF Aged
<1> QED BY <1>1, <1>2, <1>3, <1>4, <1>5, <1>6, <1>7

-----------------------------------------------------------------------------
AtStage == {"starting", "working", "recording_success", "recording_failure", "recording_skip"}
Placed == AtStage \cup {"choosing", "settling"}

\* An execution's snapshot of the attempts is current as long as its claim is.
ClaimSound(e, r) ==
  /\ e.at = "retrying" => ~e.exhausted
  /\ e.at # "none" /\ Holds(r, e.token) => (e.exhausted <=> Exhausted(r))

\* Without a failure the stages behind an execution have been worked.
BehindSound(e, did) ==
  e.at \in InHandler =>
    /\ e.syncFailed => e.anyFailed
    /\ e.done \subseteq did
    /\ ~e.anyFailed => \A i \in 1..(e.pos - 1) : Stages[i] \in did
    /\ ~e.syncFailed => \A i \in 1..(e.pos - 1) : Stages[i] = SyncStage => SyncStage \in did

\* The stage an execution is at is not done; what is recorded of it is so.
StageSound(e, did) ==
  /\ e.at \in {"loading", "reopening"} => e.pos = 1
  /\ e.at = "settling" => e.pos > Len(Stages)
  /\ e.at \in AtStage =>
       /\ e.pos <= Len(Stages)
       /\ Stages[e.pos] \notin e.done
       /\ e.at = "working" /\ Stages[e.pos] \in Dependents => ~e.syncFailed
       /\ e.at = "recording_success" => Stages[e.pos] \in did
       /\ e.at = "recording_skip" => e.syncFailed /\ Stages[e.pos] # SyncStage
       /\ e.at = "recording_failure" => e.anyFailed /\ (Stages[e.pos] = SyncStage => e.syncFailed)

\* While the job is held nobody else finishes the run, nor writes a step unless
\* overrun says so.
HoldSound(e, r, rn, st, over) ==
  e.at # "none" /\ Holds(r, e.token) =>
    /\ e.at = "completing" => rn \in RunSettled
    /\ ~over =>
         /\ e.at \in InHandler => \A s \in e.done : st[s] = "success"
         /\ e.at \in Placed =>
              /\ rn # "success"
              /\ ~e.anyFailed => \A i \in 1..(e.pos - 1) : st[Stages[i]] = "success"

ExecSound(e, r, rn, st, did, over) ==
  /\ ClaimSound(e, r)
  /\ BehindSound(e, did)
  /\ StageSound(e, did)
  /\ HoldSound(e, r, rn, st, over)

ExecsSound == \A w \in Workers : ExecSound(exec[w], job, run, steps, worked, overrun)

\* No two executions hold one token.
TokensTold ==
  /\ (job.status = "running") <=> (job.token # NoToken)
  /\ \A w \in Workers : exec[w].at # "none" => exec[w].token \in 1..issued
  /\ \A v, w \in Workers :
       v # w /\ exec[v].at # "none" /\ exec[w].at # "none" => exec[v].token # exec[w].token

\* A requested job has its run, and a step's success its work.
RowsSound ==
  /\ job.status # "absent" => run # "none"
  /\ \A s \in StageSet : steps[s] = "success" => s \in worked

IInv ==
  /\ TypeOK
  /\ TokensTold
  /\ RowsSound
  /\ ExecsSound
  /\ RunEndsWithJob
  /\ SuccessIsReal
-----------------------------------------------------------------------------
(* What moves do to a sound execution. *)

\* Names for the parts of the assumption.
LEMMA StagesAre ==
  /\ Len(Stages) \in Nat
  /\ \A i \in 1..Len(Stages) : Stages[i] \in StageSet
  /\ \A s \in StageSet : \E i \in 1..Len(Stages) : Stages[i] = s
  /\ \A i, j \in 1..Len(Stages) : Stages[i] = Stages[j] => i = j
BY PipelineAssumption DEF StageSet

\* A claim that is still held is the one it was.
LEMMA ClaimKept ==
  ASSUME NEW e, NEW f, NEW r, NEW s, ClaimSound(e, r), QuietRow(r, s),
         f.at # "none" => e.at # "none" /\ f.token = e.token /\ f.exhausted = e.exhausted,
         f.at = "retrying" => ~f.exhausted
  PROVE  /\ ClaimSound(f, s)
         /\ f.at # "none" /\ Holds(s, f.token) => Holds(r, e.token)
BY DEF ClaimSound, QuietRow, Holds, Exhausted

\* An execution stays sound while others work, as long as they leave alone what
\* belongs to the one that holds the job.
LEMMA SoundKept ==
  ASSUME NEW e, NEW r, NEW rn, NEW st, NEW did, NEW over, ExecSound(e, r, rn, st, did, over),
         NEW r2, NEW rn2, NEW st2, NEW did2, NEW over2,
         QuietRow(r, r2), did \subseteq did2, over => over2,
         e.at # "none" /\ Holds(r2, e.token) => rn2 = rn /\ (over2 \/ st2 = st)
  PROVE  ExecSound(e, r2, rn2, st2, did2, over2)
<1>1. ClaimSound(e, r2) /\ (e.at # "none" /\ Holds(r2, e.token) => Holds(r, e.token))
  BY ClaimKept DEF ExecSound, ClaimSound
<1>2. BehindSound(e, did2)
  BY DEF ExecSound, BehindSound
<1>3. StageSound(e, did2)
  BY DEF ExecSound, StageSound
<1>4. HoldSound(e, r2, rn2, st2, over2)
  BY <1>1 DEF ExecSound, HoldSound
<1> QED BY <1>1, <1>2, <1>3, <1>4 DEF ExecSound

\* Out of the handler, nothing rests on the rows any more.
LEMMA OutsideSound ==
  ASSUME NEW e, NEW r, ClaimSound(e, r), e.at \in {"none", "retrying", "failing"},
         NEW rn, NEW st, NEW did, NEW over
  PROVE  ExecSound(e, r, rn, st, did, over)
BY DEF ExecSound, BehindSound, StageSound, HoldSound, InHandler, Placed, AtStage

\* An error ends the execution, or leaves the poller to retry or give up.
LEMMA ThrownIs ==
  ASSUME NEW e \in Exec, e.at # "none"
  PROVE  /\ Thrown(e) \in Exec
         /\ Thrown(e).at \in {"none", "retrying", "failing"}
         /\ Thrown(e).at # "none" => Thrown(e).token = e.token /\ Thrown(e).exhausted = e.exhausted
         /\ Thrown(e).at = "retrying" => ~e.exhausted
<1>1. NotExecuting \in Exec /\ NotExecuting.at = "none"
  BY StagesAre DEF NotExecuting, Exec, NoToken
<1>2. CASE e.aborted
  BY <1>1, <1>2 DEF Thrown
<1>3. CASE ~e.aborted /\ e.exhausted
  <2>1. Thrown(e) = [e EXCEPT !.at = "failing"]
    BY <1>3 DEF Thrown
  <2> QED BY <2>1 DEF Exec, InPoller
<1>4. CASE ~e.aborted /\ ~e.exhausted
  <2>1. Thrown(e) = [e EXCEPT !.at = "retrying"]
    BY <1>4 DEF Thrown
  <2> QED BY <1>4, <2>1 DEF Exec, InPoller
<1> QED BY <1>2, <1>3, <1>4

\* An error leaves a sound execution, whatever became of the rows.
LEMMA ThrownSound ==
  ASSUME NEW e \in Exec, e.at # "none", NEW r, NEW s, ClaimSound(e, r), QuietRow(r, s),
         NEW rn, NEW st, NEW did, NEW over
  PROVE  ExecSound(Thrown(e), s, rn, st, did, over)
<1>1. ClaimSound(Thrown(e), s)
  BY ThrownIs, ClaimKept
<1> QED BY <1>1, ThrownIs, OutsideSound

\* An execution may move to a place whose conditions hold.
LEMMA Relabelled ==
  ASSUME NEW e \in Exec, NEW r, NEW rn, NEW st, NEW did, NEW over,
         ExecSound(e, r, rn, st, did, over), e.at \in Placed,
         NEW p \in Placed, StageSound([e EXCEPT !.at = p], did)
  PROVE  LET f == [e EXCEPT !.at = p] IN
         f \in Exec /\ f.at = p /\ f.token = e.token /\ ExecSound(f, r, rn, st, did, over)
<1> DEFINE f == [e EXCEPT !.at = p]
<1>1. /\ f \in Exec /\ f.at = p /\ f.token = e.token /\ f.pos = e.pos /\ f.done = e.done
      /\ f.exhausted = e.exhausted /\ f.anyFailed = e.anyFailed /\ f.syncFailed = e.syncFailed
  BY DEF Exec, Placed, AtStage, InHandler
<1>2. /\ p \in InHandler /\ p # "none" /\ p # "retrying" /\ p # "completing"
      /\ e.at \in InHandler /\ e.at # "none"
  BY DEF Placed, AtStage, InHandler
<1>3. StageSound(f, did)
  OBVIOUS
<1> HIDE DEF f
<1>4. ClaimSound(f, r)
  BY <1>1, <1>2 DEF ExecSound, ClaimSound
<1>5. BehindSound(f, did)
  BY <1>1, <1>2 DEF ExecSound, BehindSound
<1>6. HoldSound(f, r, rn, st, over)
  BY <1>1, <1>2 DEF ExecSound, HoldSound
<1> QED BY <1>1, <1>3, <1>4, <1>5, <1>6 DEF ExecSound, f

\* A stage that is worked, done or failed is left behind.
LEMMA AfterStage ==
  ASSUME NEW e \in Exec, NEW r, NEW rn, NEW st, NEW did, NEW over,
         ExecSound(e, r, rn, st, did, over), e.at \in Placed, e.pos <= Len(Stages),
         ~e.anyFailed => /\ Stages[e.pos] \in did
                         /\ Holds(r, e.token) /\ ~over => st[Stages[e.pos]] = "success",
         Stages[e.pos] = SyncStage => e.syncFailed \/ SyncStage \in did
  PROVE  LET f == Next1(e) IN
         f \in Exec /\ f.at = "choosing" /\ f.token = e.token /\ ExecSound(f, r, rn, st, did, over)
<1> DEFINE f == Next1(e)
<1>1. e.pos \in Nat /\ e.pos >= 1
  BY DEF Exec
<1>2. /\ f \in Exec /\ f.at = "choosing" /\ f.token = e.token /\ f.pos = e.pos + 1 /\ f.done = e.done
      /\ f.exhausted = e.exhausted /\ f.anyFailed = e.anyFailed /\ f.syncFailed = e.syncFailed
  <2>1. e.pos + 1 \in 1..(Len(Stages) + 1)
    BY <1>1, StagesAre
  <2>2. \A p \in 1..(Len(Stages) + 1) :
          LET g == [e EXCEPT !.at = "choosing", !.pos = p] IN
          /\ g \in Exec /\ g.at = "choosing" /\ g.token = e.token /\ g.pos = p /\ g.done = e.done
          /\ g.exhausted = e.exhausted /\ g.anyFailed = e.anyFailed /\ g.syncFailed = e.syncFailed
    BY DEF Exec, InHandler
  <2> QED BY <2>1, <2>2 DEF Next1
<1>3. e.at \in InHandler /\ e.at # "none" /\ f.at \in Placed /\ f.at \in InHandler
  BY <1>2 DEF Placed, AtStage, InHandler
<1> HIDE DEF f
<1>4. \A i \in 1..(f.pos - 1) : i \in 1..(e.pos - 1) \/ i = e.pos
  BY <1>1, <1>2
<1>5. ClaimSound(f, r)
  BY <1>2, <1>3 DEF ExecSound, ClaimSound
<1>6. BehindSound(f, did)
  BY <1>2, <1>3, <1>4 DEF ExecSound, BehindSound
<1>7. StageSound(f, did)
  BY <1>2 DEF StageSound, AtStage
<1>8. HoldSound(f, r, rn, st, over)
  BY <1>2, <1>3, <1>4 DEF ExecSound, HoldSound
<1> QED BY <1>2, <1>5, <1>6, <1>7, <1>8 DEF ExecSound, f

\* Nothing rests on the signal.
LEMMA AbortedSound ==
  ASSUME NEW e \in Exec, NEW r, NEW rn, NEW st, NEW did, NEW over,
         ExecSound(e, r, rn, st, did, over), NEW b \in BOOLEAN
  PROVE  LET f == [e EXCEPT !.aborted = b] IN
         f \in Exec /\ f.at = e.at /\ f.token = e.token /\ ExecSound(f, r, rn, st, did, over)
<1> DEFINE f == [e EXCEPT !.aborted = b]
<1>1. /\ f \in Exec /\ f.at = e.at /\ f.token = e.token /\ f.pos = e.pos /\ f.done = e.done
      /\ f.exhausted = e.exhausted /\ f.anyFailed = e.anyFailed /\ f.syncFailed = e.syncFailed
  BY DEF Exec
<1> HIDE DEF f
<1>2. ClaimSound(f, r) /\ BehindSound(f, did)
  BY <1>1 DEF ExecSound, ClaimSound, BehindSound
<1>3. StageSound(f, did) /\ HoldSound(f, r, rn, st, over)
  BY <1>1 DEF ExecSound, StageSound, HoldSound
<1> QED BY <1>1, <1>2, <1>3 DEF ExecSound, f

\* A failed stage is noted before it is left behind.
LEMMA FailedSound ==
  ASSUME NEW e \in Exec, NEW r, NEW rn, NEW st, NEW did, NEW over,
         ExecSound(e, r, rn, st, did, over), e.at \in {"working", "recording_success"},
         NEW f \in Exec, f.at = "recording_failure", f.token = e.token, f.exhausted = e.exhausted,
         f.pos = e.pos, f.done = e.done, f.anyFailed, e.syncFailed => f.syncFailed,
         Stages[e.pos] = SyncStage => f.syncFailed
  PROVE  ExecSound(f, r, rn, st, did, over)
<1>1. /\ e.at \in InHandler /\ e.at # "none" /\ e.at \in AtStage /\ e.at \in Placed
  BY DEF Placed, AtStage, InHandler
<1>2. ClaimSound(f, r)
  BY <1>1 DEF ExecSound, ClaimSound
<1>3. BehindSound(f, did)
  BY <1>1 DEF ExecSound, BehindSound
<1>4. StageSound(f, did)
  BY <1>1 DEF ExecSound, StageSound
<1>5. HoldSound(f, r, rn, st, over)
  BY <1>1 DEF ExecSound, HoldSound
<1> QED BY <1>2, <1>3, <1>4, <1>5 DEF ExecSound

\* What an execution writes of the stage it is at is neither done nor behind it.
LEMMA WrittenSound ==
  ASSUME NEW e \in Exec, NEW r, NEW rn, NEW st \in [StageSet -> StepStatus], NEW did, NEW over,
         ExecSound(e, r, rn, st, did, over), e.at \in AtStage,
         NEW x, NEW over2, over => over2
  PROVE  ExecSound(e, r, rn, [st EXCEPT ![Stages[e.pos]] = x], did, over2)
<1> DEFINE st2 == [st EXCEPT ![Stages[e.pos]] = x]
<1>1. /\ e.pos \in Nat /\ e.pos >= 1 /\ e.pos <= Len(Stages) /\ Stages[e.pos] \notin e.done
      /\ e.done \subseteq StageSet
  BY StagesAre DEF ExecSound, StageSound, Exec
<1>2. \A s \in e.done : st2[s] = st[s]
  BY <1>1
<1>3. \A i \in 1..(e.pos - 1) : st2[Stages[i]] = st[Stages[i]]
  <2>1. TAKE i \in 1..(e.pos - 1)
  <2>2. i \in 1..Len(Stages) /\ e.pos \in 1..Len(Stages) /\ i # e.pos
    BY <1>1, StagesAre
  <2>3. Stages[i] \in StageSet /\ Stages[i] # Stages[e.pos]
    BY <2>2, StagesAre
  <2> QED BY <2>3
<1> HIDE DEF st2
<1>4. HoldSound(e, r, rn, st2, over2)
  BY <1>2, <1>3 DEF ExecSound, HoldSound
<1> QED BY <1>4 DEF ExecSound, st2
-----------------------------------------------------------------------------
(* What moves do to the invariant. *)

\* The types of a move of w.
LEMMA MoveTypes ==
  ASSUME IInv, NEW w \in Workers, NEW f \in Exec, exec' = [exec EXCEPT ![w] = f],
         job' \in Row, issued' \in Nat, run' \in {"none", "running"} \cup RunSettled,
         steps' \in [StageSet -> StepStatus], crashes' \in 0..MaxCrashes,
         worked' \subseteq StageSet, gaveUp' \in BOOLEAN, overrun' \in BOOLEAN
  PROVE  /\ TypeOK' /\ exec'[w] = f
         /\ \A v \in Workers : v # w => exec'[v] = exec[v]
BY DEF IInv, TypeOK

\* w moves; the rest is what nobody else relies on.
LEMMA MoveKeeps ==
  ASSUME IInv, NEW w \in Workers, NEW f, TypeOK', exec'[w] = f,
         \A v \in Workers : v # w => exec'[v] = exec[v],
         f.at # "none" => exec[w].at # "none" /\ f.token = exec[w].token,
         issued' = issued, QuietRow(job, job'), worked \subseteq worked', overrun => overrun',
         \/ exec[w].at # "none" /\ Holds(job, exec[w].token)
         \/ run' = run /\ (overrun' \/ steps' = steps),
         ExecSound(f, job', run', steps', worked', overrun')
  PROVE  TokensTold' /\ ExecsSound'
<1> USE DEF IInv
<1>1. \A v \in Workers : exec'[v].at # "none" => exec[v].at # "none" /\ exec'[v].token = exec[v].token
  OBVIOUS
<1>2. (job'.status = "running") <=> (job'.token # NoToken)
  BY DEF QuietRow, TokensTold
<1>3. TokensTold'
  BY <1>1, <1>2 DEF TokensTold
<1>4. ASSUME NEW v \in Workers
      PROVE  ExecSound(exec'[v], job', run', steps', worked', overrun')
  <2>1. CASE v = w
    BY <2>1
  <2>2. CASE v # w
    <3>1. ExecSound(exec[v], job, run, steps, worked, overrun)
      BY DEF ExecsSound
    <3>2. exec[v].at # "none" /\ Holds(job', exec[v].token) =>
            run' = run /\ (overrun' \/ steps' = steps)
      BY <2>2 DEF TokensTold, Holds, QuietRow
    <3>3. ExecSound(exec[v], job', run', steps', worked', overrun')
      BY <3>1, <3>2, SoundKept
    <3> QED BY <2>2, <3>3
  <2> QED BY <2>1, <2>2
<1> QED BY <1>3, <1>4 DEF ExecsSound

\* A move that leaves the job and the run alone.
LEMMA StepKeeps ==
  ASSUME IInv, NEW w \in Workers, NEW f \in Exec, exec' = [exec EXCEPT ![w] = f],
         exec[w].at # "none", f.at # "none" => f.token = exec[w].token,
         UNCHANGED <<job, issued, run, gaveUp>>, crashes' \in 0..MaxCrashes,
         worked \subseteq worked', worked' \subseteq StageSet,
         overrun' \in BOOLEAN, overrun => overrun',
         steps' \in [StageSet -> StepStatus], \A s \in StageSet : steps'[s] = "success" => s \in worked',
         steps' = steps \/ overrun' \/ (exec[w].at \in AtStage /\ Holds(job, exec[w].token)),
         ExecSound(f, job, run, steps', worked', overrun')
  PROVE  IInv'
<1> USE DEF IInv
<1>1. QuietRow(job, job) /\ job \in Row /\ issued \in Nat
  BY DEF TypeOK, QuietRow, TokensTold
<1>2. /\ TypeOK' /\ exec'[w] = f
      /\ \A v \in Workers : v # w => exec'[v] = exec[v]
  BY <1>1, MoveTypes DEF TypeOK
<1>3. TokensTold' /\ ExecsSound'
  BY <1>1, <1>2, MoveKeeps
<1>4. RowsSound' /\ RunEndsWithJob'
  BY DEF RowsSound, RunEndsWithJob
<1>5. ASSUME run = "success", ~overrun'
      PROVE  steps' = steps
  <2>1. exec[w].at \in AtStage /\ Holds(job, exec[w].token) => run # "success"
    BY <1>5 DEF ExecsSound, ExecSound, HoldSound, Placed
  <2> QED BY <1>5, <2>1
<1>6. SuccessIsReal'
  <2>1. run = "success" => worked' = StageSet
    BY DEF SuccessIsReal
  <2>2. run = "success" /\ ~overrun' => \A s \in StageSet : steps'[s] = "success"
    BY <1>5 DEF SuccessIsReal
  <2> QED BY <1>2, <2>1, <2>2 DEF SuccessIsReal
<1> QED BY <1>2, <1>3, <1>4, <1>6

\* What the invariant says of one execution.
LEMMA WorkerIs ==
  ASSUME IInv, NEW w \in Workers
  PROVE  /\ exec[w] \in Exec /\ ExecSound(exec[w], job, run, steps, worked, overrun)
         /\ QuietRow(job, job) /\ job \in Row /\ exec \in [Workers -> Exec]
         /\ steps \in [StageSet -> StepStatus] /\ worked \subseteq StageSet
         /\ overrun \in BOOLEAN /\ crashes \in 0..MaxCrashes
         /\ \A s \in StageSet : steps[s] = "success" => s \in worked
BY DEF IInv, TypeOK, ExecsSound, QuietRow, TokensTold, RowsSound

\* The end of a move, where checkCancelled looks at the signal.
LEMMA CheckedKeeps ==
  ASSUME IInv, NEW w \in Workers, NEW e \in Exec, Checked(w, e),
         exec[w].at # "none", e.at # "none", e.token = exec[w].token,
         UNCHANGED <<job, issued, run, crashes, gaveUp>>,
         worked \subseteq worked', worked' \subseteq StageSet,
         overrun' \in BOOLEAN, overrun => overrun',
         steps' \in [StageSet -> StepStatus], \A s \in StageSet : steps'[s] = "success" => s \in worked',
         steps' = steps \/ overrun' \/ (exec[w].at \in AtStage /\ Holds(job, exec[w].token)),
         ExecSound(e, job, run, steps', worked', overrun')
  PROVE  IInv'
<1>1. crashes' \in 0..MaxCrashes
  BY WorkerIs
<1>2. CASE e.aborted
  <2>1. exec' = [exec EXCEPT ![w] = Thrown(e)]
    BY <1>2 DEF Checked
  <2>2. ExecSound(Thrown(e), job, run, steps', worked', overrun')
    BY WorkerIs, ThrownSound DEF ExecSound
  <2>3. Thrown(e) \in Exec /\ (Thrown(e).at # "none" => Thrown(e).token = exec[w].token)
    BY ThrownIs
  <2> QED BY <1>1, <2>1, <2>2, <2>3, StepKeeps
<1>3. CASE ~e.aborted
  <2>1. exec' = [exec EXCEPT ![w] = e]
    BY <1>3 DEF Checked
  <2> QED BY <1>1, <2>1, StepKeeps
<1> QED BY <1>2, <1>3

\* Only the execution moves.
LEMMA ExecMoves ==
  ASSUME IInv, NEW w \in Workers, NEW f \in Exec, exec' = [exec EXCEPT ![w] = f],
         exec[w].at # "none", f.at # "none" => f.token = exec[w].token,
         UNCHANGED <<job, issued, run, steps, history>>, crashes' \in 0..MaxCrashes,
         ExecSound(f, job, run, steps, worked, overrun)
  PROVE  IInv'
<1>1. UNCHANGED <<worked, gaveUp, overrun>>
  BY DEF history
<1> QED BY <1>1, WorkerIs, StepKeeps

\* Whatever checkCancelled finds, a sound execution follows.
LEMMA ExecIsChecked ==
  ASSUME IInv, NEW w \in Workers, NEW e \in Exec, Checked(w, e),
         exec[w].at # "none", e.at # "none", e.token = exec[w].token,
         UNCHANGED <<job, issued, run, steps, crashes, history>>,
         ExecSound(e, job, run, steps, worked, overrun)
  PROVE  IInv'
<1>1. UNCHANGED <<worked, gaveUp, overrun>>
  BY DEF history
<1> QED BY <1>1, WorkerIs, CheckedKeeps

\* An error leaves the handler, or the process dies, wherever it is.
LEMMA LeavingKeeps ==
  ASSUME IInv, NEW w \in Workers, StatementFault(w) \/ OutcomeFault(w) \/ Crash(w) \/ Abort(w)
  PROVE  IInv'
<1> DEFINE e == exec[w]
<1>1. /\ e \in Exec /\ e.at # "none" /\ UNCHANGED <<job, issued, run, steps, history>>
      /\ crashes' \in 0..MaxCrashes
  BY WorkerIs, PipelineAssumption DEF StatementFault, OutcomeFault, Crash, Abort, Exec
<1>2. CASE exec' = [exec EXCEPT ![w] = NotExecuting]
  <2>1. NotExecuting \in Exec /\ NotExecuting.at = "none" /\ NotExecuting.at # "retrying"
    BY StagesAre DEF NotExecuting, Exec, NoToken
  <2>2. ExecSound(NotExecuting, job, run, steps, worked, overrun)
    BY <2>1, OutsideSound DEF ClaimSound
  <2> QED BY <1>1, <1>2, <2>1, <2>2, ExecMoves
<1>3. CASE Throw(w)
  <2>1. ExecSound(Thrown(e), job, run, steps, worked, overrun)
    BY <1>1, WorkerIs, ThrownSound DEF ExecSound
  <2> QED BY <1>1, <1>3, <2>1, ThrownIs, ExecMoves DEF Throw
<1>4. CASE exec' = [exec EXCEPT ![w].aborted = TRUE]
  <2> DEFINE f == [e EXCEPT !.aborted = TRUE]
  <2>1. exec' = [exec EXCEPT ![w] = f]
    BY <1>4
  <2>2. f \in Exec /\ f.at = e.at /\ f.token = e.token /\ ExecSound(f, job, run, steps, worked, overrun)
    BY <1>1, WorkerIs, AbortedSound
  <2> HIDE DEF f
  <2> QED BY <1>1, <2>1, <2>2, ExecMoves
<1> QED BY <1>2, <1>3, <1>4 DEF StatementFault, OutcomeFault, Crash, Abort

\* The steps that are recorded as done were worked, and stay so.
LEMMA LoadKeeps ==
  ASSUME IInv, NEW w \in Workers, LoadSteps(w)
  PROVE  IInv'
<1> DEFINE e == exec[w]
           place == IF \A s \in StageSet : steps[s] = "absent" THEN "choosing" ELSE "reopening"
           f == [e EXCEPT !.at = place, !.done = DoneSteps]
<1>1. e \in Exec /\ e.at = "loading" /\ e.pos = 1
  <2>1. ExecSound(e, job, run, steps, worked, overrun) /\ e \in Exec
    BY WorkerIs
  <2> QED BY <2>1 DEF LoadSteps, ExecSound, StageSound
<1>2. exec' = [exec EXCEPT ![w] = f]
  BY WorkerIs DEF LoadSteps
<1>3. place \in {"choosing", "reopening"} /\ DoneSteps \subseteq StageSet
  BY DEF DoneSteps
<1>4. place = "choosing" /\ ~overrun => run # "success"
  BY PipelineAssumption DEF IInv, SuccessIsReal
<1> HIDE DEF place
<1>5. /\ f \in Exec /\ f.at = place /\ f.token = e.token /\ f.pos = 1 /\ f.done = DoneSteps
      /\ f.exhausted = e.exhausted /\ f.anyFailed = e.anyFailed /\ f.syncFailed = e.syncFailed
  BY <1>1, <1>3 DEF Exec, InHandler
<1> HIDE DEF f
<1>6. ExecSound(f, job, run, steps, worked, overrun)
  <2>1. ExecSound(e, job, run, steps, worked, overrun) /\ e.at \in InHandler /\ e.at # "none"
    BY <1>1, WorkerIs DEF InHandler
  <2>2. \A i \in 1..(f.pos - 1) : FALSE
    BY <1>5
  <2> HIDE DEF e
  <2>3. ClaimSound(f, job)
    BY <1>3, <1>5, <2>1 DEF ExecSound, ClaimSound
  <2>4. BehindSound(f, worked)
    <3>1. DoneSteps \subseteq worked
      BY WorkerIs DEF DoneSteps
    <3> QED BY <1>5, <2>1, <2>2, <3>1 DEF ExecSound, BehindSound
  <2>5. StageSound(f, worked)
    BY <1>3, <1>5 DEF StageSound, AtStage
  <2>6. HoldSound(f, job, run, steps, overrun)
    BY <1>3, <1>4, <1>5, <2>2 DEF HoldSound, DoneSteps, Placed, AtStage
  <2> QED BY <2>3, <2>4, <2>5, <2>6 DEF ExecSound
<1> QED BY <1>1, <1>2, <1>5, <1>6, WorkerIs, ExecMoves DEF LoadSteps

\* The head of the loop settles after the last stage, passes over a stage that is
\* done, or starts the next.
LEMMA ChooseKeeps ==
  ASSUME IInv, NEW w \in Workers, Choose(w)
  PROVE  IInv'
<1> DEFINE e == exec[w]
           afterLast == e.pos > Len(Stages)
<1>1. /\ e.at = "choosing" /\ e.at # "none" /\ e.at \in Placed /\ e \in Exec
      /\ ExecSound(e, job, run, steps, worked, overrun)
      /\ UNCHANGED <<job, issued, run, steps, crashes, history>>
  BY WorkerIs DEF Choose, Placed
<1>2. /\ e.pos \in Nat /\ e.done \subseteq worked
      /\ Holds(job, e.token) /\ ~overrun => \A s \in e.done : steps[s] = "success"
  BY <1>1 DEF Exec, ExecSound, BehindSound, HoldSound, InHandler
<1>3. \/ afterLast /\ Checked(w, [e EXCEPT !.at = "settling"])
      \/ ~afterLast /\ Stages[e.pos] \in e.done /\ Checked(w, Next1(e))
      \/ ~afterLast /\ Stages[e.pos] \notin e.done /\ Checked(w, [e EXCEPT !.at = "starting"])
  BY DEF Choose, StageOf
<1> HIDE DEF e
<1>4. CASE afterLast /\ Checked(w, [e EXCEPT !.at = "settling"])
  <2> DEFINE f == [e EXCEPT !.at = "settling"]
  <2>1. StageSound(f, worked)
    BY <1>1, <1>4 DEF StageSound, AtStage, Exec
  <2>2. f \in Exec /\ f.at = "settling" /\ f.token = e.token /\ ExecSound(f, job, run, steps, worked, overrun)
    BY <1>1, <2>1, Relabelled DEF Placed
  <2> HIDE DEF f
  <2> QED BY <1>1, <1>4, <2>2, ExecIsChecked DEF f, e
<1>5. CASE ~afterLast /\ Stages[e.pos] \in e.done /\ Checked(w, Next1(e))
  <2> DEFINE f == Next1(e)
  <2>1. e.pos <= Len(Stages)
    BY <1>2, <1>5, StagesAre
  <2>2. /\ Stages[e.pos] \in worked
        /\ Holds(job, e.token) /\ ~overrun => steps[Stages[e.pos]] = "success"
    BY <1>2, <1>5
  <2>3. f \in Exec /\ f.at = "choosing" /\ f.token = e.token /\ ExecSound(f, job, run, steps, worked, overrun)
    BY <1>1, <2>1, <2>2, AfterStage
  <2> HIDE DEF f
  <2> QED BY <1>1, <1>5, <2>3, ExecIsChecked DEF f, e
<1>6. CASE ~afterLast /\ Stages[e.pos] \notin e.done /\ Checked(w, [e EXCEPT !.at = "starting"])
  <2> DEFINE f == [e EXCEPT !.at = "starting"]
  <2>1. e.pos <= Len(Stages)
    BY <1>2, <1>6, StagesAre
  <2>2. StageSound(f, worked)
    BY <1>1, <1>6, <2>1 DEF StageSound, AtStage, Exec
  <2>3. f \in Exec /\ f.at = "starting" /\ f.token = e.token /\ ExecSound(f, job, run, steps, worked, overrun)
    BY <1>1, <2>2, Relabelled DEF Placed, AtStage
  <2> HIDE DEF f
  <2> QED BY <1>1, <1>6, <2>3, ExecIsChecked DEF f, e
<1> QED BY <1>3, <1>4, <1>5, <1>6

\* A statement on the row of the stage leaves its execution sound.
LEMMA WriteIs ==
  ASSUME IInv, NEW w \in Workers, NEW status \in StepStatus, WriteStep(w, status),
         exec[w].at \in AtStage, status = "success" => StageOf(w) \in worked
  PROVE  /\ exec[w] \in Exec /\ exec[w].at # "none" /\ exec[w].at \in Placed
         /\ exec[w].pos \in Nat /\ exec[w].pos <= Len(Stages) /\ StageOf(w) \in StageSet
         /\ steps' \in [StageSet -> StepStatus] /\ steps'[StageOf(w)] = status
         /\ \A s \in StageSet : steps'[s] = "success" => s \in worked
         /\ overrun' \in BOOLEAN /\ (overrun => overrun')
         /\ overrun' \/ Holds(job, exec[w].token)
         /\ worked' = worked /\ gaveUp' = gaveUp
         /\ ExecSound(exec[w], job, run, steps', worked', overrun')
<1> DEFINE e == exec[w]
<1>1. /\ e \in Exec /\ ExecSound(e, job, run, steps, worked, overrun)
      /\ steps \in [StageSet -> StepStatus] /\ overrun \in BOOLEAN
      /\ \A s \in StageSet : steps[s] = "success" => s \in worked
  BY WorkerIs
<1>2. /\ steps' = [steps EXCEPT ![Stages[e.pos]] = status]
      /\ overrun' = (overrun \/ ~Holds(job, e.token)) /\ worked' = worked /\ gaveUp' = gaveUp
  BY DEF WriteStep, StageOf
<1>3. e.pos \in Nat /\ e.pos >= 1 /\ e.pos <= Len(Stages) /\ e.at # "none" /\ e.at \in Placed
  BY <1>1 DEF Exec, ExecSound, StageSound, AtStage, Placed
<1>4. Stages[e.pos] \in StageSet
  BY <1>3, StagesAre
<1>5. overrun' \in BOOLEAN /\ (overrun => overrun') /\ (overrun' \/ Holds(job, e.token))
  BY <1>1, <1>2 DEF Holds
<1>6. ExecSound(e, job, run, steps', worked, overrun')
  <2>1. /\ e \in Exec /\ ExecSound(e, job, run, steps, worked, overrun) /\ e.at \in AtStage
        /\ steps \in [StageSet -> StepStatus] /\ (overrun => overrun')
    BY <1>1, <1>5
  <2> HIDE DEF e
  <2>2. ExecSound(e, job, run, [steps EXCEPT ![Stages[e.pos]] = status], worked, overrun')
    BY <2>1, WrittenSound
  <2> QED BY <1>2, <2>2
<1>7. /\ steps' \in [StageSet -> StepStatus] /\ steps'[Stages[e.pos]] = status
      /\ \A s \in StageSet : steps'[s] = "success" => s \in worked
  BY <1>1, <1>2, <1>4 DEF StageOf
<1> QED BY <1>1, <1>2, <1>3, <1>4, <1>5, <1>6, <1>7 DEF StageOf

\* startStep writes the stage at hand, which nobody counts as done.
LEMMA StartKeeps ==
  ASSUME IInv, NEW w \in Workers, StartStep(w)
  PROVE  IInv'
<1> DEFINE e == exec[w]
           p == IF Skips(e, Stages[e.pos]) THEN "recording_skip" ELSE "working"
           f == [e EXCEPT !.at = p]
<1>1. /\ e.at = "starting" /\ e.at \in AtStage /\ WriteStep(w, "running") /\ Checked(w, f)
      /\ UNCHANGED <<job, issued, run, crashes>>
  BY DEF StartStep, AtStage, StageOf
<1>2. /\ e \in Exec /\ e.at # "none" /\ e.at \in Placed /\ e.pos <= Len(Stages)
      /\ steps' \in [StageSet -> StepStatus]
      /\ \A s \in StageSet : steps'[s] = "success" => s \in worked
      /\ overrun' \in BOOLEAN /\ (overrun => overrun')
      /\ overrun' \/ Holds(job, e.token)
      /\ worked' = worked /\ gaveUp' = gaveUp
      /\ ExecSound(e, job, run, steps', worked', overrun')
  BY <1>1, WriteIs DEF StepStatus
<1>3. p \in {"recording_skip", "working"}
  OBVIOUS
<1>4. /\ p = "working" /\ Stages[e.pos] \in Dependents => ~e.syncFailed
      /\ p = "recording_skip" => e.syncFailed /\ Stages[e.pos] # SyncStage
  BY PipelineAssumption DEF Skips
<1> HIDE DEF p
<1>5. StageSound(f, worked')
  BY <1>1, <1>2, <1>3, <1>4 DEF ExecSound, StageSound, AtStage, Exec
<1>6. p \in Placed
  BY <1>3 DEF Placed, AtStage
<1> HIDE DEF e
<1>7. f \in Exec /\ f.at = p /\ f.token = e.token /\ ExecSound(f, job, run, steps', worked', overrun')
  BY <1>2, <1>5, <1>6, Relabelled
<1> HIDE DEF f
<1>8. f.at # "none"
  BY <1>3, <1>7
<1>9. worked \subseteq worked' /\ worked' \subseteq StageSet
  BY <1>2, WorkerIs
<1> QED BY <1>1, <1>2, <1>7, <1>8, <1>9, CheckedKeeps DEF e

\* The end of a stage, recorded as what it was.
LEMMA FinishKeeps ==
  ASSUME IInv, NEW w \in Workers, FinishSkipped(w) \/ FinishSuccess(w) \/ FinishFailed(w)
  PROVE  IInv'
<1> DEFINE e == exec[w]
           f == Next1(e)
<1>1. ExecSound(e, job, run, steps, worked, overrun) /\ e.at \in AtStage /\ e.at \in InHandler
  BY WorkerIs DEF FinishSkipped, FinishSuccess, FinishFailed, AtStage, InHandler
<1>2. PICK status \in {"skipped", "success", "failed"} :
        /\ WriteStep(w, status)
        /\ status = "skipped" => e.at = "recording_skip"
        /\ status = "success" => e.at = "recording_success"
        /\ status = "failed" => e.at = "recording_failure"
  BY DEF FinishSkipped, FinishSuccess, FinishFailed
<1>3. /\ exec' = [exec EXCEPT ![w] = f] /\ UNCHANGED <<job, issued, run, crashes>>
  BY DEF FinishSkipped, FinishSuccess, FinishFailed
<1>4. /\ status = "success" => Stages[e.pos] \in worked
      /\ status # "success" => e.anyFailed
      /\ Stages[e.pos] = SyncStage => e.syncFailed \/ SyncStage \in worked
  BY <1>1, <1>2 DEF ExecSound, StageSound, BehindSound
<1>5. /\ e \in Exec /\ e.at # "none" /\ e.at \in Placed /\ e.pos <= Len(Stages)
      /\ steps' \in [StageSet -> StepStatus] /\ steps'[Stages[e.pos]] = status
      /\ \A s \in StageSet : steps'[s] = "success" => s \in worked
      /\ overrun' \in BOOLEAN /\ (overrun => overrun')
      /\ overrun' \/ Holds(job, e.token)
      /\ worked' = worked /\ gaveUp' = gaveUp
      /\ ExecSound(e, job, run, steps', worked', overrun')
  <2>1. status \in StepStatus /\ (status = "success" => StageOf(w) \in worked)
    BY <1>4 DEF StepStatus, StageOf
  <2> QED BY <1>1, <1>2, <2>1, WriteIs DEF StageOf
<1> HIDE DEF e
<1>6. f \in Exec /\ f.at = "choosing" /\ f.token = e.token /\ ExecSound(f, job, run, steps', worked', overrun')
  BY <1>4, <1>5, AfterStage
<1> HIDE DEF f
<1>7. worked \subseteq worked' /\ worked' \subseteq StageSet /\ crashes' \in 0..MaxCrashes
  BY <1>3, <1>5, WorkerIs
<1> QED BY <1>1, <1>3, <1>5, <1>6, <1>7, StepKeeps DEF e

\* The catch clause of a stage.
LEMMA FailureKeeps ==
  ASSUME IInv, NEW w \in Workers, NEW retryable \in BOOLEAN, StageFailed(w, retryable),
         exec[w].at \in {"working", "recording_success"}, UNCHANGED <<job, issued, run, crashes>>,
         \/ UNCHANGED <<steps, history>>
         \/ WriteStep(w, "success") /\ exec[w].at = "recording_success"
  PROVE  IInv'
<1> DEFINE e == exec[w]
           sync == Stages[e.pos] = SyncStage
           f == [e EXCEPT !.at = "recording_failure", !.anyFailed = TRUE,
                          !.syncFailed = @ \/ sync, !.retry = @ \/ (sync /\ retryable)]
<1>1. /\ e \in Exec /\ e.at # "none" /\ e.at \in AtStage
      /\ steps' \in [StageSet -> StepStatus]
      /\ \A s \in StageSet : steps'[s] = "success" => s \in worked
      /\ overrun' \in BOOLEAN /\ (overrun => overrun')
      /\ steps' = steps \/ overrun' \/ Holds(job, e.token)
      /\ worked' = worked /\ gaveUp' = gaveUp
      /\ ExecSound(e, job, run, steps', worked', overrun')
  <2>1. CASE UNCHANGED <<steps, history>>
    BY <2>1, WorkerIs DEF history, AtStage
  <2>2. CASE WriteStep(w, "success") /\ e.at = "recording_success"
    <3>1. e.at \in AtStage /\ StageOf(w) \in worked
      BY <2>2, WorkerIs DEF AtStage, ExecSound, StageSound, StageOf
    <3> QED BY <2>2, <3>1, WriteIs DEF StepStatus
  <2> QED BY <2>1, <2>2
<1>2. Checked(w, f)
  BY DEF StageFailed, StageOf
<1>3. \A b, c \in BOOLEAN :
        LET g == [e EXCEPT !.at = "recording_failure", !.anyFailed = TRUE, !.syncFailed = b, !.retry = c] IN
        /\ g \in Exec /\ g.at = "recording_failure" /\ g.token = e.token /\ g.exhausted = e.exhausted
        /\ g.pos = e.pos /\ g.done = e.done /\ g.anyFailed = TRUE /\ g.syncFailed = b
  BY <1>1 DEF Exec, InHandler
<1>4. /\ f \in Exec /\ f.at = "recording_failure" /\ f.token = e.token /\ f.exhausted = e.exhausted
      /\ f.pos = e.pos /\ f.done = e.done /\ f.anyFailed /\ (e.syncFailed \/ sync => f.syncFailed)
  <2>1. PICK b \in BOOLEAN : b = (e.syncFailed \/ sync)
    BY <1>1 DEF Exec
  <2>2. PICK c \in BOOLEAN : c = (e.retry \/ (sync /\ retryable))
    BY <1>1 DEF Exec
  <2>3. f = [e EXCEPT !.at = "recording_failure", !.anyFailed = TRUE, !.syncFailed = b, !.retry = c]
    BY <2>1, <2>2
  <2>4. /\ f \in Exec /\ f.at = "recording_failure" /\ f.token = e.token
        /\ f.exhausted = e.exhausted /\ f.pos = e.pos /\ f.done = e.done /\ f.anyFailed = TRUE
        /\ f.syncFailed = b
    <3> HIDE DEF e, f
    <3> QED BY <1>3, <2>3
  <2> HIDE DEF f, sync
  <2> QED BY <2>1, <2>4
<1>5. (e.syncFailed => f.syncFailed) /\ (Stages[e.pos] = SyncStage => f.syncFailed)
  <2> HIDE DEF f
  <2> QED BY <1>4
<1> HIDE DEF f, sync
<1>6. ExecSound(f, job, run, steps', worked', overrun')
  BY <1>1, <1>4, <1>5, FailedSound
<1>7. f.at # "none" /\ worked \subseteq worked' /\ worked' \subseteq StageSet
  BY <1>1, <1>4, WorkerIs
<1> QED BY <1>1, <1>2, <1>4, <1>6, <1>7, CheckedKeeps

\* The port of the stage returns or throws, and what is made of it.
LEMMA WorkKeeps ==
  ASSUME IInv, NEW w \in Workers,
         \/ PortReturns(w)
         \/ \E retryable \in BOOLEAN : PortThrows(w, retryable)
         \/ FinishSuccessFault(w)
  PROVE  IInv'
<1>1. CASE PortReturns(w)
  <2> DEFINE e == exec[w]
             f == [e EXCEPT !.at = "recording_success"]
  <2>1. /\ e.at = "working" /\ e.at # "none" /\ e.at \in AtStage /\ e.at \in Placed /\ e \in Exec
        /\ worked' = worked \cup {Stages[e.pos]} /\ Checked(w, f)
        /\ UNCHANGED <<job, issued, run, steps, crashes, gaveUp, overrun>>
        /\ ExecSound(e, job, run, steps, worked, overrun)
    BY <1>1, WorkerIs DEF PortReturns, StageOf, AtStage, Placed
  <2>2. Stages[e.pos] \in StageSet /\ worked' \subseteq StageSet /\ worked \subseteq worked'
    <3>1. e.pos \in 1..Len(Stages)
      BY <2>1, StagesAre DEF ExecSound, StageSound, Exec
    <3> QED BY <2>1, <3>1, StagesAre, WorkerIs
  <2>3. ExecSound(e, job, run, steps', worked', overrun')
    BY <2>1, <2>2, WorkerIs, SoundKept
  <2>4. StageSound(f, worked')
    BY <2>1, <2>3 DEF ExecSound, StageSound, AtStage, Exec
  <2>5. "recording_success" \in Placed
    BY DEF Placed, AtStage
  <2> HIDE DEF e
  <2>6. f \in Exec /\ f.at = "recording_success" /\ f.token = e.token
        /\ ExecSound(f, job, run, steps', worked', overrun')
    BY <2>1, <2>3, <2>4, <2>5, Relabelled
  <2> HIDE DEF f
  <2>7. f.at # "none" /\ overrun' \in BOOLEAN /\ steps' \in [StageSet -> StepStatus]
        /\ \A s \in StageSet : steps'[s] = "success" => s \in worked'
    BY <2>1, <2>2, <2>6, WorkerIs
  <2> QED BY <2>1, <2>2, <2>6, <2>7, CheckedKeeps DEF e
<1>2. CASE \E retryable \in BOOLEAN : PortThrows(w, retryable)
  BY <1>2, FailureKeeps DEF PortThrows
<1>3. CASE FinishSuccessFault(w)
  BY <1>3, FailureKeeps DEF FinishSuccessFault
<1> QED BY <1>1, <1>2, <1>3

\* A move that writes the run under the lease; what it writes is so.
LEMMA RunMoves ==
  ASSUME IInv, NEW w \in Workers, NEW f \in Exec, exec' = [exec EXCEPT ![w] = f],
         exec[w].at # "none", f.at # "none" => f.token = exec[w].token,
         UNCHANGED <<job, issued, steps, crashes, history>>,
         NEW status \in {"running"} \cup RunSettled,
         run' = IF Holds(job, exec[w].token) THEN status ELSE run,
         ExecSound(f, job, run', steps, worked, overrun),
         Holds(job, exec[w].token) /\ status = "success" =>
           /\ worked = StageSet
           /\ ~overrun => \A s \in StageSet : steps[s] = "success"
  PROVE  IInv'
<1> USE DEF IInv
<1>1. /\ UNCHANGED <<worked, gaveUp, overrun>> /\ QuietRow(job, job)
      /\ run' \in {"none", "running"} \cup RunSettled
  BY WorkerIs DEF history, TypeOK
<1>2. /\ TypeOK' /\ exec'[w] = f
      /\ \A v \in Workers : v # w => exec'[v] = exec[v]
  BY <1>1, MoveTypes DEF TypeOK
<1>3. TokensTold' /\ ExecsSound'
  <2>1. \/ exec[w].at # "none" /\ Holds(job, exec[w].token)
        \/ run' = run /\ (overrun' \/ steps' = steps)
    OBVIOUS
  <2>2. ExecSound(f, job', run', steps', worked', overrun')
    BY <1>1
  <2>3. /\ issued' = issued /\ QuietRow(job, job') /\ worked \subseteq worked' /\ (overrun => overrun')
    BY <1>1
  <2> QED BY <1>2, <2>1, <2>2, <2>3, MoveKeeps
<1>4. status # "none"
  BY DEF RunSettled
<1>5. RowsSound'
  BY <1>1, <1>4 DEF RowsSound
<1>6. RunEndsWithJob'
  <2>1. Holds(job, exec[w].token) => job.status = "running"
    BY DEF Holds
  <2> QED BY <1>1, <2>1 DEF RunEndsWithJob
<1>7. SuccessIsReal'
  BY <1>1, <1>2 DEF SuccessIsReal
<1> QED BY <1>2, <1>3, <1>5, <1>6, <1>7

\* The run is reopened under the lease, or the handler gives up.
LEMMA ReopenKeeps ==
  ASSUME IInv, NEW w \in Workers, Reopen(w)
  PROVE  IInv'
<1> DEFINE e == exec[w]
<1>1. /\ e.at = "reopening" /\ e.at # "none" /\ e \in Exec
      /\ ExecSound(e, job, run, steps, worked, overrun)
      /\ UNCHANGED <<job, issued, steps, crashes, history>>
      /\ run' = IF Holds(job, e.token) THEN "running" ELSE run
      /\ IF Holds(job, e.token) THEN Goto(w, "choosing") ELSE Throw(w)
  BY WorkerIs DEF Reopen, RunUnderLease
<1>2. CASE Holds(job, e.token)
  <2> DEFINE f == [e EXCEPT !.at = "choosing"]
  <2>1. exec' = [exec EXCEPT ![w] = f] /\ run' = "running"
    BY <1>1, <1>2 DEF Goto
  <2>2. /\ f \in Exec /\ f.at = "choosing" /\ f.token = e.token /\ f.pos = e.pos /\ f.done = e.done
        /\ f.exhausted = e.exhausted /\ f.anyFailed = e.anyFailed /\ f.syncFailed = e.syncFailed
    BY <1>1 DEF Exec, InHandler
  <2> HIDE DEF e, f
  <2>3. ExecSound(f, job, run', steps, worked, overrun)
    <3>1. e.at \in InHandler /\ f.at \in InHandler /\ e.pos = 1
      BY <1>1, <2>2 DEF InHandler, ExecSound, StageSound
    <3>2. \A i \in 1..(f.pos - 1) : FALSE
      BY <2>2, <3>1
    <3>3. ClaimSound(f, job)
      BY <1>1, <2>2 DEF ExecSound, ClaimSound
    <3>4. BehindSound(f, worked)
      BY <1>1, <2>2, <3>1, <3>2 DEF ExecSound, BehindSound
    <3>5. StageSound(f, worked)
      BY <2>2 DEF StageSound, AtStage
    <3>6. HoldSound(f, job, run', steps, overrun)
      BY <1>1, <2>1, <2>2, <3>1, <3>2 DEF ExecSound, HoldSound
    <3> QED BY <3>3, <3>4, <3>5, <3>6 DEF ExecSound
  <2> QED BY <1>1, <2>1, <2>2, <2>3, RunMoves DEF e
<1>3. CASE ~Holds(job, e.token)
  <2>1. exec' = [exec EXCEPT ![w] = Thrown(e)]
    BY <1>1, <1>3 DEF Throw
  <2>2. ExecSound(Thrown(e), job, run', steps, worked, overrun)
    BY <1>1, WorkerIs, ThrownSound DEF ExecSound
  <2>3. Thrown(e) \in Exec /\ (Thrown(e).at # "none" => Thrown(e).token = e.token)
    BY <1>1, ThrownIs
  <2> QED BY <1>1, <2>1, <2>2, <2>3, RunMoves
<1> QED BY <1>2, <1>3

\* Whoever reports success has left all stages behind without a failure.
LEMMA SettleKeeps ==
  ASSUME IInv, NEW w \in Workers, Settle(w) \/ SettleReplyLost(w)
  PROVE  IInv'
<1> DEFINE e == exec[w]
<1>1. /\ e.at = "settling" /\ e.at # "none" /\ e.at \in InHandler /\ e.at \in Placed /\ e \in Exec
      /\ ExecSound(e, job, run, steps, worked, overrun)
      /\ UNCHANGED <<job, issued, steps, crashes, history>>
      /\ run' = IF Holds(job, e.token) THEN Outcome(e) ELSE run
      /\ Throw(w) \/ (Holds(job, e.token) /\ Goto(w, "completing"))
  BY WorkerIs DEF Settle, SettleReplyLost, RunUnderLease, InHandler, Placed
<1>2. Outcome(e) \in RunSettled /\ (Outcome(e) = "success" => ~e.anyFailed)
  BY DEF Outcome, RunSettled
<1>3. Holds(job, e.token) /\ Outcome(e) = "success" =>
        /\ worked = StageSet
        /\ ~overrun => \A s \in StageSet : steps[s] = "success"
  <2> SUFFICES ASSUME Holds(job, e.token), ~e.anyFailed
               PROVE  /\ worked = StageSet
                      /\ ~overrun => \A s \in StageSet : steps[s] = "success"
    BY <1>2
  <2>1. e.pos \in Nat /\ e.pos > Len(Stages)
    BY <1>1 DEF Exec, ExecSound, StageSound
  <2>2. \A s \in StageSet : \E i \in 1..(e.pos - 1) : Stages[i] = s
    <3>1. TAKE s \in StageSet
    <3>2. PICK i \in 1..Len(Stages) : Stages[i] = s
      BY StagesAre
    <3>3. i \in 1..(e.pos - 1)
      BY <2>1, StagesAre
    <3> QED BY <3>2, <3>3
  <2>3. \A s \in StageSet : s \in worked
    BY <1>1, <2>2 DEF ExecSound, BehindSound
  <2>4. ~overrun => \A s \in StageSet : steps[s] = "success"
    BY <1>1, <2>2 DEF ExecSound, HoldSound
  <2> QED BY <2>3, <2>4, WorkerIs
<1>4. CASE Throw(w)
  <2>1. exec' = [exec EXCEPT ![w] = Thrown(e)]
    BY <1>4 DEF Throw
  <2>2. ExecSound(Thrown(e), job, run', steps, worked, overrun)
    BY <1>1, WorkerIs, ThrownSound DEF ExecSound
  <2>3. Thrown(e) \in Exec /\ (Thrown(e).at # "none" => Thrown(e).token = e.token)
    BY <1>1, ThrownIs
  <2>4. Outcome(e) \in {"running"} \cup RunSettled
    BY <1>2
  <2> QED BY <1>1, <1>3, <2>1, <2>2, <2>3, <2>4, RunMoves
<1>5. CASE Holds(job, e.token) /\ Goto(w, "completing")
  <2> DEFINE f == [e EXCEPT !.at = "completing"]
  <2>1. exec' = [exec EXCEPT ![w] = f]
    BY <1>5 DEF Goto
  <2>2. f \in Exec /\ f.at = "completing" /\ f.token = e.token /\ f.exhausted = e.exhausted
    BY <1>1 DEF Exec, InPoller
  <2>3. run' \in RunSettled /\ Outcome(e) \in {"running"} \cup RunSettled
    BY <1>1, <1>2, <1>5
  <2> HIDE DEF f, e
  <2>4. ExecSound(f, job, run', steps, worked, overrun)
    <3>1. ClaimSound(f, job)
      BY <1>1, <2>2 DEF ExecSound, ClaimSound
    <3>2. BehindSound(f, worked) /\ StageSound(f, worked) /\ HoldSound(f, job, run', steps, overrun)
      BY <2>2, <2>3 DEF BehindSound, StageSound, HoldSound, InHandler, Placed, AtStage
    <3> QED BY <3>1, <3>2 DEF ExecSound
  <2> QED BY <1>1, <1>3, <2>1, <2>2, <2>3, <2>4, RunMoves DEF e
<1> QED BY <1>1, <1>4, <1>5

\* A move that writes the job; it ends only with its run, or is given up.
LEMMA JobMoves ==
  ASSUME IInv, NEW w \in Workers, NEW f \in Exec, exec' = [exec EXCEPT ![w] = f],
         exec[w].at # "none", f.at # "none" => f.token = exec[w].token,
         UNCHANGED <<issued, run, steps, crashes, worked, overrun>>,
         gaveUp' \in BOOLEAN, gaveUp => gaveUp',
         job' \in Row, QuietRow(job, job'), job'.status = job.status \/ job.status = "running",
         job'.status = "completed" => job.status = "completed" \/ run \in RunSettled,
         job'.status = "failed" => job.status = "failed" \/ run \in RunSettled \/ gaveUp',
         ExecSound(f, job', run, steps, worked, overrun)
  PROVE  IInv'
<1> USE DEF IInv
<1>1. /\ TypeOK' /\ exec'[w] = f
      /\ \A v \in Workers : v # w => exec'[v] = exec[v]
  BY MoveTypes DEF TypeOK
<1>2. TokensTold' /\ ExecsSound'
  <2>1. ExecSound(f, job', run', steps', worked', overrun')
    OBVIOUS
  <2>2. worked \subseteq worked' /\ (overrun => overrun') /\ issued' = issued
    OBVIOUS
  <2>3. run' = run /\ (overrun' \/ steps' = steps)
    OBVIOUS
  <2> QED BY <1>1, <2>1, <2>2, <2>3, MoveKeeps
<1>3. RowsSound'
  BY DEF RowsSound
<1>4. RunEndsWithJob'
  BY DEF RunEndsWithJob
<1>5. SuccessIsReal'
  BY <1>1 DEF SuccessIsReal
<1> QED BY <1>1, <1>2, <1>3, <1>4, <1>5

\* The rows the statements of the claim leave.
LEMMA RowsAre ==
  ASSUME IInv, NEW w \in Workers, NEW d \in 0..MaxDelay
  PROVE  LET t == exec[w].token
             Ends == {job, Completed(job, t), Retried(job, t, d), Failed(job, t), Heartbeat(job, t)}
         IN \A r \in Ends : /\ r \in Row /\ QuietRow(job, r)
                            /\ r.status = job.status \/ Holds(job, t)
<1> DEFINE t == exec[w].token
<1>1. /\ job \in Row /\ t \in Nat /\ d \in 0..MaxDelay /\ 0 \in 0..Skew
      /\ (job.status = "running") <=> (job.token # NoToken)
  BY QueueAssumption DEF IInv, TypeOK, TokensTold, Exec
<1>2. \A r \in {job, Completed(job, t), Retried(job, t, d), Failed(job, t), Heartbeat(job, t)} :
        r \in Row
  BY <1>1, RowTyping
<1>3. \A r \in {job, Completed(job, t), Retried(job, t, d), Failed(job, t), Heartbeat(job, t)} :
        QuietRow(job, r)
  BY <1>1, RowsQuiet
<1>4. \A r \in {job, Completed(job, t), Retried(job, t, d), Failed(job, t), Heartbeat(job, t)} :
        r.status = job.status \/ Holds(job, t)
  BY DEF Completed, Retried, Failed, Heartbeat
<1> QED BY <1>2, <1>3, <1>4

\* What the poller writes at the end of the handler: completeJob follows a run
\* that is settled, retryJob an attempt that is not the last, and failJob says so.
LEMMA OutcomeKeeps ==
  ASSUME IInv, NEW w \in Workers,
         \/ Complete(w) \/ CompleteFault(w) \/ Fail(w)
         \/ \E d \in Delays : Retry(w, d)
  PROVE  IInv'
<1> DEFINE e == exec[w]
<1>1. /\ e \in Exec /\ e.at \in {"completing", "failing", "retrying"} /\ e.at # "none"
      /\ ExecSound(e, job, run, steps, worked, overrun)
      /\ UNCHANGED <<issued, run, steps, crashes, worked, overrun>> /\ gaveUp \in BOOLEAN
  BY WorkerIs DEF Complete, CompleteFault, Fail, Retry, history, IInv, TypeOK
<1>2. PICK f \in {NotExecuting, Thrown(e)} : exec' = [exec EXCEPT ![w] = f]
  BY DEF Complete, CompleteFault, Fail, Retry, Throw
<1>3. /\ f \in Exec /\ f.at \in {"none", "retrying", "failing"}
      /\ f.at # "none" => f.token = e.token
  <2>1. NotExecuting \in Exec /\ NotExecuting.at = "none"
    BY StagesAre DEF NotExecuting, Exec, NoToken
  <2> QED BY <1>1, <1>2, <2>1, ThrownIs
<1>4. \A r : QuietRow(job, r) => ExecSound(f, r, run, steps, worked, overrun)
  <2>1. TAKE r
  <2>2. HAVE QuietRow(job, r)
  <2>3. CASE f = NotExecuting
    <3>1. ClaimSound(f, r)
      BY <2>3 DEF ClaimSound, NotExecuting
    <3> QED BY <1>3, <3>1, OutsideSound
  <2>4. CASE f = Thrown(e)
    BY <1>1, <2>2, <2>4, ThrownSound DEF ExecSound
  <2> QED BY <1>2, <2>3, <2>4
<1>5. ASSUME job' \in Row, QuietRow(job, job'), job'.status = job.status \/ Holds(job, e.token),
             gaveUp' \in BOOLEAN, gaveUp => gaveUp',
             job'.status = "completed" => job.status = "completed" \/ run \in RunSettled,
             job'.status = "failed" => job.status = "failed" \/ run \in RunSettled \/ gaveUp'
      PROVE  IInv'
  <2>1. job'.status = job.status \/ job.status = "running"
    BY <1>5 DEF Holds
  <2> HIDE DEF e
  <2> QED BY <1>1, <1>2, <1>3, <1>4, <1>5, <2>1, JobMoves DEF e
<1>6. CASE Complete(w) \/ CompleteFault(w)
  <2>1. /\ job' \in {job, Completed(job, e.token)} /\ gaveUp' = gaveUp /\ e.at = "completing"
    BY <1>6 DEF Complete, CompleteFault, history
  <2>2. job' # job => Holds(job, e.token) /\ job'.status = "completed"
    BY <2>1 DEF Completed, Unclaimed
  <2>3. Holds(job, e.token) => run \in RunSettled
    BY <1>1, <2>1 DEF ExecSound, HoldSound
  <2>4. job' \in Row /\ QuietRow(job, job')
    <3>1. 0 \in 0..MaxDelay
      BY QueueAssumption
    <3> QED BY <2>1, <3>1, RowsAre
  <2> QED BY <1>1, <1>5, <2>1, <2>2, <2>3, <2>4
<1>7. CASE \E d \in Delays : Retry(w, d)
  <2>1. PICK d \in Delays : Retry(w, d)
    BY <1>7
  <2>2. job' = Retried(job, e.token, d) /\ gaveUp' = gaveUp /\ e.at = "retrying"
    BY <2>1 DEF Retry, history
  <2>3. Holds(job, e.token) => ~Exhausted(job)
    BY <1>1, <2>2 DEF ExecSound, ClaimSound
  <2>4. job' # job => job'.status = "pending"
    BY <2>2, <2>3 DEF Retried, Unclaimed
  <2>5. job' \in Row /\ QuietRow(job, job') /\ (job'.status = job.status \/ Holds(job, e.token))
    BY <2>2, PipelineAssumption, RowsAre
  <2> QED BY <1>1, <1>5, <2>2, <2>4, <2>5
<1>8. CASE Fail(w)
  <2>1. job' = Failed(job, e.token) /\ gaveUp' = (gaveUp \/ Holds(job, e.token))
    BY <1>8 DEF Fail
  <2>2. job' # job => Holds(job, e.token) /\ job'.status = "failed"
    BY <2>1 DEF Failed, Unclaimed
  <2>3. gaveUp' \in BOOLEAN /\ (gaveUp => gaveUp') /\ (Holds(job, e.token) => gaveUp')
    BY <1>1, <2>1 DEF Holds
  <2>4. job' \in Row /\ QuietRow(job, job')
    <3>1. 0 \in 0..MaxDelay
      BY QueueAssumption
    <3> QED BY <2>1, <3>1, RowsAre
  <2> QED BY <1>1, <1>5, <2>2, <2>3, <2>4
<1> QED BY <1>6, <1>7, <1>8

\* A heartbeat extends the lease or tells that it is lost.
LEMMA HeartbeatKeeps ==
  ASSUME IInv, NEW w \in Workers, HeartbeatTick(w)
  PROVE  IInv'
<1> DEFINE e == exec[w]
<1>1. /\ e \in Exec /\ e.at # "none" /\ job' = Heartbeat(job, e.token)
      /\ UNCHANGED <<issued, run, steps, crashes, worked, gaveUp, overrun>> /\ gaveUp \in BOOLEAN
      /\ ExecSound(e, job, run, steps, worked, overrun)
  BY WorkerIs DEF HeartbeatTick, history, IInv, TypeOK
<1>2. PICK b \in BOOLEAN : exec' = [exec EXCEPT ![w].aborted = b]
  BY DEF HeartbeatTick, Holds
<1> DEFINE f == [e EXCEPT !.aborted = b]
<1>3. job' \in Row /\ QuietRow(job, job') /\ job'.status = job.status
  <2>1. 0 \in 0..MaxDelay /\ job \in Row
    BY QueueAssumption, WorkerIs
  <2>2. job'.status = job.status
    BY <1>1, <2>1 DEF Heartbeat, Row
  <2> QED BY <1>1, <2>1, <2>2, RowsAre
<1>4. ExecSound(e, job', run, steps, worked, overrun)
  BY <1>1, <1>3, SoundKept
<1>5. exec' = [exec EXCEPT ![w] = f]
  BY <1>2
<1>6. f \in Exec /\ f.at = e.at /\ f.token = e.token /\ ExecSound(f, job', run, steps, worked, overrun)
  BY <1>1, <1>4, AbortedSound
<1> HIDE DEF f
<1> QED BY <1>1, <1>3, <1>5, <1>6, JobMoves

\* Whoever does not hold the job relies on no row but the work that was done.
LEMMA NotHeldSound ==
  ASSUME NEW e, NEW r, NEW rn, NEW st, NEW did, NEW over, ExecSound(e, r, rn, st, did, over),
         NEW r2, NEW rn2, e.at # "none" => ~Holds(r2, e.token)
  PROVE  ExecSound(e, r2, rn2, st, did, over)
BY DEF ExecSound, ClaimSound, HoldSound

\* The job is claimed under a token nobody else was given.
LEMMA ClaimKeeps ==
  ASSUME IInv, NEW w \in Workers, Claim(w)
  PROVE  IInv'
<1> USE DEF IInv
<1> DEFINE t == issued + 1
           f == [NotExecuting EXCEPT !.at = "loading", !.token = t, !.exhausted = Exhausted(job')]
<1>1. /\ exec[w].at = "none" /\ Claimable(job) /\ issued' = t /\ job' = Claimed(job, t)
      /\ exec' = [exec EXCEPT ![w] = f]
      /\ UNCHANGED <<run, steps, crashes, worked, gaveUp, overrun>>
      /\ job \in Row /\ issued \in Nat
  BY DEF Claim, history, TypeOK
<1>2. /\ job' \in Row /\ job'.status = "running" /\ job'.token = t /\ t \in Nat /\ t # NoToken
      /\ job.status # "absent"
  <2>1. 0 \in 0..MaxDelay /\ 0 \in 0..Skew
    BY QueueAssumption
  <2>2. job' \in Row
    BY <1>1, <2>1, RowTyping
  <2>3. job'.status = "running" /\ job'.token = t /\ job.status # "absent"
    BY <1>1, <2>1 DEF Claimed, Claimable, Row
  <2> QED BY <1>1, <2>2, <2>3 DEF NoToken
<1>3. Exhausted(job') \in BOOLEAN
  BY DEF Exhausted
<1>4. /\ f \in Exec /\ f.at = "loading" /\ f.token = t /\ f.done = {} /\ f.pos = 1
      /\ f.syncFailed = FALSE /\ f.exhausted = Exhausted(job')
  <2> DEFINE g(u, c) == [NotExecuting EXCEPT !.at = "loading", !.token = u, !.exhausted = c]
  <2>0. NotExecuting \in Exec /\ NotExecuting.done = {} /\ NotExecuting.pos = 1
        /\ NotExecuting.syncFailed = FALSE
    BY StagesAre DEF NotExecuting, Exec, NoToken
  <2>1. \A u \in Nat, c \in BOOLEAN :
          /\ g(u, c) \in Exec /\ g(u, c).at = "loading" /\ g(u, c).token = u
          /\ g(u, c).done = {} /\ g(u, c).pos = 1
          /\ g(u, c).syncFailed = FALSE /\ g(u, c).exhausted = c
    BY <2>0 DEF Exec, InHandler
  <2>2. t \in Nat
    BY <1>2
  <2> HIDE DEF t
  <2> QED BY ONLY <1>3, <2>1, <2>2, Zenon DEF f
<1> HIDE DEF f
<1>5. /\ TypeOK' /\ exec'[w] = f
      /\ \A v \in Workers : v # w => exec'[v] = exec[v]
  <2>1. /\ issued' \in Nat /\ run' \in {"none", "running"} \cup RunSettled
        /\ steps' \in [StageSet -> StepStatus] /\ crashes' \in 0..MaxCrashes
        /\ worked' \subseteq StageSet /\ gaveUp' \in BOOLEAN /\ overrun' \in BOOLEAN
    BY <1>1, <1>2 DEF TypeOK
  <2> HIDE DEF t
  <2> QED BY <1>1, <1>2, <1>4, <2>1, MoveTypes
<1>6. \A v \in Workers : exec[v].at # "none" => exec[v].token # t
  BY <1>1 DEF TokensTold
<1>7. TokensTold'
  <2>1. \A v \in Workers : exec'[v].at # "none" => exec'[v].token \in 1..issued'
    BY <1>1, <1>4, <1>5 DEF TokensTold
  <2>2. \A u, v \in Workers :
          u # v /\ exec'[u].at # "none" /\ exec'[v].at # "none" => exec'[u].token # exec'[v].token
    BY <1>4, <1>5, <1>6 DEF TokensTold
  <2> QED BY <1>2, <2>1, <2>2 DEF TokensTold
<1>8. ASSUME NEW v \in Workers
      PROVE  ExecSound(exec'[v], job', run', steps', worked', overrun')
  <2>1. CASE v = w
    <3>1. ClaimSound(f, job')
      BY <1>3, <1>4 DEF ClaimSound
    <3>2. BehindSound(f, worked)
      BY <1>4 DEF BehindSound
    <3>3. StageSound(f, worked)
      BY <1>4 DEF StageSound, AtStage
    <3>4. HoldSound(f, job', run, steps, overrun)
      BY <1>4 DEF HoldSound, Placed, AtStage
    <3> QED BY <1>1, <1>5, <2>1, <3>1, <3>2, <3>3, <3>4 DEF ExecSound
  <2>2. CASE v # w
    <3>1. exec[v].at # "none" => ~Holds(job', exec[v].token)
      BY <1>2, <1>6 DEF Holds
    <3>2. ExecSound(exec[v], job', run, steps, worked, overrun)
      BY <3>1, WorkerIs, NotHeldSound
    <3> QED BY <1>1, <1>5, <2>2, <3>2
  <2> QED BY <2>1, <2>2
<1>9. RowsSound'
  BY <1>1, <1>2 DEF RowsSound
<1>10. RunEndsWithJob' /\ SuccessIsReal'
  BY <1>1, <1>2, <1>5 DEF RunEndsWithJob, SuccessIsReal
<1> QED BY <1>5, <1>7, <1>8, <1>9, <1>10 DEF ExecsSound

\* The request, and the reaper that ends the run with the job: nobody holds it.
LEMMA UnclaimedKeeps ==
  ASSUME IInv, \/ StartRun
               \/ \E ahead \in 0..Skew : Reap(ahead)
  PROVE  IInv'
<1> USE DEF IInv
<1>1. /\ UNCHANGED <<issued, steps, exec, crashes, worked, gaveUp, overrun>>
      /\ job \in Row /\ run \in {"none", "running"} \cup RunSettled
  BY DEF StartRun, Reap, history, TypeOK
<1>2. /\ job' \in Row /\ job'.status \in {"pending", "failed"} /\ job'.token = NoToken
      /\ run' \in {"running"} \cup RunSettled /\ (job'.status = "failed" => run' \in RunSettled)
      /\ run' = "success" => run = "success"
  <2>1. CASE StartRun
    <3>1. 0 \in 0..MaxDelay /\ 0 \in 0..Skew
      BY QueueAssumption
    <3>2. job' \in Row
      BY <1>1, <2>1, <3>1, RowTyping DEF StartRun, NoToken
    <3> QED BY <2>1, <3>2 DEF StartRun, Enqueued, Unclaimed
  <2>2. ASSUME NEW ahead \in 0..Skew, Reap(ahead)
        PROVE  <1>2!:
    <3>1. job' = Reaped(job, ahead) /\ run' = RunAfterReap(job') /\ Expired(job, ahead)
      BY <2>2 DEF Reap
    <3>2. 0 \in 0..MaxDelay /\ 0 \in Nat
      BY QueueAssumption
    <3>3. job' \in Row
      BY <1>1, <3>1, <3>2, RowTyping
    <3>4. job.status = "running" /\ job'.status \in {"pending", "failed"} /\ job'.token = NoToken
      BY <3>1 DEF Reaped, Expired, Unclaimed
    <3>5. run \in {"running"} \cup RunSettled
      BY <1>1, <3>4 DEF RowsSound
    <3> QED BY <3>1, <3>3, <3>4, <3>5 DEF RunAfterReap, RunSettled
  <2> QED BY <2>1, <2>2
<1>3. TypeOK'
  BY <1>1, <1>2 DEF TypeOK
<1>4. TokensTold' /\ RowsSound'
  BY <1>1, <1>2 DEF TokensTold, RowsSound, RunSettled
<1>5. ASSUME NEW v \in Workers
      PROVE  ExecSound(exec[v], job', run', steps, worked, overrun)
  <2>1. ~Holds(job', exec[v].token)
    BY <1>2 DEF Holds
  <2> QED BY <2>1, WorkerIs, NotHeldSound
<1>6. ExecsSound'
  BY <1>1, <1>5 DEF ExecsSound
<1>7. RunEndsWithJob' /\ SuccessIsReal'
  BY <1>1, <1>2, <1>3 DEF RunEndsWithJob, SuccessIsReal
<1> QED BY <1>3, <1>4, <1>6, <1>7

\* Time draws no token.
LEMMA TickKeeps ==
  ASSUME IInv, Tick
  PROVE  IInv'
<1> USE DEF IInv
<1>1. /\ UNCHANGED <<issued, run, steps, exec, crashes, worked, gaveUp, overrun>>
      /\ job' = Aged(job) /\ job \in Row
  BY DEF Tick, history, TypeOK
<1>2. job' \in Row /\ QuietRow(job, job') /\ job'.status = job.status
  <2>1. 0 \in 0..MaxDelay /\ 0 \in 0..Skew /\ 0 \in Nat
    BY QueueAssumption
  <2>2. (job.status = "running") <=> (job.token # NoToken)
    BY DEF TokensTold
  <2>3. job'.status = job.status
    BY <1>1 DEF Aged
  <2> QED BY <1>1, <2>1, <2>2, <2>3, RowTyping, RowsQuiet
<1>3. TypeOK' /\ RowsSound' /\ RunEndsWithJob' /\ SuccessIsReal'
  BY <1>1, <1>2 DEF TypeOK, RowsSound, RunEndsWithJob, SuccessIsReal
<1>4. TokensTold'
  BY <1>1, <1>2 DEF TokensTold, QuietRow
<1>5. ASSUME NEW v \in Workers
      PROVE  ExecSound(exec[v], job', run, steps, worked, overrun)
  BY <1>2, WorkerIs, SoundKept
<1>6. ExecsSound'
  BY <1>1, <1>5 DEF ExecsSound
<1> QED BY <1>3, <1>4, <1>6
-----------------------------------------------------------------------------
(* The theorems. *)

\* Before the request nothing runs.
LEMMA InitSafe == Init => IInv
<1> SUFFICES ASSUME Init
             PROVE  IInv
  OBVIOUS
<1>1. /\ job = AbsentRow /\ issued = NoToken /\ run = "none" /\ worked = {} /\ gaveUp = FALSE
      /\ overrun = FALSE /\ crashes = 0 /\ steps = [s \in StageSet |-> "absent"]
      /\ exec = [w \in Workers |-> NotExecuting]
  BY DEF Init
<1>2. NotExecuting \in Exec /\ NotExecuting.at = "none"
  BY StagesAre DEF NotExecuting, Exec, NoToken
<1>3. AbsentRow \in Row /\ AbsentRow.status = "absent" /\ AbsentRow.token = NoToken
  BY QueueAssumption DEF AbsentRow, Unclaimed, Row, Statuses, NoToken
<1>4. TypeOK
  <2>1. job \in Row /\ issued \in Nat /\ crashes \in 0..MaxCrashes
    BY <1>1, <1>3, PipelineAssumption DEF NoToken
  <2>2. steps \in [StageSet -> StepStatus]
    BY <1>1 DEF StepStatus
  <2>3. exec \in [Workers -> Exec]
    BY <1>1, <1>2
  <2> QED BY <1>1, <2>1, <2>2, <2>3 DEF TypeOK
<1>5. TokensTold
  BY <1>1, <1>2, <1>3 DEF TokensTold
<1>6. RowsSound /\ RunEndsWithJob /\ SuccessIsReal
  BY <1>1, <1>3, <1>4 DEF RowsSound, RunEndsWithJob, SuccessIsReal
<1>7. ASSUME NEW w \in Workers
      PROVE  ExecSound(exec[w], job, run, steps, worked, overrun)
  <2>1. exec[w] = NotExecuting
    BY <1>1
  <2>2. ClaimSound(NotExecuting, job)
    BY <1>2 DEF ClaimSound
  <2> QED BY <1>2, <2>1, <2>2, OutsideSound
<1> QED BY <1>4, <1>5, <1>6, <1>7 DEF IInv, ExecsSound

\* Every step preserves the invariant.
LEMMA NextSafe == IInv /\ [Next]_vars => IInv'
<1> SUFFICES ASSUME IInv, [Next]_vars
             PROVE  IInv'
  OBVIOUS
<1>1. CASE StartRun \/ \E ahead \in 0..Skew : Reap(ahead)
  BY <1>1, UnclaimedKeeps
<1>2. CASE Tick
  BY <1>2, TickKeeps
<1>3. ASSUME NEW w \in Workers, WorkerNext(w)
      PROVE  IInv'
  <2>1. CASE Claim(w)
    BY <2>1, ClaimKeeps
  <2>2. CASE HeartbeatTick(w)
    BY <2>2, HeartbeatKeeps
  <2>3. CASE Abort(w) \/ Crash(w) \/ StatementFault(w) \/ OutcomeFault(w)
    BY <2>3, LeavingKeeps
  <2>4. CASE LoadSteps(w)
    BY <2>4, LoadKeeps
  <2>5. CASE Reopen(w)
    BY <2>5, ReopenKeeps
  <2>6. CASE Choose(w)
    BY <2>6, ChooseKeeps
  <2>7. CASE StartStep(w)
    BY <2>7, StartKeeps
  <2>8. CASE FinishSkipped(w) \/ FinishSuccess(w) \/ FinishFailed(w)
    BY <2>8, FinishKeeps
  <2>9. CASE \/ PortReturns(w)
             \/ \E retryable \in BOOLEAN : PortThrows(w, retryable)
             \/ FinishSuccessFault(w)
    BY <2>9, WorkKeeps
  <2>10. CASE Settle(w) \/ SettleReplyLost(w)
    BY <2>10, SettleKeeps
  <2>11. CASE \/ Complete(w) \/ CompleteFault(w) \/ Fail(w)
              \/ \E d \in Delays : Retry(w, d)
    BY <2>11, OutcomeKeeps
  <2> QED BY <1>3, <2>1, <2>2, <2>3, <2>4, <2>5, <2>6, <2>7, <2>8, <2>9, <2>10, <2>11
          DEF WorkerNext, Proceed
<1>4. CASE UNCHANGED vars
  <2>1. UNCHANGED <<job, issued, run, steps, exec, crashes, worked, gaveUp, overrun>>
    BY <1>4 DEF vars, history
  <2> QED BY <2>1 DEF IInv, TypeOK, TokensTold, RowsSound, ExecsSound, RunEndsWithJob, SuccessIsReal
<1> QED BY <1>1, <1>2, <1>3, <1>4 DEF Next

\* plaid_sync lies behind a dependent stage, and was worked unless it failed.
LEMMA DependentsSound == IInv => DependentsFollowSync
<1> SUFFICES ASSUME IInv, NEW w \in Workers, exec[w].at = "working", StageOf(w) \in Dependents
             PROVE  SyncStage \in worked
  BY DEF DependentsFollowSync
<1> DEFINE e == exec[w]
<1>1. e \in Exec /\ ExecSound(e, job, run, steps, worked, overrun) /\ e.at = "working"
      /\ Stages[e.pos] \in Dependents
  BY DEF IInv, TypeOK, ExecsSound, StageOf
<1> HIDE DEF e
<1>2. ~e.syncFailed /\ e.pos <= Len(Stages) /\ e.pos \in 1..Len(Stages)
  BY <1>1, StagesAre DEF ExecSound, StageSound, AtStage, Exec
<1>3. PICK i \in 1..Len(Stages) : Stages[i] = SyncStage
  BY StagesAre, PipelineAssumption
<1>4. i < e.pos
  BY <1>1, <1>2, <1>3, PipelineAssumption
<1>5. i \in 1..(e.pos - 1)
  BY <1>2, <1>4, StagesAre
<1> QED BY <1>1, <1>2, <1>3, <1>5 DEF ExecSound, BehindSound, InHandler

\* Only the request, the reaper and the holder of the job write the run, and
\* none of them meets a settled job.
LEMMA FinalStep == IInv /\ [Next]_vars => [job.status \in Settled => run' = run]_vars
<1> SUFFICES ASSUME IInv, [Next]_vars, job.status \in Settled
             PROVE  run' = run
  OBVIOUS
<1>1. job.status # "absent" /\ job.status # "running"
  BY DEF Settled
<1>2. CASE StartRun
  BY <1>1, <1>2 DEF StartRun
<1>3. ASSUME NEW ahead \in 0..Skew, Reap(ahead)
      PROVE  run' = run
  BY <1>1, <1>3 DEF Reap, RunAfterReap
<1>4. CASE Tick
  BY <1>4 DEF Tick
<1>5. ASSUME NEW w \in Workers, WorkerNext(w)
      PROVE  run' = run
  <2>1. \A status : RunUnderLease(w, status) = run
    BY <1>1 DEF RunUnderLease, Holds
  <2>2. CASE Reopen(w) \/ Settle(w) \/ SettleReplyLost(w)
    BY <2>1, <2>2 DEF Reopen, Settle, SettleReplyLost
  <2>3. CASE Claim(w) \/ HeartbeatTick(w) \/ Abort(w) \/ Crash(w)
    BY <2>3 DEF Claim, HeartbeatTick, Abort, Crash
  <2>4. CASE LoadSteps(w) \/ Choose(w) \/ StartStep(w) \/ FinishSkipped(w)
             \/ PortReturns(w) \/ FinishSuccess(w) \/ FinishSuccessFault(w) \/ FinishFailed(w)
    BY <2>4 DEF LoadSteps, Choose, StartStep, FinishSkipped, PortReturns, FinishSuccess,
                FinishSuccessFault, FinishFailed
  <2>5. CASE \/ \E retryable \in BOOLEAN : PortThrows(w, retryable)
             \/ \E d \in Delays : Retry(w, d)
    BY <2>5 DEF PortThrows, Retry
  <2>6. CASE StatementFault(w) \/ Complete(w) \/ CompleteFault(w) \/ Fail(w) \/ OutcomeFault(w)
    BY <2>6 DEF StatementFault, Complete, CompleteFault, Fail, OutcomeFault
  <2> QED BY <1>5, <2>2, <2>3, <2>4, <2>5, <2>6 DEF WorkerNext, Proceed
<1>6. CASE UNCHANGED vars
  BY <1>6 DEF vars
<1> QED BY <1>2, <1>3, <1>4, <1>5, <1>6 DEF Next

\* Whatever the interleaving of the executions of the job, of their faults and
\* of the reaper (runOne, executePipelineJob, onTerminalExpiredJob), the
\* invariant holds.
THEOREM InvariantHolds == Spec => []IInv
<1>1. Init => IInv
  BY InitSafe
<1>2. IInv /\ [Next]_vars => IInv'
  BY NextSafe
<1> QED BY <1>1, <1>2, PTL DEF Spec

\* What a run says of itself is so and stays so (finishRunForJob and
\* reopenRunForJob under their fence, checkCancelled, the skipping of the
\* dependent stages and the resumption from the steps already done).
THEOREM TruthHolds == Spec => RunTellsTheTruth
<1>1. IInv => RunEndsWithJob /\ DependentsFollowSync /\ SuccessIsReal
  BY DependentsSound DEF IInv
<1>2. IInv /\ [Next]_vars => [job.status \in Settled => run' = run]_vars
  BY FinalStep
<1> QED BY <1>1, <1>2, InvariantHolds, PTL DEF Spec, RunTellsTheTruth, FinalRunIsFinal
=============================================================================
