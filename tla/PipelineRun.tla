---------------------------- MODULE PipelineRun ----------------------------
(***************************************************************************)
(* One sync_pipeline job, the pipeline run it executes and the run's steps *)
(* (pipeline.service.ts, pipeline.repository.ts), shared by worker         *)
(* processes that may execute the same job one after the other and, when a *)
(* lease expires under a slow worker, at the same time.                    *)
(*                                                                         *)
(* JobQueue supplies the job row.  JobsPoller models the poller in full;   *)
(* here its claim is one step, and what remains of it is what the handler  *)
(* can notice: the heartbeat, the abort signal and the outcome it writes.  *)
(*                                                                         *)
(* Every statement of the handler is issued in one step, where             *)
(* checkCancelled looks at the signal, and reaches the database in a later *)
(* one.  The statements on pipeline_runs carry the lease of the job in     *)
(* their WHERE clause; those on pipeline_run_steps carry none.             *)
(***************************************************************************)
EXTENDS JobQueue, Sequences

CONSTANTS
  Workers,      \* worker processes
  Stages,       \* PIPELINE_STEPS, in order
  SyncStage,    \* plaid_sync
  Dependents,   \* the stages skipped when plaid_sync failed
  Delays,       \* delays the retry policy may choose
  MaxCrashes    \* bound: how often a worker process dies

StageSet == {Stages[i] : i \in 1..Len(Stages)}

\* The stages differ from each other, and the dependents come after plaid_sync.
ASSUME PipelineAssumption ==
  /\ Stages \in Seq(StageSet)
  /\ \A i, j \in 1..Len(Stages) : Stages[i] = Stages[j] => i = j
  /\ SyncStage \in StageSet
  /\ Dependents \subseteq StageSet \ {SyncStage}
  /\ \A i, j \in 1..Len(Stages) : Stages[i] = SyncStage /\ Stages[j] \in Dependents => i < j
  /\ Delays \subseteq 0..MaxDelay
  /\ MaxCrashes \in Nat

VARIABLES
  job,       \* the row of the jobs table
  issued,    \* lease tokens drawn for it
  run,       \* status of the pipeline_runs row, "none" before the request
  steps,     \* status of each pipeline_run_steps row, "absent" before the insert
  exec,      \* exec[w]: the execution of the job in worker w
  crashes,   \* deaths of worker processes so far
  worked,    \* stages whose port has returned, in any execution
  gaveUp,    \* failJob gave the job up after the handler had thrown
  overrun    \* a superseded execution has written a step

history == <<worked, gaveUp, overrun>>
vars == <<job, issued, run, steps, exec, crashes, history>>

RunSettled == {"success", "partial", "failed"}
StepStatus == {"absent", "running", "success", "failed", "skipped"}
InHandler == {"loading", "reopening", "choosing", "starting", "working",
              "recording_success", "recording_failure", "recording_skip", "settling"}
InPoller == {"completing", "retrying", "failing"}

\* aborted is the state of the AbortSignal; pos is the stage the loop is at.
Exec == [at : {"none"} \cup InHandler \cup InPoller,
         token : Nat, exhausted : BOOLEAN, aborted : BOOLEAN,
         done : SUBSET StageSet, pos : 1..(Len(Stages) + 1),
         syncFailed : BOOLEAN, anyFailed : BOOLEAN, retry : BOOLEAN]

NotExecuting ==
  [at |-> "none", token |-> NoToken, exhausted |-> FALSE, aborted |-> FALSE,
   done |-> {}, pos |-> 1, syncFailed |-> FALSE, anyFailed |-> FALSE, retry |-> FALSE]

TypeOK ==
  /\ job \in Row
  /\ issued \in Nat
  /\ run \in {"none", "running"} \cup RunSettled
  /\ steps \in [StageSet -> StepStatus]
  /\ exec \in [Workers -> Exec]
  /\ crashes \in 0..MaxCrashes
  /\ worked \subseteq StageSet
  /\ gaveUp \in BOOLEAN
  /\ overrun \in BOOLEAN

Init ==
  /\ job = AbsentRow
  /\ issued = NoToken
  /\ run = "none"
  /\ steps = [s \in StageSet |-> "absent"]
  /\ exec = [w \in Workers |-> NotExecuting]
  /\ crashes = 0
  /\ worked = {}
  /\ gaveUp = FALSE
  /\ overrun = FALSE
-----------------------------------------------------------------------------
(* The request, the claim, the heartbeat and the reaper. *)

\* startPipelineRunInTransaction: the job and the run appear together.
StartRun ==
  /\ job.status = "absent"
  /\ job' = Enqueued(0)
  /\ run' = "running"
  /\ UNCHANGED <<issued, steps, exec, crashes, history>>

Claim(w) ==
  /\ exec[w].at = "none"
  /\ Claimable(job)
  /\ issued' = issued + 1
  /\ job' = Claimed(job, issued')
  /\ exec' = [exec EXCEPT ![w] = [NotExecuting EXCEPT !.at = "loading",
                !.token = issued', !.exhausted = Exhausted(job')]]
  /\ UNCHANGED <<run, steps, crashes, history>>

HeartbeatTick(w) ==
  /\ exec[w].at # "none"
  /\ ~exec[w].aborted
  /\ job' = Heartbeat(job, exec[w].token)
  /\ exec' = [exec EXCEPT ![w].aborted = ~Holds(job, exec[w].token)]
  /\ UNCHANGED <<issued, run, steps, crashes, history>>

\* The heartbeat query fails, or the worker is told to stop.
Abort(w) ==
  /\ exec[w].at # "none"
  /\ ~exec[w].aborted
  /\ exec' = [exec EXCEPT ![w].aborted = TRUE]
  /\ UNCHANGED <<job, issued, run, steps, crashes, history>>

\* onTerminalExpiredJob, in the transaction of the reaper.
RunAfterReap(reaped) ==
  IF job.status = "running" /\ reaped.status = "failed" /\ run = "running"
  THEN "failed" ELSE run

Reap(ahead) ==
  /\ Expired(job, ahead)
  /\ job' = Reaped(job, ahead)
  /\ run' = RunAfterReap(job')
  /\ UNCHANGED <<issued, steps, exec, crashes, history>>
-----------------------------------------------------------------------------
(* executePipelineJob. *)

Goto(w, place) == exec' = [exec EXCEPT ![w].at = place]

\* An error leaves the handler: the catch clause of runOne writes nothing once
\* the signal is aborted, and otherwise retries the job or gives it up.
Thrown(e) ==
  IF e.aborted THEN NotExecuting
  ELSE [e EXCEPT !.at = IF e.exhausted THEN "failing" ELSE "retrying"]

Throw(w) == exec' = [exec EXCEPT ![w] = Thrown(exec[w])]

\* checkCancelled: go on unless the signal is aborted, which throws.
Checked(w, e) == exec' = [exec EXCEPT ![w] = IF e.aborted THEN Thrown(e) ELSE e]

Next1(e) == [e EXCEPT !.at = "choosing", !.pos = e.pos + 1]
StageOf(w) == Stages[exec[w].pos]

DoneSteps == {s \in StageSet : steps[s] = "success"}

\* listSteps; a run without steps is not reopened.
LoadSteps(w) ==
  /\ exec[w].at = "loading"
  /\ exec' = [exec EXCEPT ![w].done = DoneSteps,
                ![w].at = IF \A s \in StageSet : steps[s] = "absent"
                          THEN "choosing" ELSE "reopening"]
  /\ UNCHANGED <<job, issued, run, steps, crashes, history>>

\* reopenRunForJob and finishRunForJob set the run's status if the job is still
\* held under the token.
RunUnderLease(w, status) == IF Holds(job, exec[w].token) THEN status ELSE run

Reopen(w) ==
  /\ exec[w].at = "reopening"
  /\ run' = RunUnderLease(w, "running")
  /\ IF Holds(job, exec[w].token) THEN Goto(w, "choosing") ELSE Throw(w)
  /\ UNCHANGED <<job, issued, steps, crashes, history>>

Skips(e, stage) == stage \in Dependents /\ e.syncFailed

\* The head of the loop: pass over a stage that is done, issue startStep for
\* the next one, or issue finishRunForJob after the last.
Choose(w) ==
  LET e == exec[w]
      afterLast == e.pos > Len(Stages)
  IN
  /\ e.at = "choosing"
  /\ \/ afterLast /\ Checked(w, [e EXCEPT !.at = "settling"])
     \/ ~afterLast /\ StageOf(w) \in e.done /\ Checked(w, Next1(e))
     \/ ~afterLast /\ StageOf(w) \notin e.done /\ Checked(w, [e EXCEPT !.at = "starting"])
  /\ UNCHANGED <<job, issued, run, steps, crashes, history>>

\* A statement on the step row of the stage.  It has no fence.
WriteStep(w, status) ==
  /\ steps' = [steps EXCEPT ![StageOf(w)] = status]
  /\ overrun' = (overrun \/ ~Holds(job, exec[w].token))
  /\ UNCHANGED <<worked, gaveUp>>

StartStep(w) ==
  LET e == exec[w] IN
  /\ e.at = "starting"
  /\ WriteStep(w, "running")
  /\ Checked(w, [e EXCEPT !.at = IF Skips(e, StageOf(w)) THEN "recording_skip" ELSE "working"])
  /\ UNCHANGED <<job, issued, run, crashes>>

FinishSkipped(w) ==
  /\ exec[w].at = "recording_skip"
  /\ WriteStep(w, "skipped")
  /\ exec' = [exec EXCEPT ![w] = Next1(exec[w])]
  /\ UNCHANGED <<job, issued, run, crashes>>

\* The stage's port returns.
PortReturns(w) ==
  /\ exec[w].at = "working"
  /\ worked' = worked \cup {StageOf(w)}
  /\ Checked(w, [exec[w] EXCEPT !.at = "recording_success"])
  /\ UNCHANGED <<job, issued, run, steps, crashes, gaveUp, overrun>>

\* The catch clause of the stage: retryable is FALSE for a PipelineStageError
\* of plaid_sync that no retry can cure.
StageFailed(w, retryable) ==
  LET e == exec[w]
      sync == StageOf(w) = SyncStage
  IN Checked(w, [e EXCEPT !.at = "recording_failure", !.anyFailed = TRUE,
                          !.syncFailed = @ \/ sync,
                          !.retry = @ \/ (sync /\ retryable)])

\* The port throws, or there is none for the stage.
PortThrows(w, retryable) ==
  /\ exec[w].at = "working"
  /\ StageFailed(w, retryable)
  /\ UNCHANGED <<job, issued, run, steps, crashes, history>>

FinishSuccess(w) ==
  /\ exec[w].at = "recording_success"
  /\ WriteStep(w, "success")
  /\ exec' = [exec EXCEPT ![w] = Next1(exec[w])]
  /\ UNCHANGED <<job, issued, run, crashes>>

\* finishStep throws inside the try, with the row written or not.
FinishSuccessFault(w) ==
  /\ exec[w].at = "recording_success"
  /\ \/ WriteStep(w, "success")
     \/ UNCHANGED <<steps, history>>
  /\ StageFailed(w, TRUE)
  /\ UNCHANGED <<job, issued, run, crashes>>

FinishFailed(w) ==
  /\ exec[w].at = "recording_failure"
  /\ WriteStep(w, "failed")
  /\ exec' = [exec EXCEPT ![w] = Next1(exec[w])]
  /\ UNCHANGED <<job, issued, run, crashes>>

\* Any other statement of the handler throws: the error leaves the handler.
StatementFault(w) ==
  /\ exec[w].at \in {"loading", "reopening", "starting", "recording_failure",
                     "recording_skip", "settling"}
  /\ Throw(w)
  /\ UNCHANGED <<job, issued, run, steps, crashes, history>>

Outcome(e) == IF e.syncFailed THEN "failed" ELSE IF e.anyFailed THEN "partial" ELSE "success"

\* Mutant: the run is finished by run id alone.
SettleUnfenced(w) ==
  /\ exec[w].at = "settling"
  /\ run' = Outcome(exec[w])
  /\ IF exec[w].retry THEN Throw(w) ELSE Goto(w, "completing")
  /\ UNCHANGED <<job, issued, steps, crashes, history>>

\* finishRunForJob, then the rethrow of a retryable plaid_sync error; runOne
\* completes the job unless the signal was aborted meanwhile.
Settle(w) ==
  LET e == exec[w] IN
  /\ e.at = "settling"
  /\ run' = RunUnderLease(w, Outcome(e))
  /\ IF e.retry \/ e.aborted \/ ~Holds(job, e.token) THEN Throw(w) ELSE Goto(w, "completing")
  /\ UNCHANGED <<job, issued, steps, crashes, history>>

\* The update is committed but its reply is lost.
SettleReplyLost(w) ==
  /\ exec[w].at = "settling"
  /\ run' = RunUnderLease(w, Outcome(exec[w]))
  /\ Throw(w)
  /\ UNCHANGED <<job, issued, steps, crashes, history>>
-----------------------------------------------------------------------------
(* What the poller writes when the handler has ended. *)

Complete(w) ==
  /\ exec[w].at = "completing"
  /\ job' = Completed(job, exec[w].token)
  /\ exec' = [exec EXCEPT ![w] = NotExecuting]
  /\ UNCHANGED <<issued, run, steps, crashes, history>>

\* completeJob throws, with the row completed or not, and the catch clause runs.
CompleteFault(w) ==
  /\ exec[w].at = "completing"
  /\ job' \in {job, Completed(job, exec[w].token)}
  /\ Throw(w)
  /\ UNCHANGED <<issued, run, steps, crashes, history>>

Retry(w, d) ==
  /\ exec[w].at = "retrying"
  /\ job' = Retried(job, exec[w].token, d)
  /\ exec' = [exec EXCEPT ![w] = NotExecuting]
  /\ UNCHANGED <<issued, run, steps, crashes, history>>

\* failJob knows nothing of the run.
Fail(w) ==
  /\ exec[w].at = "failing"
  /\ job' = Failed(job, exec[w].token)
  /\ gaveUp' = (gaveUp \/ Holds(job, exec[w].token))
  /\ exec' = [exec EXCEPT ![w] = NotExecuting]
  /\ UNCHANGED <<issued, run, steps, crashes, worked, overrun>>

\* retryJob or failJob throws: the lease is left to expire.
OutcomeFault(w) ==
  /\ exec[w].at \in {"retrying", "failing"}
  /\ exec' = [exec EXCEPT ![w] = NotExecuting]
  /\ UNCHANGED <<job, issued, run, steps, crashes, history>>

Crash(w) ==
  /\ exec[w].at # "none"
  /\ crashes < MaxCrashes
  /\ crashes' = crashes + 1
  /\ exec' = [exec EXCEPT ![w] = NotExecuting]
  /\ UNCHANGED <<job, issued, run, steps, history>>

Tick ==
  /\ job' = Aged(job)
  /\ job' # job
  /\ UNCHANGED <<issued, run, steps, exec, crashes, history>>
-----------------------------------------------------------------------------
\* Everything an execution does next, or suffers instead.
Proceed(w) ==
  \/ LoadSteps(w) \/ Reopen(w) \/ Choose(w) \/ StartStep(w) \/ FinishSkipped(w)
  \/ PortReturns(w) \/ (\E retryable \in BOOLEAN : PortThrows(w, retryable))
  \/ FinishSuccess(w) \/ FinishSuccessFault(w) \/ FinishFailed(w)
  \/ StatementFault(w) \/ Settle(w) \/ SettleReplyLost(w)
  \/ Complete(w) \/ CompleteFault(w) \/ (\E d \in Delays : Retry(w, d))
  \/ Fail(w) \/ OutcomeFault(w)

WorkerNext(w) == Claim(w) \/ HeartbeatTick(w) \/ Abort(w) \/ Proceed(w) \/ Crash(w)

Next ==
  \/ StartRun
  \/ \E ahead \in 0..Skew : Reap(ahead)
  \/ \E w \in Workers : WorkerNext(w)
  \/ Tick

Spec == Init /\ [][Next]_vars

\* Executions go on, time passes, some worker claims what is due and some
\* worker reaps what is exhausted.
Fairness ==
  /\ WF_vars(Tick)
  /\ WF_vars(\E ahead \in 0..Skew : Reap(ahead))
  /\ WF_vars(\E w \in Workers : Claim(w))
  /\ \A w \in Workers : WF_vars(Proceed(w))

FairSpec == Spec /\ Fairness
-----------------------------------------------------------------------------
(* What a client that polls the run may rely on. *)

\* Once the job is completed or failed the run never changes again: an
\* execution that lost its lease and reaches finishRunForJob or
\* reopenRunForJob late finds the fence closed.
FinalRunIsFinal == [][job.status \in Settled => run' = run]_vars

\* A client never sees a finished job with an unfinished run, except after
\* failJob: a last attempt whose own statement failed is given up without
\* touching the run, which then reads "running" for ever.
RunEndsWithJob ==
  /\ job.status = "completed" => run \in RunSettled
  /\ job.status = "failed" => run \in RunSettled \/ gaveUp

\* Bills are never derived from transactions plaid_sync did not fetch: a
\* dependent stage is at work only after plaid_sync has succeeded in this
\* execution or an earlier one.
DependentsFollowSync ==
  \A w \in Workers :
    exec[w].at = "working" /\ StageOf(w) \in Dependents => SyncStage \in worked

\* "success" is the truth about the stages, although one attempt may rest on
\* steps that several earlier attempts recorded; and it is what the steps show,
\* unless a superseded execution wrote a step: those statements carry no fence.
SuccessIsReal ==
  /\ TypeOK
  /\ run = "success" =>
       /\ worked = StageSet
       /\ ~overrun => \A s \in StageSet : steps[s] = "success"

\* All of the above: what a run says of itself is so, and stays so.
RunTellsTheTruth ==
  [](RunEndsWithJob /\ DependentsFollowSync /\ SuccessIsReal) /\ FinalRunIsFinal

\* A requested run does not read "running" for ever, except after failJob.
RunEventuallySettles == (run = "running") ~> (run \in RunSettled \/ gaveUp)
=============================================================================
