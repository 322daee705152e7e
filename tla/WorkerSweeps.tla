---------------------------- MODULE WorkerSweeps ----------------------------
(***************************************************************************)
(* When a worker process looks for work: wake-ups, the timer of the safety *)
(* sweep and of the next retry, the daily schedules, start and shutdown    *)
(* (entrypoints/worker.ts, app/create-worker.ts, worker-wake.ts, the       *)
(* adapters of default-worker-adapters.ts, scheduler.ts and                *)
(* dispatchSchedule of pipeline.repository.ts).                            *)
(*                                                                         *)
(* What the pollers do with a row is in JobsPoller and InboundEvents; here *)
(* a row is claimed, and done, put off or abandoned.  Time is counted down *)
(* in ticks: to a row's due time, to the end of an abandoned lease, to the *)
(* end of a timer.  A timer and a request in the same turn of the event    *)
(* loop do not occur, so each transition of the sweep loop is one step.    *)
(***************************************************************************)
EXTENDS Integers, FiniteSets, FiniteSetsExt

CONSTANTS
  Worker,     \* processes
  Period,     \* ticks between safety sweeps; 0 turns them off
  Delay,      \* ticks until a retry
  Lease,      \* ticks until an abandoned row may be claimed again
  DayLen,     \* ticks of a day
  Hour,       \* when in the day the schedule is due
  LastDay,    \* bound: the clock stops at the end of this day
  MaxTries,   \* bound: attempts for a row
  MaxEvents   \* bound: crashes, shutdowns and failed statements

\* 0 stands for nobody in the owner of a row.
SweepsAssumption ==
  /\ 0 \notin Worker
  /\ {Period, Delay, Lease, Hour, LastDay, MaxTries, MaxEvents} \subseteq Nat
  /\ DayLen \in Nat \ {0}

VARIABLES
  row,        \* durable work
  last,       \* last_dispatched_for of the schedule
  now,
  proc,       \* the state of each process
  announced,  \* rows the API has committed and not yet called about
  accepted,   \* history: rows each process was called about and has not seen claimed
  dispatched, \* history: how often the schedule was dispatched for a day
  events

vars == <<row, last, now, proc, announced, accepted, dispatched, events>>

Day == 1..LastDay
Row == {<<"jobs", 0>>, <<"inbound", 0>>} \cup {<<"jobs", d>> : d \in Day}
Never == -1
Absent == [status |-> "absent", left |-> 0, tries |-> 0, owner |-> 0]
Down == [at |-> "down", stop |-> "no", requested |-> FALSE, timer |-> Never, seen |-> 0,
         overrun |-> FALSE]

Init ==
  /\ row = [r \in Row |-> Absent]
  /\ last = 0 /\ now = 0
  /\ proc = [w \in Worker |-> Down]
  /\ announced = {} /\ accepted = [w \in Worker |-> {}]
  /\ dispatched = [d \in Day |-> 0] /\ events = 0

Event == events < MaxEvents /\ events' = events + 1

\* At or after the hour of a day.
LocalDate == Min({LastDay, now \div DayLen + (IF now % DayLen >= Hour THEN 1 ELSE 0)})

Pending == [Absent EXCEPT !.status = "pending"]

\* Due, or abandoned and its lease run out.
Claimable(r) ==
  /\ row[r].left = 0
  /\ row[r].status = "pending" \/ (row[r].status = "running" /\ row[r].owner = 0)

-----------------------------------------------------------------------------
(* The API and the receiver of webhooks. *)

\* enqueueAndWake: the row is committed before the worker is called.
Enqueue ==
  LET r == <<"jobs", 0>> IN
  /\ row[r] = Absent
  /\ row' = [row EXCEPT ![r] = Pending]
  /\ announced' = announced \cup {r}
  /\ UNCHANGED <<last, now, proc, accepted, dispatched, events>>

\* Webhooks are stored elsewhere, and nobody is called.
Webhook ==
  LET r == <<"inbound", 0>> IN
  /\ row[r] = Absent
  /\ row' = [row EXCEPT ![r] = Pending]
  /\ UNCHANGED <<last, now, proc, announced, accepted, dispatched, events>>

\* Mutant: a request that finds a sweep under way joins it.
JoinsSweep(p) == IF p.at = "idle" THEN [p EXCEPT !.timer = Never, !.requested = TRUE] ELSE p

\* triggerSweep: one more round, now or after the one that is under way.
TriggerSweep(p) == [p EXCEPT !.timer = Never, !.requested = TRUE]

Listens(w) == proc[w].at # "down" /\ proc[w].stop = "no"

\* Best effort: the call is accepted or lost.
WakeWorker(r) ==
  /\ r \in announced
  /\ announced' = announced \ {r}
  /\ \/ \E w \in Worker :
          /\ Listens(w)
          /\ proc' = [proc EXCEPT ![w] = TriggerSweep(@)]
          /\ accepted' = [accepted EXCEPT ![w] = IF Claimable(r) THEN @ \cup {r} ELSE @]
     \/ UNCHANGED <<proc, accepted>>
  /\ UNCHANGED <<row, last, now, dispatched, events>>

-----------------------------------------------------------------------------
(* A sweep: the scheduler, the inbound events, the jobs. *)

\* The adapters are told to stop one after the other, the last one first.
Stopping(p, adapter) ==
  \/ p.stop \in {adapter, "closed"}
  \/ adapter = "jobs" /\ p.stop # "no"
  \/ adapter = "inbound" /\ p.stop = "scheduler"

\* After the last adapter, or when the worker stops: another round if one was
\* asked for meanwhile.
AfterSweep(p) ==
  IF p.stop # "no" THEN [p EXCEPT !.at = "stopped"]
  ELSE IF p.requested THEN [p EXCEPT !.at = "list", !.requested = FALSE]
  ELSE [p EXCEPT !.at = "arm"]

NextAdapter(p) ==
  IF p.stop # "no" \/ p.at = "jobs" THEN AfterSweep(p)
  ELSE [p EXCEPT !.at = IF @ = "inbound" THEN "jobs" ELSE "inbound"]

Begin(w) ==
  /\ proc[w].at = "idle" /\ proc[w].requested /\ proc[w].stop = "no"
  /\ proc' = [proc EXCEPT ![w].at = "list", ![w].requested = FALSE]
  /\ UNCHANGED <<row, last, now, announced, accepted, dispatched, events>>

\* Schedules that look undispatched when they are read.
ListEnabledSchedules(w) ==
  /\ proc[w].at = "list"
  /\ proc' = [proc EXCEPT ![w].at = "dispatch",
                          ![w].seen = IF last < LocalDate THEN LocalDate ELSE 0]
  /\ UNCHANGED <<row, last, now, announced, accepted, dispatched, events>>

\* A failed list ends the sweep: the queues are not drained.
ListFault(w) ==
  /\ Event /\ proc[w].at = "list"
  /\ proc' = [proc EXCEPT ![w] = AfterSweep(@)]
  /\ accepted' = [accepted EXCEPT ![w] = {}]
  /\ UNCHANGED <<row, last, now, announced, dispatched>>

\* Mutant: what was read decides.
AsListed(d) == d # 0

\* The row of the schedule is locked and looked at again.
NotDispatched(d) == d # 0 /\ last < d

\* The job and last_dispatched_for are one transaction; a scheduler told to
\* stop rolls it back.
DispatchSchedule(w) ==
  LET d == proc[w].seen IN
  /\ proc[w].at = "dispatch"
  /\ IF NotDispatched(d) /\ ~Stopping(proc[w], "scheduler")
     THEN /\ row' = [row EXCEPT ![<<"jobs", d>>] = Pending]
          /\ last' = d
          /\ dispatched' = [dispatched EXCEPT ![d] = @ + 1]
     ELSE UNCHANGED <<row, last, dispatched>>
  /\ proc' = [proc EXCEPT ![w] = NextAdapter([@ EXCEPT !.seen = 0])]
  /\ UNCHANGED <<now, announced, accepted, events>>

DispatchFault(w) ==
  /\ Event /\ proc[w].at = "dispatch"
  /\ proc' = [proc EXCEPT ![w] = NextAdapter([@ EXCEPT !.seen = 0])]
  /\ UNCHANGED <<row, last, now, announced, accepted, dispatched>>

Own(w) == {r \in Row : row[r].status = "running" /\ row[r].owner = w}

Claim(w, r) ==
  /\ proc[w].at = r[1] /\ ~Stopping(proc[w], r[1])
  /\ Claimable(r)
  /\ row' = [row EXCEPT ![r] = [status |-> "running", left |-> 0, tries |-> @.tries + 1, owner |-> w]]
  /\ accepted' = [v \in Worker |-> accepted[v] \ {r}]
  /\ UNCHANGED <<last, now, proc, announced, dispatched, events>>

\* A handler ends: well, for good, or to be tried again later; what ends while
\* its poller stops is written nowhere.
Finish(w, r) ==
  /\ r \in Own(w)
  /\ row' = [row EXCEPT ![r] = IF Stopping(proc[w], r[1]) THEN [@ EXCEPT !.owner = 0, !.left = Lease]
                               ELSE [@ EXCEPT !.status = "done", !.owner = 0]]
  /\ UNCHANGED <<last, now, proc, announced, accepted, dispatched, events>>

PutOff(w, r) ==
  /\ r \in Own(w) /\ ~Stopping(proc[w], r[1])
  /\ row[r].tries < MaxTries
  /\ row' = [row EXCEPT ![r] = [@ EXCEPT !.status = "pending", !.owner = 0, !.left = Delay]]
  /\ UNCHANGED <<last, now, proc, announced, accepted, dispatched, events>>

DrainEnds(w) ==
  LET q == proc[w].at IN
  /\ q \in {"inbound", "jobs"} /\ Own(w) = {}
  /\ Stopping(proc[w], q) \/ \A r \in Row : r[1] = q => ~Claimable(r)
  /\ proc' = [proc EXCEPT ![w] = NextAdapter(@)]
  /\ UNCHANGED <<row, last, now, announced, accepted, dispatched, events>>

\* A claim that fails is logged and ends the drain.
DrainFault(w) ==
  /\ Event /\ proc[w].at \in {"inbound", "jobs"} /\ Own(w) = {}
  /\ proc' = [proc EXCEPT ![w] = NextAdapter(@)]
  /\ accepted' = [accepted EXCEPT ![w] = {}]
  /\ UNCHANGED <<row, last, now, announced, dispatched>>

-----------------------------------------------------------------------------
(* The timer. *)

\* Times strictly after now, of pending rows only.
Deadlines == {row[r].left : r \in {r \in Row : row[r].status = "pending"}} \ {0}

\* The earlier of the next deadline, if it could be read, and the safety sweep.
NextSweep(times) ==
  LET all == times \cup (IF Period > 0 THEN {Period} ELSE {}) IN
  IF all = {} THEN Never ELSE Min(all)

ScheduleNextSweep(w) ==
  /\ proc[w].at = "arm" /\ proc[w].stop = "no"
  /\ \E times \in {{}, Deadlines} :
       proc' = [proc EXCEPT ![w] =
                  IF @.requested THEN [@ EXCEPT !.at = "list", !.requested = FALSE]
                  ELSE [@ EXCEPT !.at = "idle", !.timer = NextSweep(times)]]
  /\ UNCHANGED <<row, last, now, announced, accepted, dispatched, events>>

Fire(w) ==
  /\ proc[w].timer = 0
  /\ proc' = [proc EXCEPT ![w] = TriggerSweep(@)]
  /\ UNCHANGED <<row, last, now, announced, accepted, dispatched, events>>

Tick ==
  /\ now' = Min({now + 1, LastDay * DayLen})
  /\ row' = [r \in Row |-> [row[r] EXCEPT !.left = Max({0, @ - 1})]]
  /\ proc' = [w \in Worker |-> [proc[w] EXCEPT !.timer = IF @ > 0 THEN @ - 1 ELSE @]]
  /\ UNCHANGED <<last, announced, accepted, dispatched, events>>

-----------------------------------------------------------------------------
(* Start and shutdown. *)

\* A process that has started sweeps at once.
StartWorker(w) ==
  /\ proc[w].at = "down"
  /\ proc' = [proc EXCEPT ![w] = TriggerSweep([Down EXCEPT !.at = "idle"])]
  /\ UNCHANGED <<row, last, now, announced, accepted, dispatched, events>>

\* No more calls and timers; then the adapters, the last one first, and the
\* connection to the database.
Close(w) ==
  /\ Event /\ Listens(w)
  /\ proc' = [proc EXCEPT ![w] = [@ EXCEPT !.stop = "jobs", !.timer = Never]]
  /\ accepted' = [accepted EXCEPT ![w] = {}]
  /\ UNCHANGED <<row, last, now, announced, dispatched>>

Working(p, adapter) ==
  p.at \in (IF adapter = "scheduler" THEN {"list", "dispatch"} ELSE {adapter})

AfterStopOf(adapter) ==
  CASE adapter = "jobs" -> "inbound" [] adapter = "inbound" -> "scheduler" [] OTHER -> "closed"

\* Waits for what the adapter is doing, up to a deadline.
StopAdapter(w) ==
  LET p == proc[w] IN
  /\ p.stop \in {"jobs", "inbound", "scheduler"}
  /\ ~Working(p, p.stop)
  /\ proc' = [proc EXCEPT ![w].stop = AfterStopOf(@)]
  /\ UNCHANGED <<row, last, now, announced, accepted, dispatched, events>>

ShutdownTimeout(w) ==
  LET p == proc[w] IN
  /\ p.stop \in {"jobs", "inbound", "scheduler"}
  /\ Working(p, p.stop)
  /\ proc' = [proc EXCEPT ![w].stop = AfterStopOf(@), ![w].overrun = TRUE]
  /\ UNCHANGED <<row, last, now, announced, accepted, dispatched, events>>

\* What the process had claimed is left to its leases.
Gone(w) ==
  /\ proc' = [proc EXCEPT ![w] = Down]
  /\ row' = [r \in Row |-> IF r \in Own(w) THEN [row[r] EXCEPT !.owner = 0, !.left = Lease] ELSE row[r]]
  /\ accepted' = [accepted EXCEPT ![w] = {}]
  /\ UNCHANGED <<last, now, announced, dispatched>>

Exit(w) == proc[w].stop = "closed" /\ Gone(w) /\ UNCHANGED events

Crash(w) == Event /\ proc[w].at # "down" /\ Gone(w)

SweepStep(w) ==
  \/ Begin(w) \/ ListEnabledSchedules(w) \/ DispatchSchedule(w) \/ DrainEnds(w)
  \/ \E r \in Row : Claim(w, r)
  \/ ScheduleNextSweep(w)

Fault(w) == ListFault(w) \/ DispatchFault(w) \/ DrainFault(w) \/ Crash(w)

Shutdown(w) == StopAdapter(w) \/ ShutdownTimeout(w) \/ Exit(w)

Next ==
  \/ Enqueue \/ Webhook \/ Tick
  \/ \E r \in Row : WakeWorker(r)
  \/ \E w \in Worker :
       \/ SweepStep(w) \/ Fault(w) \/ Shutdown(w)
       \/ \E r \in Row : Finish(w, r) \/ PutOff(w, r)
       \/ Fire(w) \/ StartWorker(w) \/ Close(w)

\* Time passes, timers fire, handlers end, and a process that has ended is
\* started again.
Fairness ==
  /\ WF_vars(Tick)
  /\ \A w \in Worker :
       /\ WF_vars(SweepStep(w)) /\ WF_vars(Fire(w)) /\ WF_vars(StartWorker(w)) /\ WF_vars(Shutdown(w))
       /\ \A r \in Row : WF_vars(Finish(w, r) \/ PutOff(w, r))

Spec == Init /\ [][Next]_vars /\ Fairness

-----------------------------------------------------------------------------
Asleep(w) == proc[w].at = "idle" /\ ~proc[w].requested /\ proc[w].stop = "no"

\* Two processes that read the same schedule dispatch it once for a day; a
\* worker goes to sleep only with a timer set, if there are safety sweeps, and
\* not before it, or another worker, has claimed what it was called about, also
\* when the call came in the middle of a sweep; and the database is closed only
\* when the adapters are quiet or have used up their time.
SweepsAreExact ==
  /\ \A r \in Row : row[r].status \in {"absent", "pending", "running", "done"}
  /\ \A d \in Day : dispatched[d] <= 1
  /\ \A w \in Worker : Asleep(w) => (Period > 0 => proc[w].timer \in 0..Period) /\ accepted[w] = {}
  /\ \A w \in Worker : (proc[w].stop = "closed" /\ ~proc[w].overrun) => proc[w].at \in {"idle", "arm", "stopped"}

\* However calls are lost, sweeps fail and processes end in the middle of a
\* row, every row is done in the end, and the schedule catches up.
AllSwept == last = LastDay /\ \A r \in Row : row[r].status \in {"absent", "done"}
WorkIsSwept == []SweepsAreExact /\ <>[]AllSwept
=============================================================================
