----------------------------- MODULE MCProgress -----------------------------
(***************************************************************************)
(* What must happen in the end: holds on bills, alerts about connections,  *)
(* and the rows the worker sweeps.  Side by side as in MCDomain, next to   *)
(* the payments of bills, whose variables are BillPayments' own.           *)
(***************************************************************************)
EXTENDS MCBillPayments, MCCells

Alerts == INSTANCE SyncHealthAlerts WITH
  Items <- {1}, Runners <- {1, 2}, MaxEvents <- 3, health <- c1, alerts <- c2,
  prefs <- c3, run <- c4, episodes <- c5, pushes <- c6, unmarked <- c7,
  overlapped <- c8, events <- c9

Sweeps == INSTANCE WorkerSweeps WITH
  Worker <- {1}, Period <- 2, Delay <- 1, Lease <- 1, DayLen <- 2, Hour <- 1,
  LastDay <- 1, MaxTries <- 2, MaxEvents <- 1, row <- c10, last <- c11, now <- c12,
  proc <- c13, announced <- c14, accepted <- c15, dispatched <- c16, events <- c17

-----------------------------------------------------------------------------
\* The parts that were not chosen stay in their first state.
InPayments(A) == part = "payments" /\ A /\ UNCHANGED cells
InAlerts(A) == part = "alerts" /\ A /\ Kept10 /\ UNCHANGED vars
InSweeps(A) == part = "sweeps" /\ A /\ UNCHANGED <<part, c1, c2, c3, c4, c5, c6, c7, c8, c9, vars>>

ProgressInit ==
  /\ part \in {"payments", "alerts", "sweeps"}
  /\ Init /\ Alerts!Init /\ Sweeps!Init

ProgressNext == InPayments(Next) \/ InAlerts(Alerts!Next) \/ InSweeps(Sweeps!Next)

\* The fairness of each part's own specification.
all == <<cells, vars>>
ProgressSpec ==
  /\ ProgressInit /\ [][ProgressNext]_all
  /\ WF_all(InPayments(JobStatement))
  /\ WF_all(InAlerts(Alerts!Work(1))) /\ WF_all(InAlerts(Alerts!Work(2)))
  /\ WF_all(InAlerts(\E w \in {1, 2} : Alerts!Start(w)))
  /\ WF_all(InSweeps(Sweeps!Tick))
  /\ WF_all(InSweeps(Sweeps!SweepStep(1))) /\ WF_all(InSweeps(Sweeps!Fire(1)))
  /\ WF_all(InSweeps(Sweeps!StartWorker(1))) /\ WF_all(InSweeps(Sweeps!Shutdown(1)))
  /\ \A r \in Sweeps!Row : WF_all(InSweeps(Sweeps!Finish(1, r) \/ Sweeps!PutOff(1, r)))

-----------------------------------------------------------------------------
\* A connection that stays broken is pushed about, one that works again has no
\* open alert, and an episode is alerted once (SyncHealthAlerts).
OneAlertPerEpisode == Alerts!OneAlertPerEpisode

\* Every row of durable work is done in the end, and the schedule catches up,
\* whatever calls are lost and processes end (WorkerSweeps).
WorkIsSwept ==
  /\ [](part = "sweeps" => Sweeps!SweepsAreExact)
  /\ <>[](part = "sweeps" => Sweeps!AllSwept)
=============================================================================
