------------------------- MODULE WorkerSweepsProofs -------------------------
(***************************************************************************)
(* SweepsAreExact holds of every instance of WorkerSweeps: any number of   *)
(* processes, any periods, delays and leases, any crashes and faults.      *)
(***************************************************************************)
EXTENDS WorkerSweeps, WellFoundedInduction, TLAPS

\* 0, or a day.
Dates == {d \in Int : d <= LastDay}

Proc == [at : {"down", "idle", "list", "dispatch", "inbound", "jobs", "arm", "stopped"},
         stop : {"no", "jobs", "inbound", "scheduler", "closed"},
         requested : BOOLEAN, timer : Int, seen : Dates, overrun : BOOLEAN]

Work == [status : {"absent", "pending", "running", "done"}, left : Nat, tries : Nat,
         owner : Worker \cup {0}]

TypeOK ==
  /\ row \in [Row -> Work]
  /\ last \in Nat
  /\ now \in Nat
  /\ proc \in [Worker -> Proc]
  /\ announced \subseteq Row
  /\ accepted \in [Worker -> SUBSET Row]
  /\ dispatched \in [Day -> Nat]
  /\ events \in Nat

\* Adapters that were stopped in time are quiet: the jobs first, the scheduler
\* last.
InOrder(p) ==
  ~p.overrun =>
    /\ p.stop \in {"inbound", "scheduler", "closed"} => p.at # "jobs"
    /\ p.stop \in {"scheduler", "closed"} => p.at # "inbound"
    /\ p.stop = "closed" => p.at \notin {"list", "dispatch"}

\* A process that was called about the rows of called looks for them: one more
\* round was asked for, or this one has yet to come to their queue.
Looks(p, called) ==
  \A r \in called :
    /\ p.stop = "no"
    /\ \/ p.requested
       \/ p.at \in {"list", "dispatch", "inbound"}
       \/ p.at = "jobs" /\ r[1] = "jobs"

ProcSound(p, called) ==
  /\ p.at = "down" => p.stop = "no"
  /\ InOrder(p)
  /\ p.at = "idle" /\ ~p.requested /\ p.stop = "no" /\ Period > 0 => p.timer \in 0..Period
  /\ Looks(p, called)

\* Rows stay claimable until they are claimed, and then nobody waits for them.
CallsOpen == \A w \in Worker : \A r \in accepted[w] : Claimable(r)

\* The schedule is never dispatched for a day after the last one recorded.
DispatchesPast ==
  \A d \in Day : dispatched[d] <= 1 /\ (dispatched[d] > 0 => d <= last)

IInv ==
  /\ TypeOK
  /\ CallsOpen
  /\ DispatchesPast
  /\ \A w \in Worker : ProcSound(proc[w], accepted[w])
-----------------------------------------------------------------------------
(* Lemmas about numbers and rows. *)

\* Rows are jobs or inbound events.
LEMMA RowIs == \A r \in Row : r[1] \in {"jobs", "inbound"}
BY DEF Row

\* The least of some natural numbers is one of them.
LEMMA MinIs ==
  ASSUME NEW S \in SUBSET Nat, S # {}
  PROVE  Min(S) \in S /\ \A x \in S : Min(S) <= x
<1> DEFINE R == {ss \in Nat \X Nat : ss[1] < ss[2]}
<1>1. IsWellFoundedOn(R, Nat)
  BY ONLY NatLessThanWellFounded DEF OpToRel
<1>2. \E x \in S : \A y \in S : ~(<<y, x>> \in R)
  <2> HIDE DEF R
  <2> QED BY <1>1, WFMin
<1>3. PICK x \in S : \A y \in S : ~(<<y, x>> \in R)
  BY <1>2
<1>4. \A y \in S : x <= y
  <2> TAKE y \in S
  <2>1. y < x => <<y, x>> \in R
    BY Zenon
  <2> QED BY <1>3, <2>1
<1> QED BY <1>4 DEF Min

\* The timer is armed no later than the next safety sweep.
LEMMA NextSweepIs ==
  ASSUME SweepsAssumption, NEW times \in SUBSET Nat
  PROVE  NextSweep(times) \in Int /\ (Period > 0 => NextSweep(times) \in 0..Period)
<1> DEFINE all == times \cup (IF Period > 0 THEN {Period} ELSE {})
<1>1. Period \in Nat /\ all \in SUBSET Nat
  BY DEF SweepsAssumption
<1>2. all # {} => Min(all) \in all /\ \A x \in all : Min(all) <= x
  BY <1>1, MinIs
<1>3. NextSweep(times) = IF all = {} THEN Never ELSE Min(all)
  BY DEF NextSweep
<1>4. Period > 0 => Period \in all
  OBVIOUS
<1> HIDE DEF all
<1>5. CASE all = {}
  BY <1>3, <1>4, <1>5 DEF Never
<1>6. CASE all # {}
  <2>1. NextSweep(times) = Min(all) /\ Min(all) \in Nat
    BY <1>1, <1>2, <1>3, <1>6
  <2> QED BY <1>1, <1>2, <1>4, <1>6, <2>1
<1> QED BY <1>5, <1>6

\* A countdown goes no further than zero.
LEMMA CountdownIs ==
  ASSUME NEW n \in Nat
  PROVE  Max({0, n - 1}) \in Nat /\ (n = 0 => Max({0, n - 1}) = 0)
<1>1. \E x \in {0, n - 1} : \A y \in {0, n - 1} : x >= y
  OBVIOUS
<1>2. /\ Max({0, n - 1}) \in {0, n - 1}
      /\ \A y \in {0, n - 1} : Max({0, n - 1}) >= y
  BY <1>1 DEF Max
<1> QED BY <1>2

\* The clock knows no day after the last one.
LEMMA LocalDateIs ==
  ASSUME SweepsAssumption, now \in Nat
  PROVE  LocalDate \in Int /\ LocalDate <= LastDay
<1> DEFINE d == now \div DayLen + (IF now % DayLen >= Hour THEN 1 ELSE 0)
<1>1. LastDay \in Nat /\ now \in Nat /\ DayLen \in Nat \ {0}
  BY DEF SweepsAssumption
<1>2. d \in Int
  BY <1>1
<1> HIDE DEF d
<1>3. \E x \in {LastDay, d} : \A y \in {LastDay, d} : x <= y
  BY <1>1, <1>2
<1>4. Min({LastDay, d}) \in {LastDay, d} /\ \A y \in {LastDay, d} : Min({LastDay, d}) <= y
  BY <1>3 DEF Min
<1> QED BY <1>1, <1>2, <1>4 DEF LocalDate, d
-----------------------------------------------------------------------------
(* What moves do to a process. *)

\* What asking for one more round leaves alone.
LEMMA TriggerIs ==
  ASSUME NEW p \in Proc
  PROVE  LET q == TriggerSweep(p) IN
         q \in Proc /\ q.at = p.at /\ q.stop = p.stop /\ q.overrun = p.overrun /\ q.requested
<1> DEFINE q == TriggerSweep(p)
           untimed == [p EXCEPT !.timer = Never]
<1>1. /\ untimed \in Proc /\ untimed.at = p.at /\ untimed.stop = p.stop
      /\ untimed.overrun = p.overrun
  BY DEF Proc, Never
<1>2. q = [untimed EXCEPT !.requested = TRUE]
  BY DEF TriggerSweep
<1> HIDE DEF q, untimed
<1>3. q \in Proc /\ q.at = p.at /\ q.stop = p.stop /\ q.overrun = p.overrun /\ q.requested
  BY <1>1, <1>2 DEF Proc
<1> QED BY <1>3 DEF q

\* A call, or a timer that fires, asks for one more round.
LEMMA TriggerSound ==
  ASSUME NEW p \in Proc, NEW called, ProcSound(p, called),
         NEW more, more = called \/ p.stop = "no"
  PROVE  TriggerSweep(p) \in Proc /\ ProcSound(TriggerSweep(p), more)
<1> DEFINE q == TriggerSweep(p)
<1>1. q \in Proc /\ q.at = p.at /\ q.stop = p.stop /\ q.overrun = p.overrun /\ q.requested
  BY TriggerIs
<1> HIDE DEF q
<1>2. ProcSound(q, more)
  BY <1>1 DEF ProcSound, InOrder, Looks
<1> QED BY <1>1, <1>2 DEF q

\* A process that is down was called about nothing.
LEMMA DownIs ==
  ASSUME SweepsAssumption
  PROVE  Down \in Proc /\ Down.stop = "no" /\ ProcSound(Down, {})
<1>1. 0 \in Dates
  BY DEF SweepsAssumption, Dates
<1>2. Down \in Proc /\ Down.stop = "no"
  BY <1>1 DEF Down, Proc, Never
<1>3. ProcSound(Down, {})
  BY DEF Down, ProcSound, InOrder, Looks
<1> QED BY <1>2, <1>3

\* After a round comes another one, if one was asked for; calls it was made for
\* are not forgotten.
LEMMA AfterSweepSound ==
  ASSUME NEW p \in Proc, NEW called, p.at # "down", ProcSound(p, called),
         called # {} => p.requested
  PROVE  AfterSweep(p) \in Proc /\ ProcSound(AfterSweep(p), called)
<1>1. CASE p.stop # "no"
  <2>1. AfterSweep(p) = [p EXCEPT !.at = "stopped"]
    BY <1>1 DEF AfterSweep
  <2>2. called = {}
    BY <1>1 DEF ProcSound, Looks
  <2> QED BY <1>1, <2>1, <2>2 DEF Proc, ProcSound, InOrder, Looks
<1>2. CASE p.stop = "no" /\ p.requested
  <2>1. AfterSweep(p) = [p EXCEPT !.at = "list", !.requested = FALSE]
    BY <1>2 DEF AfterSweep
  <2> QED BY <1>2, <2>1 DEF Proc, ProcSound, InOrder, Looks
<1>3. CASE p.stop = "no" /\ ~p.requested
  <2>1. AfterSweep(p) = [p EXCEPT !.at = "arm"]
    BY <1>3 DEF AfterSweep
  <2> QED BY <1>3, <2>1 DEF Proc, ProcSound, InOrder, Looks
<1> QED BY <1>1, <1>2, <1>3

\* The next adapter, once nothing it was called about is left in this queue.
LEMMA NextAdapterSound ==
  ASSUME NEW p \in Proc, NEW called \in SUBSET Row, ProcSound(p, called),
         p.at \in {"dispatch", "inbound", "jobs"},
         \A r \in called : p.requested \/ r[1] # p.at
  PROVE  NextAdapter(p) \in Proc /\ ProcSound(NextAdapter(p), called)
<1>1. CASE p.stop # "no" \/ p.at = "jobs"
  <2>1. NextAdapter(p) = AfterSweep(p)
    BY <1>1 DEF NextAdapter
  <2>2. called # {} => p.requested
    BY <1>1 DEF ProcSound, Looks
  <2> QED BY <2>1, <2>2, AfterSweepSound
<1>2. CASE p.stop = "no" /\ p.at = "inbound"
  <2>1. NextAdapter(p) = [p EXCEPT !.at = "jobs"]
    BY <1>2 DEF NextAdapter
  <2>2. \A r \in called : p.requested \/ r[1] = "jobs"
    BY <1>2, RowIs
  <2> QED BY <1>2, <2>1, <2>2 DEF Proc, ProcSound, InOrder, Looks
<1>3. CASE p.stop = "no" /\ p.at = "dispatch"
  <2>1. NextAdapter(p) = [p EXCEPT !.at = "inbound"]
    BY <1>3 DEF NextAdapter
  <2> QED BY <1>3, <2>1 DEF Proc, ProcSound, InOrder, Looks
<1> QED BY <1>1, <1>2, <1>3
-----------------------------------------------------------------------------
(* What moves do to the invariant. *)

\* One process moves; rows that could be claimed still can.
LEMMA ProcMoves ==
  ASSUME IInv, NEW w \in Worker, NEW p \in Proc, proc' = [proc EXCEPT ![w] = p],
         NEW called \in SUBSET Row, accepted' = [accepted EXCEPT ![w] = called],
         ProcSound(p, called), \A r \in called : Claimable(r)',
         \A r \in Row : Claimable(r) => Claimable(r)',
         row' \in [Row -> Work], last' \in Nat, now' \in Nat, announced' \subseteq Row,
         dispatched' \in [Day -> Nat], events' \in Nat, DispatchesPast'
  PROVE  IInv'
<1>1. proc \in [Worker -> Proc] /\ accepted \in [Worker -> SUBSET Row]
  BY DEF IInv, TypeOK
<1>2. TypeOK'
  BY <1>1 DEF TypeOK
<1>3. \A v \in Worker : ProcSound(proc[v], accepted[v])
  BY DEF IInv
<1>4. ASSUME NEW v \in Worker
      PROVE  ProcSound(proc'[v], accepted'[v])
  <2>1. CASE v = w
    BY <1>1, <2>1
  <2>2. CASE v # w
    <3>1. proc'[v] = proc[v] /\ accepted'[v] = accepted[v]
      BY <1>1, <2>2
    <3> QED BY <1>3, <3>1
  <2> QED BY <2>1, <2>2
<1>5. CallsOpen'
  <2> SUFFICES ASSUME NEW v \in Worker, NEW r \in accepted'[v]
               PROVE  Claimable(r)'
    BY DEF CallsOpen
  <2>1. CASE v = w
    BY <1>1, <2>1
  <2>2. CASE v # w
    BY <1>1, <2>2 DEF IInv, CallsOpen
  <2> QED BY <2>1, <2>2
<1> QED BY <1>2, <1>4, <1>5 DEF IInv

\* One process moves, and nothing else, except that its calls may be forgotten.
LEMMA OnlyProcMoves ==
  ASSUME IInv, NEW w \in Worker, NEW p \in Proc, proc' = [proc EXCEPT ![w] = p],
         NEW called \in {accepted[w], {}}, ProcSound(p, called),
         accepted' = [accepted EXCEPT ![w] = called] \/ (called = accepted[w] /\ accepted' = accepted),
         UNCHANGED <<row, last, now, dispatched>>, announced' \subseteq Row, events' \in Nat
  PROVE  IInv'
<1>1. /\ accepted \in [Worker -> SUBSET Row] /\ row \in [Row -> Work] /\ last \in Nat /\ now \in Nat
      /\ dispatched \in [Day -> Nat] /\ DispatchesPast
  BY DEF IInv, TypeOK
<1>2. accepted' = [accepted EXCEPT ![w] = called] /\ called \in SUBSET Row
  BY <1>1
<1>3. \A r : Claimable(r) => Claimable(r)'
  BY DEF Claimable
<1>4. \A r \in called : Claimable(r)'
  BY <1>3 DEF IInv, CallsOpen
<1>5. DispatchesPast'
  BY <1>1 DEF DispatchesPast
<1> QED BY <1>1, <1>2, <1>3, <1>4, <1>5, ProcMoves

\* No process moves; calls are forgotten at most.
LEMMA RowsMove ==
  ASSUME IInv, proc' = proc, accepted' \in [Worker -> SUBSET Row],
         \A v \in Worker : accepted'[v] \subseteq accepted[v],
         \A v \in Worker : \A r \in accepted'[v] : Claimable(r)',
         row' \in [Row -> Work], announced' \subseteq Row,
         UNCHANGED <<last, now, dispatched, events>>
  PROVE  IInv'
<1>1. TypeOK' /\ DispatchesPast'
  BY DEF IInv, TypeOK, DispatchesPast
<1>2. CallsOpen'
  BY DEF CallsOpen
<1>3. \A v \in Worker : ProcSound(proc[v], accepted'[v])
  BY DEF IInv, ProcSound, Looks
<1> QED BY <1>1, <1>2, <1>3 DEF IInv
-----------------------------------------------------------------------------
(* The API, and calls. *)

\* New rows are rows, and due.
LEMMA PendingIs == Pending \in Work /\ Absent \in Work /\ Pending.status = "pending" /\ Pending.left = 0
BY DEF Pending, Absent, Work

\* A row that is new could not be claimed before.
LEMMA EnqueueKeeps ==
  ASSUME IInv, Enqueue \/ Webhook
  PROVE  IInv'
<1>1. PICK r \in Row : /\ row[r] = Absent /\ row' = [row EXCEPT ![r] = Pending]
                       /\ announced' \subseteq announced \cup {r}
                       /\ UNCHANGED <<last, now, proc, accepted, dispatched, events>>
  BY DEF Enqueue, Webhook, Row
<1>2. row \in [Row -> Work] /\ announced \subseteq Row /\ accepted \in [Worker -> SUBSET Row]
  BY DEF IInv, TypeOK
<1>3. \A s \in Row : Claimable(s) => Claimable(s)'
  <2> SUFFICES ASSUME NEW s \in Row, Claimable(s)
               PROVE  Claimable(s)'
    OBVIOUS
  <2>1. s # r
    BY <1>1 DEF Claimable, Absent
  <2>2. row'[s] = row[s]
    BY <1>1, <1>2, <2>1
  <2> QED BY <2>2 DEF Claimable
<1>4. \A v \in Worker : \A s \in accepted'[v] : Claimable(s)'
  BY <1>1, <1>2, <1>3 DEF IInv, CallsOpen
<1>5. row' \in [Row -> Work]
  BY <1>1, <1>2, PendingIs
<1> QED BY <1>1, <1>2, <1>4, <1>5, RowsMove

\* A call that is accepted asks for one more round.
LEMMA WakeKeeps ==
  ASSUME IInv, NEW r \in Row, WakeWorker(r)
  PROVE  IInv'
<1>1. /\ announced' = announced \ {r} /\ UNCHANGED <<row, last, now, dispatched, events>>
      /\ announced' \subseteq Row
  BY DEF WakeWorker, IInv, TypeOK
<1>2. /\ accepted \in [Worker -> SUBSET Row] /\ row \in [Row -> Work] /\ last \in Nat /\ now \in Nat
      /\ dispatched \in [Day -> Nat] /\ DispatchesPast /\ proc \in [Worker -> Proc] /\ events \in Nat
  BY DEF IInv, TypeOK
<1>3. CASE UNCHANGED <<proc, accepted>>
  <2>1. \A v \in Worker : \A s \in accepted'[v] : Claimable(s)'
    BY <1>1, <1>3 DEF IInv, CallsOpen, Claimable
  <2> QED BY <1>1, <1>2, <1>3, <2>1, RowsMove
<1>4. ASSUME NEW w \in Worker, Listens(w), proc' = [proc EXCEPT ![w] = TriggerSweep(@)],
             accepted' = [accepted EXCEPT ![w] = IF Claimable(r) THEN @ \cup {r} ELSE @]
      PROVE  IInv'
  <2> DEFINE p == TriggerSweep(proc[w])
             called == IF Claimable(r) THEN accepted[w] \cup {r} ELSE accepted[w]
  <2>1. proc' = [proc EXCEPT ![w] = p] /\ accepted' = [accepted EXCEPT ![w] = called]
    BY <1>4
  <2>2. proc[w] \in Proc /\ proc[w].stop = "no" /\ ProcSound(proc[w], accepted[w])
    BY <1>2, <1>4 DEF Listens, IInv
  <2>3. p \in Proc /\ ProcSound(p, called)
    BY <2>2, TriggerSound
  <2>4. \A s : Claimable(s) => Claimable(s)'
    BY <1>1 DEF Claimable
  <2>5. called \in SUBSET Row /\ \A s \in called : Claimable(s)'
    BY <1>2, <2>4 DEF IInv, CallsOpen
  <2>6. DispatchesPast'
    BY <1>1, <1>2 DEF DispatchesPast
  <2> HIDE DEF p, called
  <2> QED BY <1>1, <1>2, <2>1, <2>3, <2>4, <2>5, <2>6, ProcMoves
<1> QED BY <1>3, <1>4 DEF WakeWorker

\* What the invariant says of one process.
LEMMA WorkerIs ==
  ASSUME IInv, NEW w \in Worker
  PROVE  /\ proc[w] \in Proc /\ ProcSound(proc[w], accepted[w]) /\ accepted[w] \in SUBSET Row
         /\ proc \in [Worker -> Proc] /\ accepted \in [Worker -> SUBSET Row] /\ row \in [Row -> Work]
         /\ last \in Nat /\ now \in Nat /\ announced \subseteq Row /\ events \in Nat
         /\ dispatched \in [Day -> Nat] /\ DispatchesPast
         /\ \A r \in accepted[w] : Claimable(r)
BY DEF IInv, TypeOK, CallsOpen
-----------------------------------------------------------------------------
(* Sweeps. *)

\* A round begins, or reads the schedules: the calls it is made for are still
\* before it.
LEMMA BeginKeeps ==
  ASSUME SweepsAssumption, IInv, NEW w \in Worker, Begin(w) \/ ListEnabledSchedules(w)
  PROVE  IInv'
<1> DEFINE e == proc[w]
<1>1. UNCHANGED <<row, last, now, announced, accepted, dispatched, events>>
  BY DEF Begin, ListEnabledSchedules
<1>2. CASE Begin(w)
  <2> DEFINE p == [e EXCEPT !.at = "list", !.requested = FALSE]
  <2>1. /\ proc' = [proc EXCEPT ![w] = p] /\ e.stop = "no" /\ e.at = "idle"
    BY <1>2, WorkerIs DEF Begin
  <2>2. p \in Proc /\ p.at = "list" /\ p.stop = "no"
    BY <2>1, WorkerIs DEF Proc
  <2> HIDE DEF p
  <2>3. ProcSound(p, accepted[w])
    BY <2>2 DEF ProcSound, InOrder, Looks
  <2> QED BY <1>1, <2>1, <2>2, <2>3, WorkerIs, OnlyProcMoves
<1>3. CASE ListEnabledSchedules(w)
  <2> DEFINE d == IF last < LocalDate THEN LocalDate ELSE 0
             p == [e EXCEPT !.at = "dispatch", !.seen = d]
  <2>1. /\ proc' = [proc EXCEPT ![w] = p] /\ e.at = "list"
    BY <1>3, WorkerIs DEF ListEnabledSchedules
  <2>2. d \in Dates
    BY WorkerIs, LocalDateIs DEF SweepsAssumption, Dates
  <2> HIDE DEF d
  <2>3. p \in Proc /\ p.at = "dispatch" /\ p.stop = e.stop /\ p.overrun = e.overrun
    BY <2>2, WorkerIs DEF Proc
  <2> HIDE DEF p
  <2>4. ProcSound(p, accepted[w])
    BY <2>1, <2>3, WorkerIs DEF ProcSound, InOrder, Looks
  <2> QED BY <1>1, <2>1, <2>3, <2>4, WorkerIs, OnlyProcMoves
<1> QED BY <1>2, <1>3

\* A process that forgets its calls has nothing left to look for.
LEMMA ForgetSound ==
  ASSUME NEW p, NEW called, ProcSound(p, called)
  PROVE  ProcSound(p, {})
BY DEF ProcSound, Looks

\* A failed list ends the round and drops its calls.
LEMMA ListFaultKeeps ==
  ASSUME IInv, NEW w \in Worker, ListFault(w)
  PROVE  IInv'
<1> DEFINE p == AfterSweep(proc[w])
<1>1. /\ proc' = [proc EXCEPT ![w] = p] /\ accepted' = [accepted EXCEPT ![w] = {}]
      /\ proc[w].at = "list" /\ UNCHANGED <<row, last, now, announced, dispatched>>
      /\ events' = events + 1
  BY DEF ListFault, Event
<1>2. p \in Proc /\ ProcSound(p, {})
  BY <1>1, WorkerIs, ForgetSound, AfterSweepSound
<1> HIDE DEF p
<1>3. /\ events' \in Nat /\ announced' \subseteq Row /\ {} \in {accepted[w], {}}
      /\ UNCHANGED <<row, last, now, dispatched>>
  BY <1>1, WorkerIs
<1> QED BY <1>1, <1>2, <1>3, OnlyProcMoves

\* The dispatcher goes on to the inbound events.
LEMMA DispatchedSound ==
  ASSUME SweepsAssumption, IInv, NEW w \in Worker, proc[w].at = "dispatch"
  PROVE  LET p == NextAdapter([proc[w] EXCEPT !.seen = 0]) IN
         p \in Proc /\ ProcSound(p, accepted[w])
<1> DEFINE q == [proc[w] EXCEPT !.seen = 0]
<1>1. /\ q \in Proc /\ q.at = "dispatch" /\ q.stop = proc[w].stop /\ q.requested = proc[w].requested
      /\ q.overrun = proc[w].overrun
  <2>1. 0 \in Dates
    BY DEF SweepsAssumption, Dates
  <2> QED BY <2>1, WorkerIs DEF Proc
<1> HIDE DEF q
<1>2. ProcSound(q, accepted[w])
  BY <1>1, WorkerIs DEF ProcSound, InOrder, Looks
<1>3. \A r \in accepted[w] : r[1] # q.at
  BY <1>1, WorkerIs, RowIs
<1>4. NextAdapter(q) \in Proc /\ ProcSound(NextAdapter(q), accepted[w])
  BY <1>1, <1>2, <1>3, WorkerIs, NextAdapterSound
<1> QED BY <1>4 DEF q

\* The row of the schedule is looked at again under its lock, so that a day which
\* is dispatched comes after the last one.
LEMMA DispatchKeeps ==
  ASSUME SweepsAssumption, IInv, NEW w \in Worker, DispatchSchedule(w) \/ DispatchFault(w)
  PROVE  IInv'
<1> DEFINE p == NextAdapter([proc[w] EXCEPT !.seen = 0])
           d == proc[w].seen
<1>1. /\ proc[w].at = "dispatch" /\ proc' = [proc EXCEPT ![w] = p]
      /\ UNCHANGED <<now, announced, accepted>> /\ events' \in Nat
  BY WorkerIs DEF DispatchSchedule, DispatchFault, Event
<1>2. p \in Proc /\ ProcSound(p, accepted[w])
  BY <1>1, DispatchedSound
<1> HIDE DEF p
<1>3. CASE UNCHANGED <<row, last, dispatched>>
  BY <1>1, <1>2, <1>3, WorkerIs, OnlyProcMoves
<1>4. CASE /\ NotDispatched(d) /\ row' = [row EXCEPT ![<<"jobs", d>>] = Pending]
           /\ last' = d /\ dispatched' = [dispatched EXCEPT ![d] = @ + 1]
  <2>1. d \in Dates
    BY WorkerIs DEF Proc
  <2>2. d \in Day /\ last < d /\ d \in Nat
    BY <1>4, <2>1, WorkerIs DEF NotDispatched, Dates, Day, SweepsAssumption
  <2>3. <<"jobs", d>> \in Row
    BY <2>2 DEF Row
  <2> HIDE DEF d
  <2>4. row' \in [Row -> Work]
    BY <1>4, <2>3, WorkerIs, PendingIs
  <2>5. \A s \in Row : Claimable(s) => Claimable(s)'
    <3> SUFFICES ASSUME NEW s \in Row, Claimable(s)
                 PROVE  Claimable(s)'
      OBVIOUS
    <3>1. row'[s] = row[s] \/ row'[s] = Pending
      BY <1>4, <2>3, WorkerIs
    <3> QED BY <3>1, PendingIs DEF Claimable
  <2>6. dispatched' \in [Day -> Nat] /\ DispatchesPast'
    <3>1. dispatched[d] = 0
      BY <2>2, WorkerIs DEF DispatchesPast
    <3>2. \A c \in Day : dispatched'[c] = IF c = d THEN 1 ELSE dispatched[c]
      BY <1>4, <3>1, WorkerIs
    <3>3. \A c \in Day : c \in Nat
      BY DEF Day
    <3> QED BY <1>4, <2>2, <3>1, <3>2, <3>3, WorkerIs DEF DispatchesPast
  <2>7. /\ accepted' = [accepted EXCEPT ![w] = accepted[w]]
        /\ \A r \in accepted[w] : Claimable(r)'
    BY <1>1, <2>5, WorkerIs
  <2> QED BY <1>1, <1>2, <1>4, <2>2, <2>4, <2>5, <2>6, <2>7, WorkerIs, ProcMoves
<1>5. CASE DispatchSchedule(w)
  <2>1. \/ UNCHANGED <<row, last, dispatched>>
        \/ /\ NotDispatched(d) /\ row' = [row EXCEPT ![<<"jobs", d>>] = Pending]
           /\ last' = d /\ dispatched' = [dispatched EXCEPT ![d] = @ + 1]
    BY <1>5 DEF DispatchSchedule
  <2> QED BY <1>3, <1>4, <2>1
<1>6. CASE DispatchFault(w)
  BY <1>3, <1>6 DEF DispatchFault
<1> QED BY <1>5, <1>6

\* A claimed row is nobody's concern any more.
LEMMA ClaimKeeps ==
  ASSUME IInv, NEW w \in Worker, NEW r \in Row, Claim(w, r)
  PROVE  IInv'
<1> DEFINE x == [status |-> "running", left |-> 0, tries |-> row[r].tries + 1, owner |-> w]
<1>1. /\ row' = [row EXCEPT ![r] = x] /\ accepted' = [v \in Worker |-> accepted[v] \ {r}]
      /\ UNCHANGED <<last, now, proc, announced, dispatched, events>>
  BY DEF Claim
<1>2. x \in Work /\ row' \in [Row -> Work]
  <2>1. row[r].tries \in Nat
    BY WorkerIs DEF Work
  <2>2. x \in Work
    BY <2>1 DEF Work
  <2> HIDE DEF x
  <2> QED BY <1>1, <2>2, WorkerIs
<1> HIDE DEF x
<1>3. ASSUME NEW v \in Worker, NEW s \in accepted'[v]
      PROVE  Claimable(s)'
  <2>1. s \in accepted[v] /\ s # r
    BY <1>1
  <2>2. Claimable(s) /\ row'[s] = row[s]
    BY <1>1, <2>1, WorkerIs DEF IInv, CallsOpen
  <2> QED BY <2>2 DEF Claimable
<1> QED BY <1>1, <1>2, <1>3, WorkerIs, RowsMove

\* What an owner lets go could not be claimed before.
LEMMA LetGoKeeps ==
  ASSUME SweepsAssumption, IInv, NEW w \in Worker,
         row' \in [Row -> Work], \A s \in Row : row'[s] = row[s] \/ s \in Own(w)
  PROVE  \A s \in Row : Claimable(s) => Claimable(s)'
<1> SUFFICES ASSUME NEW s \in Row, Claimable(s)
             PROVE  Claimable(s)'
  OBVIOUS
<1>1. s \notin Own(w)
  BY DEF Claimable, Own, SweepsAssumption
<1> QED BY <1>1 DEF Claimable

\* Only the owner of a row ends it or puts it off.
LEMMA FinishKeeps ==
  ASSUME SweepsAssumption, IInv, NEW w \in Worker, NEW r \in Row, Finish(w, r) \/ PutOff(w, r)
  PROVE  IInv'
<1>1. PICK x : /\ row' = [row EXCEPT ![r] = x]
               /\ \/ x = [row[r] EXCEPT !.owner = 0, !.left = Lease]
                  \/ x = [row[r] EXCEPT !.status = "done", !.owner = 0]
                  \/ x = [row[r] EXCEPT !.status = "pending", !.owner = 0, !.left = Delay]
  BY WorkerIs DEF Finish, PutOff
<1>2. r \in Own(w) /\ UNCHANGED <<last, now, proc, announced, accepted, dispatched, events>>
  BY DEF Finish, PutOff
<1>3. x \in Work
  <2>1. row[r] \in Work /\ Lease \in Nat /\ Delay \in Nat
    BY WorkerIs DEF SweepsAssumption
  <2>2. \A y \in Work, n \in Nat : [y EXCEPT !.owner = 0, !.left = n] \in Work
    BY DEF Work
  <2>3. \A y \in Work : [y EXCEPT !.status = "done", !.owner = 0] \in Work
    BY DEF Work
  <2>4. \A y \in Work, n \in Nat : [y EXCEPT !.status = "pending", !.owner = 0, !.left = n] \in Work
    BY DEF Work
  <2> QED BY <1>1, <2>1, <2>2, <2>3, <2>4
<1>4. row' \in [Row -> Work] /\ \A s \in Row : row'[s] = row[s] \/ s \in Own(w)
  BY <1>1, <1>2, <1>3, WorkerIs
<1>5. \A v \in Worker : \A s \in accepted'[v] : Claimable(s)'
  BY <1>2, <1>4, LetGoKeeps, WorkerIs
<1> QED BY <1>2, <1>4, <1>5, WorkerIs, RowsMove

\* A drain ends when nothing claimable is left in its queue.
LEMMA DrainKeeps ==
  ASSUME IInv, NEW w \in Worker, DrainEnds(w) \/ DrainFault(w)
  PROVE  IInv'
<1> DEFINE p == NextAdapter(proc[w])
<1>1. /\ proc[w].at \in {"inbound", "jobs"} /\ proc' = [proc EXCEPT ![w] = p]
      /\ UNCHANGED <<row, last, now, announced, dispatched>> /\ events' \in Nat
  <2> HIDE DEF p
  <2>1. events \in Nat
    BY WorkerIs
  <2>2. CASE DrainEnds(w)
    BY <2>1, <2>2 DEF DrainEnds, p
  <2>3. CASE DrainFault(w)
    BY <2>1, <2>3 DEF DrainFault, Event, p
  <2> QED BY <2>2, <2>3
<1>2. CASE DrainEnds(w)
  <2>1. \A r \in accepted[w] : r[1] # proc[w].at
    <3>1. proc[w].stop # "no" => accepted[w] = {}
      BY WorkerIs DEF ProcSound, Looks
    <3>2. proc[w].stop = "no" => \A r \in Row : r[1] = proc[w].at => ~Claimable(r)
      BY <1>2 DEF DrainEnds, Stopping
    <3> QED BY <3>1, <3>2, WorkerIs
  <2>2. p \in Proc /\ ProcSound(p, accepted[w])
    BY <1>1, <2>1, WorkerIs, NextAdapterSound
  <2>3. accepted' = accepted
    BY <1>2 DEF DrainEnds
  <2> HIDE DEF p
  <2> QED BY <1>1, <2>2, <2>3, WorkerIs, OnlyProcMoves
<1>3. CASE DrainFault(w)
  <2>1. accepted' = [accepted EXCEPT ![w] = {}]
    BY <1>3 DEF DrainFault
  <2>2. p \in Proc /\ ProcSound(p, {})
    BY <1>1, WorkerIs, ForgetSound, NextAdapterSound
  <2> HIDE DEF p
  <2> QED BY <1>1, <2>1, <2>2, WorkerIs, OnlyProcMoves
<1> QED BY <1>2, <1>3
-----------------------------------------------------------------------------
(* The timer. *)

\* Going to sleep with a timer set, or for the round that was asked for.
LEMMA ScheduleKeeps ==
  ASSUME SweepsAssumption, IInv, NEW w \in Worker, ScheduleNextSweep(w)
  PROVE  IInv'
<1> DEFINE e == proc[w]
           again == [e EXCEPT !.at = "list", !.requested = FALSE]
<1>1. /\ e.at = "arm" /\ e.stop = "no"
      /\ UNCHANGED <<row, last, now, announced, accepted, dispatched, events>>
  BY DEF ScheduleNextSweep
<1>2. e \in Proc /\ ProcSound(e, accepted[w])
  BY WorkerIs
<1>3. PICK times \in {{}, Deadlines} :
        proc' = [proc EXCEPT ![w] = IF e.requested THEN again
                                    ELSE [e EXCEPT !.at = "idle", !.timer = NextSweep(times)]]
  BY WorkerIs DEF ScheduleNextSweep
<1>4. NextSweep(times) \in Int /\ (Period > 0 => NextSweep(times) \in 0..Period)
  <2>1. \A r \in Row : row[r].left \in Nat
    BY WorkerIs DEF Work
  <2>2. times \in SUBSET Nat
    BY <2>1 DEF Deadlines
  <2> QED BY <2>2, NextSweepIs
<1>5. CASE e.requested
  <2>1. again \in Proc /\ again.at = "list" /\ again.stop = "no"
    BY <1>1, <1>2 DEF Proc
  <2>2. proc' = [proc EXCEPT ![w] = again]
    BY <1>3, <1>5
  <2> HIDE DEF again
  <2>3. ProcSound(again, accepted[w])
    BY <1>1, <1>2, <2>1 DEF ProcSound, InOrder, Looks
  <2> HIDE DEF e
  <2> QED BY <1>1, <2>1, <2>2, <2>3, WorkerIs, OnlyProcMoves
<1>6. CASE ~e.requested
  <2> DEFINE p == [e EXCEPT !.at = "idle", !.timer = NextSweep(times)]
  <2>1. proc' = [proc EXCEPT ![w] = p]
    BY <1>3, <1>6
  <2>2. \A i \in Int : LET q == [e EXCEPT !.at = "idle", !.timer = i] IN
          q \in Proc /\ q.at = "idle" /\ q.stop = e.stop /\ q.timer = i
    BY <1>2 DEF Proc
  <2>3. p \in Proc /\ p.at = "idle" /\ p.stop = "no" /\ p.timer = NextSweep(times)
    BY <1>1, <1>4, <2>2
  <2> HIDE DEF p
  <2>4. accepted[w] = {}
    BY <1>1, <1>2, <1>6 DEF ProcSound, Looks
  <2>5. ProcSound(p, accepted[w])
    BY <1>4, <2>3, <2>4 DEF ProcSound, InOrder, Looks
  <2> HIDE DEF e
  <2> QED BY <1>1, <2>1, <2>3, <2>5, WorkerIs, OnlyProcMoves
<1> QED BY <1>5, <1>6

\* A timer that runs out asks for a round, as a call does.
LEMMA FireKeeps ==
  ASSUME IInv, NEW w \in Worker, Fire(w)
  PROVE  IInv'
<1> DEFINE p == TriggerSweep(proc[w])
<1>1. /\ proc' = [proc EXCEPT ![w] = p]
      /\ UNCHANGED <<row, last, now, announced, accepted, dispatched, events>>
  BY DEF Fire
<1>2. p \in Proc /\ ProcSound(p, accepted[w])
  BY WorkerIs, TriggerSound
<1> HIDE DEF p
<1> QED BY <1>1, <1>2, WorkerIs, OnlyProcMoves

\* Rows that are due stay due, and timers count down.
LEMMA TickKeeps ==
  ASSUME SweepsAssumption, IInv, Tick
  PROVE  IInv'
<1> DEFINE rest(n) == IF n > 0 THEN n - 1 ELSE n
<1>1. /\ now' = Min({now + 1, LastDay * DayLen})
      /\ row' = [r \in Row |-> [row[r] EXCEPT !.left = Max({0, @ - 1})]]
      /\ proc' = [w \in Worker |-> [proc[w] EXCEPT !.timer = rest(@)]]
      /\ UNCHANGED <<last, announced, accepted, dispatched, events>>
  BY DEF Tick
<1>2. /\ proc \in [Worker -> Proc] /\ row \in [Row -> Work] /\ now \in Nat
      /\ TypeOK /\ CallsOpen /\ DispatchesPast
  BY DEF IInv, TypeOK
<1>3. now' \in Nat
  <2>1. LastDay * DayLen \in Nat /\ now + 1 \in Nat
    BY <1>2 DEF SweepsAssumption
  <2>2. \A m, n \in Nat : Min({m, n}) \in Nat
    <3> TAKE m, n \in Nat
    <3>1. {m, n} \in SUBSET Nat /\ {m, n} # {}
      OBVIOUS
    <3> QED BY <3>1, MinIs
  <2> QED BY <1>1, <2>1, <2>2
<1>4. ASSUME NEW r \in Row
      PROVE  row'[r] \in Work /\ (Claimable(r) => Claimable(r)')
  <2> DEFINE n == Max({0, row[r].left - 1})
  <2>1. row[r] \in Work /\ row[r].left \in Nat
    BY <1>2 DEF Work
  <2>2. n \in Nat /\ (row[r].left = 0 => n = 0)
    BY <2>1, CountdownIs
  <2>3. row'[r] = [row[r] EXCEPT !.left = n]
    BY <1>1
  <2> HIDE DEF n
  <2>4. /\ row'[r] \in Work /\ row'[r].left = n /\ row'[r].status = row[r].status
        /\ row'[r].owner = row[r].owner
    BY <2>1, <2>2, <2>3 DEF Work
  <2> QED BY <2>2, <2>4 DEF Claimable
<1>5. ASSUME NEW w \in Worker
      PROVE  proc'[w] \in Proc /\ ProcSound(proc'[w], accepted'[w])
  <2> DEFINE i == rest(proc[w].timer)
  <2>1. proc[w] \in Proc /\ ProcSound(proc[w], accepted[w]) /\ proc[w].timer \in Int
    BY <1>2 DEF IInv, Proc
  <2>2. i \in Int /\ (Period > 0 /\ proc[w].timer \in 0..Period => i \in 0..Period)
    BY <2>1 DEF SweepsAssumption
  <2>3. proc'[w] = [proc[w] EXCEPT !.timer = i]
    BY <1>1
  <2> HIDE DEF i
  <2>4. /\ proc'[w] \in Proc /\ proc'[w].timer = i /\ proc'[w].at = proc[w].at
        /\ proc'[w].stop = proc[w].stop /\ proc'[w].requested = proc[w].requested
        /\ proc'[w].overrun = proc[w].overrun
    BY <2>1, <2>2, <2>3 DEF Proc
  <2>5. accepted'[w] = accepted[w]
    BY <1>1
  <2> QED BY <2>1, <2>2, <2>4, <2>5 DEF ProcSound, InOrder, Looks
<1> HIDE DEF rest
<1>6. row' \in [Row -> Work] /\ proc' \in [Worker -> Proc]
  <2>1. \A r \in Row : row'[r] \in Work
    BY <1>4
  <2>2. \A w \in Worker : proc'[w] \in Proc
    BY <1>5
  <2> QED BY <1>1, <2>1, <2>2
<1>7. TypeOK'
  BY <1>1, <1>2, <1>3, <1>6 DEF TypeOK
<1>8. CallsOpen'
  BY <1>1, <1>2, <1>4 DEF CallsOpen, TypeOK
<1>9. DispatchesPast'
  BY <1>1, <1>2 DEF DispatchesPast
<1> QED BY <1>5, <1>7, <1>8, <1>9 DEF IInv
-----------------------------------------------------------------------------
(* Start and shutdown. *)

\* A process that starts has a round before it, and no calls.
LEMMA StartKeeps ==
  ASSUME SweepsAssumption, IInv, NEW w \in Worker, StartWorker(w)
  PROVE  IInv'
<1> DEFINE p == TriggerSweep([Down EXCEPT !.at = "idle"])
<1>1. /\ proc' = [proc EXCEPT ![w] = p]
      /\ UNCHANGED <<row, last, now, announced, accepted, dispatched, events>>
  BY DEF StartWorker
<1>2. p \in Proc /\ p.at = "idle" /\ p.stop = "no" /\ p.requested
  <2> DEFINE idle == [Down EXCEPT !.at = "idle"]
  <2>1. \A q \in Proc : LET o == [q EXCEPT !.at = "idle"] IN
          o \in Proc /\ o.at = "idle" /\ o.stop = q.stop
    BY DEF Proc
  <2>2. idle \in Proc /\ idle.at = "idle" /\ idle.stop = "no"
    BY <2>1, DownIs
  <2> HIDE DEF idle
  <2>3. p = TriggerSweep(idle)
    BY DEF idle
  <2> HIDE DEF p
  <2> QED BY <2>2, <2>3, TriggerIs
<1> HIDE DEF p
<1>3. ProcSound(p, accepted[w])
  <2>1. proc[w].at = "down" /\ ProcSound(proc[w], accepted[w])
    BY WorkerIs DEF StartWorker
  <2> QED BY <1>2, <2>1 DEF ProcSound, InOrder, Looks
<1> QED BY <1>1, <1>2, <1>3, WorkerIs, OnlyProcMoves

\* A process that is told to stop drops its timer and its calls.
LEMMA CloseKeeps ==
  ASSUME IInv, NEW w \in Worker, Close(w)
  PROVE  IInv'
<1> DEFINE p == [proc[w] EXCEPT !.stop = "jobs", !.timer = Never]
<1>1. /\ proc' = [proc EXCEPT ![w] = p] /\ accepted' = [accepted EXCEPT ![w] = {}]
      /\ UNCHANGED <<row, last, now, announced, dispatched>> /\ events' \in Nat
      /\ proc[w].at # "down" /\ announced' \subseteq Row
  <2>1. events \in Nat /\ announced \subseteq Row
    BY WorkerIs
  <2>2. proc' = [proc EXCEPT ![w] = p] /\ accepted' = [accepted EXCEPT ![w] = {}]
    BY DEF Close
  <2>3. /\ UNCHANGED <<row, last, now, announced, dispatched>> /\ proc[w].at # "down"
        /\ events' = events + 1
    BY DEF Close, Event, Listens
  <2> HIDE DEF p
  <2> QED BY <2>1, <2>2, <2>3
<1>2. p \in Proc /\ p.stop = "jobs" /\ p.at # "down"
  <2> DEFINE stopped == [proc[w] EXCEPT !.stop = "jobs"]
  <2>1. stopped \in Proc /\ stopped.stop = "jobs" /\ stopped.at # "down"
    BY <1>1, WorkerIs DEF Proc
  <2>2. p = [stopped EXCEPT !.timer = Never]
    OBVIOUS
  <2> HIDE DEF p, stopped
  <2> QED BY <2>1, <2>2 DEF Proc, Never
<1> HIDE DEF p
<1>3. ProcSound(p, {}) /\ {} \in {accepted[w], {}}
  BY <1>2 DEF ProcSound, InOrder, Looks
<1> QED BY <1>1, <1>2, <1>3, OnlyProcMoves

\* The adapters stop in order, each of them quiet or out of time.
LEMMA StopKeeps ==
  ASSUME IInv, NEW w \in Worker, StopAdapter(w) \/ ShutdownTimeout(w)
  PROVE  IInv'
<1> DEFINE e == proc[w]
           s == AfterStopOf(e.stop)
<1>1. /\ e.stop \in {"jobs", "inbound", "scheduler"}
      /\ UNCHANGED <<row, last, now, announced, accepted, dispatched, events>>
  BY DEF StopAdapter, ShutdownTimeout
<1>2. /\ e \in Proc /\ ProcSound(e, accepted[w]) /\ announced \subseteq Row /\ events \in Nat
      /\ accepted = [accepted EXCEPT ![w] = accepted[w]]
  BY WorkerIs
<1>3. accepted[w] = {} /\ e.at # "down"
  BY <1>1, <1>2 DEF ProcSound, Looks
<1>4. /\ e.stop = "jobs" => s = "inbound"
      /\ e.stop = "inbound" => s = "scheduler"
      /\ e.stop = "scheduler" => s = "closed"
  BY DEF AfterStopOf
<1>5. CASE StopAdapter(w)
  <2> DEFINE p == [e EXCEPT !.stop = s]
  <2>1. proc' = [proc EXCEPT ![w] = p] /\ ~Working(e, e.stop)
    BY <1>5, WorkerIs DEF StopAdapter
  <2>2. p \in Proc /\ p.at = e.at /\ p.stop = s /\ p.overrun = e.overrun
    <3> HIDE DEF s
    <3> QED BY <1>1, <1>2, <1>4 DEF Proc
  <2> HIDE DEF p, s
  <2>3. s # "no"
    BY <1>1, <1>4
  <2>4. InOrder(p)
    BY <1>1, <1>2, <1>4, <2>1, <2>2 DEF ProcSound, InOrder, Working
  <2>5. ProcSound(p, accepted[w])
    BY <1>3, <2>2, <2>3, <2>4 DEF ProcSound, Looks
  <2> HIDE DEF e
  <2> QED BY <1>1, <1>2, <2>1, <2>2, <2>5, OnlyProcMoves
<1>6. CASE ShutdownTimeout(w)
  <2> DEFINE p == [e EXCEPT !.stop = s, !.overrun = TRUE]
  <2>1. proc' = [proc EXCEPT ![w] = p]
    <3>1. proc' = [proc EXCEPT ![w].stop = AfterStopOf(@), ![w].overrun = TRUE]
      BY <1>6 DEF ShutdownTimeout
    <3> QED BY <3>1, WorkerIs
  <2>2. p \in Proc /\ p.at = e.at /\ p.stop = s /\ p.overrun
    <3> HIDE DEF s
    <3> QED BY <1>1, <1>2, <1>4 DEF Proc
  <2> HIDE DEF p, s
  <2>3. s # "no"
    BY <1>1, <1>4
  <2>4. ProcSound(p, accepted[w])
    BY <1>3, <2>2, <2>3 DEF ProcSound, InOrder, Looks
  <2> HIDE DEF e
  <2> QED BY <1>1, <1>2, <2>1, <2>2, <2>4, OnlyProcMoves
<1> QED BY <1>5, <1>6

\* A process that is gone has no calls, and lets go of its rows.
LEMMA GoneKeeps ==
  ASSUME SweepsAssumption, IInv, NEW w \in Worker, Gone(w), events' \in Nat
  PROVE  IInv'
<1>1. /\ proc' = [proc EXCEPT ![w] = Down] /\ accepted' = [accepted EXCEPT ![w] = {}]
      /\ row' = [r \in Row |-> IF r \in Own(w) THEN [row[r] EXCEPT !.owner = 0, !.left = Lease]
                               ELSE row[r]]
      /\ UNCHANGED <<last, now, announced, dispatched>>
  BY DEF Gone
<1>2. Down \in Proc /\ ProcSound(Down, {})
  BY DownIs
<1>3. row' \in [Row -> Work]
  <2>1. Lease \in Nat /\ \A r \in Row : row[r] \in Work
    BY WorkerIs DEF SweepsAssumption
  <2>2. \A y \in Work, n \in Nat : [y EXCEPT !.owner = 0, !.left = n] \in Work
    BY DEF Work
  <2>3. \A r \in Row : row'[r] \in Work
    BY <1>1, <2>1, <2>2
  <2> QED BY <1>1, <2>3
<1>4. \A s \in Row : Claimable(s) => Claimable(s)'
  <2>1. \A s \in Row : row'[s] = row[s] \/ s \in Own(w)
    BY <1>1
  <2> QED BY <1>3, <2>1, LetGoKeeps
<1>5. DispatchesPast' /\ last' \in Nat /\ now' \in Nat /\ announced' \subseteq Row
      /\ dispatched' \in [Day -> Nat]
  BY <1>1, WorkerIs DEF DispatchesPast
<1> QED BY <1>1, <1>2, <1>3, <1>4, <1>5, ProcMoves
-----------------------------------------------------------------------------
\* At first nothing runs and nothing is there.
LEMMA InitSafe == SweepsAssumption /\ Init => IInv
<1> SUFFICES ASSUME SweepsAssumption, Init
             PROVE  IInv
  OBVIOUS
<1>1. Down \in Proc /\ ProcSound(Down, {})
  BY DownIs
<1>2. \A w \in Worker : proc[w] = Down /\ accepted[w] = {}
  BY DEF Init
<1>3. TypeOK
  BY <1>1, PendingIs DEF TypeOK, Init
<1>4. DispatchesPast
  BY DEF DispatchesPast, Init
<1> QED BY <1>1, <1>2, <1>3, <1>4 DEF IInv, CallsOpen

\* No step breaks the invariant.
LEMMA NextSafe ==
  ASSUME SweepsAssumption, IInv, [Next]_vars
  PROVE  IInv'
<1>1. CASE Enqueue \/ Webhook
  BY <1>1, EnqueueKeeps
<1>2. CASE Tick
  BY <1>2, TickKeeps
<1>3. ASSUME NEW r \in Row, WakeWorker(r)
      PROVE  IInv'
  BY <1>3, WakeKeeps
<1>4. ASSUME NEW w \in Worker, SweepStep(w)
      PROVE  IInv'
  <2>1. CASE Begin(w) \/ ListEnabledSchedules(w)
    BY <2>1, BeginKeeps
  <2>2. CASE DispatchSchedule(w)
    BY <2>2, DispatchKeeps
  <2>3. CASE DrainEnds(w)
    BY <2>3, DrainKeeps
  <2>4. ASSUME NEW r \in Row, Claim(w, r)
        PROVE  IInv'
    BY <2>4, ClaimKeeps
  <2>5. CASE ScheduleNextSweep(w)
    BY <2>5, ScheduleKeeps
  <2> QED BY <1>4, <2>1, <2>2, <2>3, <2>4, <2>5 DEF SweepStep
<1>5. ASSUME NEW w \in Worker, Fault(w)
      PROVE  IInv'
  <2>1. CASE ListFault(w)
    BY <2>1, ListFaultKeeps
  <2>2. CASE DispatchFault(w)
    BY <2>2, DispatchKeeps
  <2>3. CASE DrainFault(w)
    BY <2>3, DrainKeeps
  <2>4. CASE Crash(w)
    <3>1. Gone(w) /\ events' \in Nat
      BY <2>4, WorkerIs DEF Crash, Event
    <3> QED BY <3>1, GoneKeeps
  <2> QED BY <1>5, <2>1, <2>2, <2>3, <2>4 DEF Fault
<1>6. ASSUME NEW w \in Worker, Shutdown(w)
      PROVE  IInv'
  <2>1. CASE StopAdapter(w) \/ ShutdownTimeout(w)
    BY <2>1, StopKeeps
  <2>2. CASE Exit(w)
    <3>1. Gone(w) /\ events' \in Nat
      BY <2>2, WorkerIs DEF Exit
    <3> QED BY <3>1, GoneKeeps
  <2> QED BY <1>6, <2>1, <2>2 DEF Shutdown
<1>7. ASSUME NEW w \in Worker, NEW r \in Row, Finish(w, r) \/ PutOff(w, r)
      PROVE  IInv'
  BY <1>7, FinishKeeps
<1>8. ASSUME NEW w \in Worker, Fire(w) \/ StartWorker(w) \/ Close(w)
      PROVE  IInv'
  BY <1>8, FireKeeps, StartKeeps, CloseKeeps
<1>9. CASE UNCHANGED vars
  BY <1>9 DEF vars, IInv, TypeOK, CallsOpen, Claimable, DispatchesPast, ProcSound, InOrder, Looks
<1> QED BY <1>1, <1>2, <1>3, <1>4, <1>5, <1>6, <1>7, <1>8, <1>9 DEF Next

\* The inductive invariant holds in every reachable state.
THEOREM InvariantHolds == ASSUME SweepsAssumption PROVE Spec => []IInv
<1>1. Init => IInv
  BY InitSafe
<1>2. IInv /\ [Next]_vars => IInv'
  BY NextSafe
<1> QED BY <1>1, <1>2, PTL DEF Spec

\* A schedule is dispatched once for a day, a worker that sleeps has a timer and
\* has missed no call, and the database is closed under no adapter that was
\* stopped in time.
THEOREM SweepsHold == ASSUME SweepsAssumption PROVE Spec => []SweepsAreExact
<1>1. IInv => SweepsAreExact
  <2> SUFFICES ASSUME IInv
               PROVE  SweepsAreExact
    OBVIOUS
  <2>1. \A r \in Row : row[r].status \in {"absent", "pending", "running", "done"}
    BY DEF IInv, TypeOK, Work
  <2>2. \A d \in Day : dispatched[d] <= 1
    BY DEF IInv, DispatchesPast
  <2>3. ASSUME NEW w \in Worker
        PROVE  /\ Asleep(w) => (Period > 0 => proc[w].timer \in 0..Period) /\ accepted[w] = {}
               /\ (proc[w].stop = "closed" /\ ~proc[w].overrun)
                    => proc[w].at \in {"idle", "arm", "stopped"}
    <3>1. proc[w].at \in {"down", "idle", "list", "dispatch", "inbound", "jobs", "arm", "stopped"}
      BY WorkerIs DEF Proc
    <3> QED BY <3>1, WorkerIs DEF Asleep, ProcSound, InOrder, Looks
  <2> QED BY <2>1, <2>2, <2>3 DEF SweepsAreExact
<1> QED BY <1>1, InvariantHolds, PTL
=============================================================================
