---------------------------- MODULE BillCalendar ----------------------------
(***************************************************************************)
(* One bill and the occurrences made from its schedule: materialization,   *)
(* rescheduling, end dates, pauses, edits, the overdue sweep and deletion  *)
(* (bills.service.ts, bill-occurrences.repository.ts, bill-schedule.ts,    *)
(* statement-bills.ts).                                                    *)
(*                                                                         *)
(* Dates are numbers, months have MonthLen days.  A command is one step:   *)
(* it locks the setup, as a materialization does, or writes single rows    *)
(* under a condition on their status.  Only deleteBill writes the rows     *)
(* first and the setup afterwards; it is two steps.                        *)
(***************************************************************************)
EXTENDS Integers, Sequences, FiniteSets

CONSTANTS
  LastDate,      \* bound: the last date of the calendar
  MonthLen,      \* days of a month
  Step,          \* days of a cadence that is not monthly
  Horizon,       \* how far ahead occurrences are made, in days
  MaxRows,       \* bound: occurrences
  MaxCommands    \* bound: commands of the user and of detection

VARIABLES
  setup,     \* the row of bill_setup
  rows,      \* bill_occurrences of the bill, in the order of their creation
  today,     \* the UTC date
  doomed,    \* rows cancelled by a deletion that has not committed yet
  commands   \* commands so far

vars == <<setup, rows, today, doomed, commands>>

NoDate == -1
Dates == 0..LastDate
Month(d) == d \div MonthLen

Setup == [status : {"active", "paused"}, deleted : BOOLEAN, card : BOOLEAN,
          cadence : {"monthly", "weekly"}, next : Dates, end : Dates \cup {NoDate}]

\* fixed: linked, marked or confirmed as paid.  event: the forecast event.
Row == [key : ({"month", "date", "retired"} \X Nat), due : Dates,
        override : Dates \cup {NoDate}, fixed : BOOLEAN, byEnd : BOOLEAN,
        status : {"upcoming", "overdue", "paid", "skipped", "cancelled"},
        event : {"none", "live", "deleted"}]

Eff(r) == IF r.override = NoDate THEN r.due ELSE r.override
ScheduleKey(cadence, d) == IF cadence = "monthly" THEN <<"month", Month(d)>> ELSE <<"date", d>>
IsRetired(r) == r.key[1] = "retired"
Interval(cadence) == IF cadence = "monthly" THEN MonthLen ELSE Step
Each(rs, Change(_)) == [i \in DOMAIN rs |-> Change(rs[i])]

Init ==
  /\ setup \in [status : {"active"}, deleted : {FALSE}, card : BOOLEAN,
                cadence : {"monthly", "weekly"}, next : {0, 1}, end : {NoDate}]
  /\ setup.card => setup.cadence = "monthly"
  /\ rows = << >>
  /\ today = 0
  /\ doomed = {}
  /\ commands = 0

-----------------------------------------------------------------------------
(* materializeBillsInMutation.                                             *)

\* A monthly occurrence of the current month stays when it exists already.
ScheduledDates(s, rs) ==
  IF s.card THEN {s.next}
  ELSE {d \in Dates :
          /\ d >= s.next /\ (d - s.next) % Interval(s.cadence) = 0
          /\ d <= today + Horizon
          /\ \/ d >= today
             \/ /\ s.cadence = "monthly" /\ Month(d) = Month(today)
                /\ \E i \in DOMAIN rs : rs[i].key = ScheduleKey("monthly", d)}

WithinEnd(s, d) == s.end = NoDate \/ d <= s.end

\* An untouched future occurrence off the schedule.
PhaseMoved(s, rs, dates) ==
  /\ s.cadence # "monthly" /\ ~s.card
  /\ \E i \in DOMAIN rs : LET r == rs[i] IN
       /\ r.status = "upcoming" /\ r.due >= today /\ r.override = NoDate /\ ~r.fixed
       /\ r.due \notin dates

Retirable(r) ==
  /\ Eff(r) >= today /\ r.override = NoDate /\ ~r.fixed
  /\ \/ r.status = "upcoming"
     \/ r.status = "cancelled" /\ (r.byEnd \/ IsRetired(r))

\* The event of a retired occurrence is deleted.  The key is the row's own.
RetireFutureSchedule(rs) ==
  [i \in DOMAIN rs |->
     IF ~Retirable(rs[i]) THEN rs[i]
     ELSE [rs[i] EXCEPT !.status = "cancelled", !.byEnd = FALSE, !.key = <<"retired", i>>,
                        !.event = IF @ = "none" THEN "none" ELSE "deleted"]]

Protected(r) ==
  \/ Eff(r) < today \/ r.override # NoDate \/ r.fixed
  \/ r.status \notin {"upcoming", "cancelled"}
  \/ r.status = "cancelled" /\ ~IsRetired(r)

\* Mutant: only the baseline date of a protected cycle is kept free.
SafeBaselineDates(cadence, dates, rs) ==
  {d \in dates : d >= today /\ \A i \in DOMAIN rs :
     Protected(rs[i]) => rs[i].key # ScheduleKey(cadence, d) /\ rs[i].due # d}

SafeScheduleDates(cadence, dates, rs) ==
  {d \in dates : d >= today /\ \A i \in DOMAIN rs :
     Protected(rs[i]) => /\ rs[i].key # ScheduleKey(cadence, d)
                         /\ d \notin {rs[i].due, Eff(rs[i])}}

NonCollidingScheduleDates(cadence, dates, rs) ==
  {d \in dates : \A i \in DOMAIN rs :
     rs[i].key # ScheduleKey(cadence, d) => d \notin {rs[i].due, rs[i].override}}

Adoptable(r, dates) ==
  r.status = "cancelled" /\ IsRetired(r) /\ r.override = NoDate /\ ~r.fixed /\ r.due \in dates

AdoptRetiredScheduleDate(cadence, dates, rs) ==
  LET Adopt(r) ==
        IF ~Adoptable(r, dates) THEN r
        ELSE [r EXCEPT !.status = "upcoming", !.byEnd = FALSE,
                       !.key = ScheduleKey(cadence, r.due),
                       !.event = IF @ = "none" THEN "none" ELSE "live"]
  IN Each(rs, Adopt)

\* A card's cancelled, untouched occurrence comes back for its statement.
ReviveCancelled(dates, rs) ==
  LET Revive(r) ==
        IF /\ r.status = "cancelled" /\ ~r.byEnd /\ r.override = NoDate /\ ~r.fixed
           /\ r.key \in {ScheduleKey("monthly", d) : d \in dates}
        THEN [r EXCEPT !.status = "upcoming"] ELSE r
  IN Each(rs, Revive)

\* ON CONFLICT on the key: an open occurrence takes the date, others keep theirs.
Taken(cadence, d, rs) == \E i \in DOMAIN rs : rs[i].key = ScheduleKey(cadence, d)

InsertOccurrences(cadence, dates, rs) ==
  LET Move(r) ==
        IF r.status \in {"upcoming", "overdue"}
           /\ \E d \in dates : r.key = ScheduleKey(cadence, d)
        THEN [r EXCEPT !.due = CHOOSE d \in dates : r.key = ScheduleKey(cadence, d)] ELSE r
      fresh == {d \in dates : ~Taken(cadence, d, rs)}
      New(d) == [key |-> ScheduleKey(cadence, d), due |-> d, override |-> NoDate,
                 fixed |-> FALSE, byEnd |-> FALSE, status |-> "upcoming", event |-> "none"]
      ordered == [k \in 1..Cardinality(fresh) |->
                    New(CHOOSE d \in fresh : Cardinality({e \in fresh : e < d}) = k - 1)]
  IN Each(rs, Move) \o ordered

\* An event that was deleted stays deleted.
UpsertBillForecastEvents(s, dates, rs) ==
  LET Upsert(r) ==
        IF /\ r.status \in {"upcoming", "overdue"} /\ WithinEnd(s, Eff(r)) /\ r.event = "none"
           /\ \E d \in dates : r.key = ScheduleKey(s.cadence, d)
        THEN [r EXCEPT !.event = "live"] ELSE r
  IN Each(rs, Upsert)

Materialized(s, rs, reschedule) ==
  LET dates == ScheduledDates(s, rs)
      within == {d \in dates : WithinEnd(s, d)}
      realign == \/ reschedule \/ PhaseMoved(s, rs, dates)
                 \/ \E i \in DOMAIN rs : IsRetired(rs[i])
      retired == IF realign THEN RetireFutureSchedule(rs) ELSE rs
      allowed == IF realign THEN SafeScheduleDates(s.cadence, within, retired)
                 ELSE NonCollidingScheduleDates(s.cadence, within, rs)
      adopted == IF realign THEN AdoptRetiredScheduleDate(s.cadence, allowed, retired)
                 ELSE retired
      revived == IF s.card THEN ReviveCancelled(allowed, adopted) ELSE adopted
  IN IF allowed = {} THEN retired
     ELSE UpsertBillForecastEvents(s, allowed, InsertOccurrences(s.cadence, allowed, revived))

-----------------------------------------------------------------------------
(* reconcileEndDate, cancelFuture and cancelFutureForecastEvents.          *)

Restorable(r, end) == r.status = "cancelled" /\ r.byEnd /\ (end = NoDate \/ Eff(r) <= end)

ReconcileEndDate(rs, end) ==
  LET Reconcile(r) ==
        IF Eff(r) < today THEN r
        ELSE IF Restorable(r, end)
             THEN [r EXCEPT !.status = "upcoming", !.byEnd = FALSE,
                            !.event = IF @ = "none" THEN "none" ELSE "live"]
        ELSE IF end # NoDate /\ r.status = "upcoming" /\ Eff(r) > end
             THEN [r EXCEPT !.status = "cancelled", !.byEnd = TRUE,
                            !.event = IF @ = "none" THEN "none" ELSE "deleted"]
        ELSE r
  IN Each(rs, Reconcile)

CancelFuture(rs) ==
  LET Cancel(r) == [r EXCEPT !.status = IF @ = "upcoming" THEN "cancelled" ELSE @]
  IN Each(rs, Cancel)

CancelFutureForecastEvents(rs) ==
  LET Cancel(r) == [r EXCEPT !.event = IF @ = "live" THEN "deleted" ELSE @]
  IN Each(rs, Cancel)

-----------------------------------------------------------------------------
Command == commands < MaxCommands /\ commands' = commands + 1 /\ UNCHANGED today
Lives == ~setup.deleted /\ doomed = {}
Fits(rs) == Len(rs) <= MaxRows

\* The worker, or the job dispatched after a change.  It waits for rows that
\* a deletion holds.
Materialize ==
  LET rs == Materialized(setup, rows, FALSE)
  IN /\ ~setup.deleted /\ setup.status = "active"
     /\ \A i \in doomed : rs[i] = rows[i]
     /\ Fits(rs)
     /\ rows' = rs
     /\ UNCHANGED <<setup, today, doomed, commands>>

\* updateBill with another amount, cadence or date of an active bill.
Reschedule(cadence, next) ==
  LET s == [setup EXCEPT !.cadence = cadence, !.next = next]
      rs == Materialized(s, rows, TRUE)
  IN /\ Command /\ Lives
     /\ setup.status = "active" /\ ~setup.card /\ next >= today
     /\ Fits(rs)
     /\ setup' = s
     /\ rows' = rs
     /\ UNCHANGED doomed

\* updateBill with an end date.
SetEndDate(end) ==
  /\ Command /\ Lives
  /\ setup' = [setup EXCEPT !.end = end]
  /\ rows' = IF setup.status = "active" THEN ReconcileEndDate(rows, end) ELSE rows
  /\ UNCHANGED doomed

\* updateBill with the status paused or ended.
Pause ==
  /\ Command /\ Lives
  /\ setup' = [setup EXCEPT !.status = "paused"]
  /\ rows' = CancelFuture(CancelFutureForecastEvents(rows))
  /\ UNCHANGED doomed

Resume ==
  /\ Command /\ Lives
  /\ setup.status = "paused"
  /\ setup' = [setup EXCEPT !.status = "active"]
  /\ rows' = ReconcileEndDate(rows, setup.end)
  /\ UNCHANGED doomed

\* updateDetection, or upsertStatementBills for a card: the next date moves.
Reanchor(next) ==
  /\ Command /\ Lives
  /\ setup.status = "active"
  /\ setup' = [setup EXCEPT !.next = next]
  /\ UNCHANGED <<rows, doomed>>

HasActiveDateCollision(i, d) ==
  \E j \in DOMAIN rows \ {i} : rows[j].status \in {"upcoming", "overdue"} /\ Eff(rows[j]) = d

\* updateOccurrence: the user moves a date, or takes the move back.
EditDate(i, d) ==
  LET r == [rows[i] EXCEPT !.override = d]
  IN /\ Command /\ Lives
     /\ rows[i].status \in {"upcoming", "overdue"}
     /\ setup.end # NoDate => Eff(r) <= setup.end
     /\ Eff(r) # Eff(rows[i]) => ~HasActiveDateCollision(i, Eff(r))
     /\ rows' = [rows EXCEPT ![i] = r]
     /\ UNCHANGED <<setup, doomed>>

\* A payment is matched, or the user skips the occurrence.
Settle(i, status) ==
  /\ Command /\ i \notin doomed
  /\ rows[i].status \in {"upcoming", "overdue"}
  /\ rows' = [rows EXCEPT ![i].status = status, ![i].fixed = status = "paid"]
  /\ UNCHANGED <<setup, doomed>>

\* unlinkOccurrence: back to waiting.
Unlink(i) ==
  /\ Command /\ i \notin doomed
  /\ rows[i].status = "paid"
  /\ rows' = [rows EXCEPT ![i].status = IF Eff(rows[i]) < today THEN "overdue" ELSE "upcoming",
                          ![i].fixed = FALSE]
  /\ UNCHANGED <<setup, doomed>>

\* sweepOverdue: by the user's own date, which may be a day off the UTC date.
SweepOverdue(local) ==
  LET Sweep(r) ==
        [r EXCEPT !.status = IF @ = "upcoming" /\ Eff(r) < local THEN "overdue"
                             ELSE IF @ = "overdue" /\ Eff(r) >= local THEN "upcoming" ELSE @]
  IN /\ doomed = {}
     /\ rows' = Each(rows, Sweep)
     /\ UNCHANGED <<setup, today, doomed, commands>>

\* deleteBill of a card skips the open cycle only.
DeleteCardCycle(i) ==
  /\ Command /\ Lives
  /\ setup.card
  /\ rows[i].status \in {"upcoming", "overdue"}
  /\ rows' = [rows EXCEPT ![i].status = "skipped"]
  /\ UNCHANGED <<setup, doomed>>

\* deleteBill of any other bill: the occurrences first, without the setup's
\* lock, ...
DeleteCancels ==
  /\ Command /\ Lives
  /\ ~setup.card
  /\ doomed' = {i \in DOMAIN rows : rows[i].status = "upcoming" \/ rows[i].event = "live"}
  /\ doomed' # {}
  /\ UNCHANGED <<setup, rows>>

\* ... then the setup.
DeleteMarks ==
  LET Doom(rs) == CancelFuture(CancelFutureForecastEvents(rs))
  IN /\ doomed # {}
     /\ rows' = [i \in DOMAIN rows |-> IF i \in doomed THEN Doom(rows)[i] ELSE rows[i]]
     /\ setup' = [setup EXCEPT !.deleted = TRUE]
     /\ doomed' = {}
     /\ UNCHANGED <<today, commands>>

DayPasses ==
  /\ today < LastDate - Horizon
  /\ today' = today + 1
  /\ UNCHANGED <<setup, rows, doomed, commands>>

Next ==
  \/ Materialize
  \/ \E d \in Dates : \/ \E c \in {"monthly", "weekly"} : Reschedule(c, d)
                      \/ Reanchor(d)
                      \/ SetEndDate(d)
  \/ SetEndDate(NoDate)
  \/ Pause \/ Resume
  \/ \E i \in DOMAIN rows :
       \/ \E d \in Dates \cup {NoDate} : EditDate(i, d)
       \/ Settle(i, "paid") \/ Settle(i, "skipped") \/ Unlink(i)
       \/ DeleteCardCycle(i)
  \/ \E local \in {today - 1, today, today + 1} : SweepOverdue(local)
  \/ DeleteCancels \/ DeleteMarks
  \/ DayPasses

Spec == Init /\ [][Next]_vars

-----------------------------------------------------------------------------
TypeOK ==
  /\ setup \in Setup
  /\ \A i \in DOMAIN rows : rows[i] \in Row
  /\ today \in Dates /\ doomed \subseteq DOMAIN rows /\ commands \in 0..MaxCommands

\* What the two unique indexes of bill_occurrences demand.  Materialization
\* writes keys and dates for a whole schedule, over rows that were moved,
\* retired, cancelled or paid under another cadence; a collision would make
\* the job of this user fail, and fail again on every retry.
ScheduleIsUnique ==
  /\ TypeOK
  /\ \A i, j \in DOMAIN rows : i # j => rows[i].due # rows[j].due /\ rows[i].key # rows[j].key

\* A schedule never puts another payment on a date that the user, a payment
\* or an earlier cycle holds, whatever cadence it was made under: a step that
\* opens an occurrence on such a date is none of the schedule's.
Opened(i) == rows'[i].status = "upcoming" /\ rows'[i].override = NoDate
             /\ (i > Len(rows) \/ rows[i].status = "cancelled" \/ rows[i].due # rows'[i].due)
Holds(j) == rows[j].fixed \/ rows[j].override # NoDate \/ rows[j].status = "skipped"
HeldDatesStayFree ==
  (\E i \in DOMAIN rows' : Opened(i) /\ \E j \in DOMAIN rows \ {i} :
     Holds(j) /\ rows'[i].due \in {rows[j].due, Eff(rows[j])})
  => ~(Materialize \/ \E c \in {"monthly", "weekly"}, d \in Dates : Reschedule(c, d))

\* An end date that is set and taken back leaves the schedule as it was:
\* what the user, a payment or a pause decided meanwhile is no end date's to undo.
EndDateIsReversible ==
  (setup.status = "active" /\ setup.end = NoDate) =>
    \A e \in Dates :
      LET back == ReconcileEndDate(ReconcileEndDate(rows, e), NoDate)
      IN \A i \in DOMAIN rows : back[i].status = rows[i].status /\ back[i].byEnd = rows[i].byEnd

\* Both hold of every schedule, however its commands were ordered.
ScheduleIsConsistent == ScheduleIsUnique /\ EndDateIsReversible

\* All of the above.
CalendarIsKept == []ScheduleIsConsistent /\ [][HeldDatesStayFree]_vars
=============================================================================
