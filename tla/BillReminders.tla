--------------------------- MODULE BillReminders ---------------------------
(***************************************************************************)
(* The daily bill-reminder push of one user (bill-reminders.service.ts,    *)
(* bill-reminders.repository.ts, bill-reminder-content.ts, the quiet hours *)
(* of bill-schedule.ts, the preferences of notifications.repository.ts).   *)
(*                                                                         *)
(* A run is a job bill_reminders: it reads the preferences, and then, in   *)
(* one transaction under the advisory lock of its day, chooses what to     *)
(* name, sends the push and records it.  Any number of runs may exist for  *)
(* one day.  Time counts the slots of a day; the device's zone is fixed.   *)
(***************************************************************************)
EXTENDS Integers, FiniteSets

CONSTANTS
  Bills,       \* unpaid bills with an amount
  Due,         \* their due days
  Ahead,       \* billReminderDaysAhead
  DayLen,      \* slots of a day
  Nine,        \* REMINDER_HOUR, the slot reminders go out at
  StaleAfter,  \* STALE_AFTER_MS, in slots
  Windows,     \* quiet hours the user may set: <<start, end>>, equal for none
  LastTime,    \* bound: the clock
  MaxRuns,     \* bound: jobs
  MaxEvents    \* bound: commands of the user and transactions rolled back

VARIABLES
  now,      \* the clock
  prefs,    \* notification_preferences: on, pushToken (0 for none), quiet hours
  device,   \* the token that reaches the device
  paid,     \* bills paid
  rows,     \* notifications of type bill_reminder
  run,      \* the jobs
  heard,    \* history: pushes delivered for each day
  repeats,  \* history: transactions of each day rolled back after their push
  crossed,  \* history: a transaction began while that of another day was open
  events

vars == <<now, prefs, device, paid, rows, run, heard, repeats, crossed, events>>

Runs == 1..MaxRuns
Days == 0..(LastTime \div DayLen)
NoRow == [by |-> 0, day |-> 0, due |-> {}, overdue |-> {}, sent |-> FALSE]
Row == [by : Runs, day : Days \cup {1 + LastTime \div DayLen}, due : SUBSET Bills,
        overdue : SUBSET Bills, sent : BOOLEAN]
Free == [at |-> "free", day |-> 0, from |-> 0, token |-> 0, row |-> NoRow]
Over == [Free EXCEPT !.at = "over"]

Init ==
  /\ now = 0
  /\ prefs \in [on : {TRUE}, token : {1}, quiet : Windows]
  /\ device = 1
  /\ paid = {} /\ rows = {}
  /\ run = [r \in Runs |-> Free]
  /\ heard = [d \in Days |-> 0] /\ repeats = [d \in Days |-> 0]
  /\ crossed = FALSE
  /\ events = 0

-----------------------------------------------------------------------------
(* Quiet hours. *)

InQuietHours(hour, start, end) ==
  IF start <= end THEN start <= hour /\ hour < end ELSE hour >= start \/ hour < end

\* An instant inside quiet hours moves to their end, over midnight if need be.
ShiftOutOfQuiet(t, quiet) ==
  LET hour == t % DayLen
      overnight == quiet[1] > quiet[2] /\ hour >= quiet[1]
      day == t \div DayLen + (IF overnight THEN 1 ELSE 0)
  IN IF InQuietHours(hour, quiet[1], quiet[2]) THEN day * DayLen + quiet[2] ELSE t

SendTime(p, day) == ShiftOutOfQuiet(day * DayLen + Nine, p.quiet)
BillReminderPushActive(p) == p.on /\ p.token # 0
WithToken(p, token) == [p EXCEPT !.token = token]
WithoutToken(p) == [p EXCEPT !.token = 0]

-----------------------------------------------------------------------------
(* buildBillReminder: what the reminder of a day names. *)

ListUnpaidOccurrences(day) == {b \in Bills \ paid : Due[b] <= day + Ahead}
ListMentionedDue == UNION {w.due : w \in {v \in rows : v.sent}}
ListMentionedOverdue == UNION {w.overdue : w \in {v \in rows : v.sent}}

NamesDue(day) == {b \in ListUnpaidOccurrences(day) : Due[b] >= day} \ ListMentionedDue
NamesOverdue(day) == {b \in ListUnpaidOccurrences(day) : Due[b] < day} \ ListMentionedOverdue

-----------------------------------------------------------------------------
(* The jobs. *)

Queue(rs, r, day, at) == [rs EXCEPT ![r] = [Free EXCEPT !.at = "queued", !.day = day, !.from = at]]
Unused == {r \in Runs : run[r].at = "free"}
Lowest(s) == CHOOSE r \in s : \A q \in s : r <= q
Later(a, b) == IF a > b THEN a ELSE b

ListRecipients == {p \in {prefs} : BillReminderPushActive(p)}

\* scheduleAll: today and tomorrow, as far as their send time is not long past.
\* A failure to queue is caught per user, after none or one of them.
ScheduleAll(k) ==
  LET today == now \div DayLen
      due(d) == SendTime(prefs, d) + StaleAfter >= now
      days == {d \in today..(today + k - 1) : due(d)}
  IN /\ ListRecipients # {}
     /\ days # {} /\ Cardinality(days) <= Cardinality(Unused)
     /\ \A d \in days : d \in Days
     /\ run' = [r \in Runs |->
          LET mine == {d \in days : Cardinality({q \in Unused : q < r})
                                      = Cardinality({e \in days : e < d})}
          IN IF r \in Unused /\ mine # {}
             THEN LET d == CHOOSE d \in mine : TRUE
                  IN [Free EXCEPT !.at = "queued", !.day = d,
                        !.from = Later(now, SendTime(prefs, d))]
             ELSE run[r]]
     /\ UNCHANGED <<now, prefs, device, paid, rows, heard, repeats, crossed, events>>

\* The preferences are read before the transaction.  The job ends (inactive,
\* stale), is queued again at the new send time, or goes on with the token.
ReadPreferences(r) ==
  LET sendAt == SendTime(prefs, run[r].day)
  IN /\ run[r].at = "queued" /\ now >= run[r].from
     /\ run' = IF ~BillReminderPushActive(prefs) \/ now - sendAt > StaleAfter
               THEN [run EXCEPT ![r] = Over]
               ELSE IF now < sendAt THEN Queue(run, r, run[r].day, sendAt)
               ELSE [run EXCEPT ![r].at = "ready", ![r].token = prefs.token]
     /\ UNCHANGED <<now, prefs, device, paid, rows, heard, repeats, crossed, events>>

InTransaction(r) == run[r].at \in {"named", "pushed", "refused"}

\* Mutant: the day is not locked.
DayTaken(day) == FALSE

DayLocked(day) == \E q \in Runs : InTransaction(q) /\ run[q].day = day

\* The lock, the day's row and the content; nothing is visible to others yet.
LockDay(r) ==
  LET day == run[r].day
      mine == {w \in rows : w.day = day}
      due == NamesDue(day)
      overdue == NamesOverdue(day)
  IN /\ run[r].at = "ready"
     /\ ~DayLocked(day)
     /\ run' = IF (\E w \in mine : w.sent) \/ (due = {} /\ overdue = {})
               THEN [run EXCEPT ![r] = Over]
               ELSE [run EXCEPT ![r].at = "named", ![r].row =
                      [by |-> IF mine = {} THEN r ELSE (CHOOSE w \in mine : TRUE).by,
                       day |-> day, due |-> due, overdue |-> overdue, sent |-> FALSE]]
     /\ crossed' = (crossed \/ \E q \in Runs \ {r} : InTransaction(q) /\ run[q].day # day)
     /\ UNCHANGED <<now, prefs, device, paid, rows, heard, repeats, events>>

\* sender.send: the push arrives, or is refused for the moment.
Send(r) ==
  /\ run[r].at = "named"
  /\ \/ /\ run[r].token = device
        /\ heard' = [heard EXCEPT ![run[r].day] = @ + 1]
        /\ run' = [run EXCEPT ![r].at = "pushed", ![r].row.sent = TRUE]
        /\ UNCHANGED prefs
     \/ /\ run' = [run EXCEPT ![r].at = "refused"]
        /\ UNCHANGED <<heard, prefs>>
     \/ \* onInvalidToken clears the stored token, whichever it is by now
        /\ run[r].token # device
        /\ prefs' = WithoutToken(prefs)
        /\ run' = [run EXCEPT ![r].at = "refused"]
        /\ UNCHANGED heard
  /\ UNCHANGED <<now, device, paid, rows, repeats, crossed, events>>

\* The row of the day is inserted, or updated when the day has one.
Recorded(row) == {w \in rows : w.by # row.by} \cup {row}

\* A row that was not sent is kept; the job ends in either case.
Commit(r) ==
  /\ run[r].at \in {"pushed", "refused"}
  /\ rows' = Recorded(run[r].row)
  /\ run' = [run EXCEPT ![r] = Over]
  /\ UNCHANGED <<now, prefs, device, paid, heard, repeats, crossed, events>>

Counted == events < MaxEvents /\ events' = events + 1

\* A statement fails, the connection or the worker dies: the transaction is
\* rolled back and the job is run again.
Crash(r) ==
  /\ run[r].at = "ready" \/ InTransaction(r)
  /\ Counted
  /\ repeats' = [repeats EXCEPT ![run[r].day] = IF run[r].at = "pushed" THEN @ + 1 ELSE @]
  /\ run' = Queue(run, r, run[r].day, now)
  /\ UNCHANGED <<now, prefs, device, paid, rows, heard, crossed>>

-----------------------------------------------------------------------------
(* The user and the clock. *)

UpdatePreferences(on, quiet) ==
  /\ Counted
  /\ on # prefs.on \/ quiet # prefs.quiet
  /\ prefs' = [prefs EXCEPT !.on = on, !.quiet = quiet]
  /\ UNCHANGED <<now, device, paid, rows, run, heard, repeats, crossed>>

\* The app registers the token the device was given.
SetPushToken ==
  /\ Counted
  /\ device' = device + 1
  /\ prefs' = WithToken(prefs, device')
  /\ UNCHANGED <<now, paid, rows, run, heard, repeats, crossed>>

ClearPushToken ==
  /\ Counted
  /\ prefs' = WithoutToken(prefs)
  /\ UNCHANGED <<now, device, paid, rows, run, heard, repeats, crossed>>

Pay(b) ==
  /\ Counted
  /\ b \notin paid
  /\ paid' = paid \cup {b}
  /\ UNCHANGED <<now, prefs, device, rows, run, heard, repeats, crossed>>

Tick ==
  /\ now < LastTime
  /\ now' = now + 1
  /\ UNCHANGED <<prefs, device, paid, rows, run, heard, repeats, crossed, events>>

Next ==
  \/ \E k \in {1, 2} : ScheduleAll(k)
  \/ \E r \in Runs : ReadPreferences(r) \/ LockDay(r) \/ Send(r) \/ Commit(r) \/ Crash(r)
  \/ \E on \in BOOLEAN, quiet \in Windows : UpdatePreferences(on, quiet)
  \/ SetPushToken \/ ClearPushToken
  \/ \E b \in Bills : Pay(b)
  \/ Tick

Spec == Init /\ [][Next]_vars

-----------------------------------------------------------------------------
TypeOK ==
  /\ now \in 0..LastTime /\ device \in 1..(MaxEvents + 1) /\ paid \subseteq Bills
  /\ prefs \in [on : BOOLEAN, token : 0..(MaxEvents + 1), quiet : Windows]
  /\ rows \subseteq Row
  /\ \A r \in Runs : run[r].at \in {"free", "queued", "ready", "named", "pushed", "refused", "over"}

\* "One bill-reminder push per user per local day", and "a bill is named once
\* as due and, if it goes unpaid, once as overdue", however often the day is
\* queued, deferred and retried, and whatever is paid or changed meanwhile.
\* A push is only repeated for a transaction that was rolled back after it,
\* and a name only if the transactions of two days were open at once: the lock
\* is per day.
OneReminderPerDay ==
  /\ TypeOK
  /\ \A d \in Days : heard[d] <= 1 + repeats[d]
  /\ \A v, w \in rows : v.day = w.day => v = w
  /\ ~crossed => \A v, w \in rows : v # w /\ v.sent /\ w.sent =>
       v.due \cap w.due = {} /\ v.overdue \cap w.overdue = {}
=============================================================================
