---------------------------- MODULE BillDetection ---------------------------
(***************************************************************************)
(* Bills suggested from the payments of the last days and kept up to date  *)
(* by later runs (recurring-engine.ts, runBillDetection of                 *)
(* bills.service.ts), beside the user who confirms, corrects, pauses, ends *)
(* and deletes them.  A run reads the payments, then the bills, and writes *)
(* later, in a transaction of its own; two runs may overlap.               *)
(*                                                                         *)
(* Days are numbers; a cadence has the range of its gaps and its step.     *)
(* A merchant is its normalized name, so a manual bill called like the     *)
(* merchant is a bill of that merchant.                                    *)
(***************************************************************************)
EXTENDS Integers, Sequences, FiniteSets, SequencesExt

CONSTANTS
  Payments,    \* all payments of a history: records [key, amount, date, sort]
  Histories,   \* sets of indices into Payments, each listed by date: one history each
  Gaps,        \* cadence -> the gaps it stands for, as a range <<low, high>>
  Step,        \* cadence -> days to the next date
  MonthLen,    \* days of a month
  PayDays,     \* the two semi-monthly days of a month, <<middle, end>>
  Window,      \* days of payments a run looks at
  Late,        \* bound: days a payment may take to be posted
  Corrections, \* cadences the user may set
  Statuses,    \* statuses the user may set, of "active", "paused" and "ended"
  ManualCadences, ManualAmounts,   \* the bills the user may enter
  Run,         \* detection runs that may overlap
  MaxRuns, MaxEdits   \* bounds: runs and commands of the user

VARIABLES
  history,   \* the payments that will be posted
  posted,    \* those posted so far
  today,     \* the date
  bills,     \* bill_setup: <<name, cadence>> -> row, the unique index of the table
  runs,      \* run -> its step and what it has read or decided
  started, edits

vars == <<history, posted, today, bills, runs, started, edits>>

None == "none"
NoDate == -1
Idle == [at |-> "idle", seen |-> {}, result |-> {}]

Named(key, kind, amount, slot, of) ==
  [key |-> key, kind |-> kind, amount |-> amount, slot |-> slot, of |-> of]
Merchant(key) == Named(key, "merchant", 0, 0, 0)
CardPayee(key) == Named(key, "card", 0, 0, 0)

Init ==
  /\ history \in Histories
  /\ posted = {} /\ today = 0
  /\ bills = << >>
  /\ runs = [r \in Run |-> Idle]
  /\ started = 0 /\ edits = 0

-----------------------------------------------------------------------------
(* The arithmetic of a series.  Rows are sorted by date.                   *)

Abs(n) == IF n < 0 THEN -n ELSE n
Sign(n) == n < 0

\* Twice the median, so that it is a whole number.
TwiceMedian(s) ==
  LET o == SortSeq(s, <)  m == Len(s) \div 2
  IN  IF s = << >> THEN 0
      ELSE IF Len(s) % 2 = 1 THEN 2 * o[m + 1] ELSE o[m] + o[m + 1]

RoundedMedian(s) == (TwiceMedian(s) + 1) \div 2

\* 1 - deviation / median is at least 0.6.
Confident(s) ==
  LET med == TwiceMedian(s)
      dev[n \in 0..Len(s)] == IF n = 0 THEN 0 ELSE dev[n - 1] + (2 * s[n] - med) * (2 * s[n] - med)
  IN  25 * dev[Len(s)] <= 4 * Len(s) * med * med

Row(i) == Payments[i]
ByDate(rows) == SelectSeq([i \in DOMAIN Payments |-> i], LAMBDA i : i \in rows)
Intervals(s) == [i \in 1..(Len(s) - 1) |-> Row(s[i + 1]).date - Row(s[i]).date]

ClassifyCadence(gaps) ==
  LET fits == {c \in DOMAIN Gaps : /\ 2 * Gaps[c][1] <= TwiceMedian(gaps)
                                   /\ TwiceMedian(gaps) <= 2 * Gaps[c][2]}
  IN  IF gaps = << >> \/ fits = {} THEN None ELSE CHOOSE c \in fits : TRUE

\* On the pay day or the day after it.
PaidAround(d, day) == (d - day) % MonthLen \in {0, 1}

LooksSemimonthly(rows) ==
  /\ Cardinality(rows) >= 3
  /\ \A i \in rows : \E n \in {1, 2} : PaidAround(Row(i).date, PayDays[n])
  /\ \A n \in {1, 2} : \E i \in rows : PaidAround(Row(i).date, PayDays[n])

NextSemimonthly(d) ==
  CHOOSE e \in (d + 1)..(d + MonthLen) :
    /\ \E n \in {1, 2} : e % MonthLen = PayDays[n] % MonthLen
    /\ \A f \in (d + 1)..(e - 1) : \A n \in {1, 2} : f % MonthLen # PayDays[n] % MonthLen

NextDate(d, cadence) == IF cadence = "semimonthly" THEN NextSemimonthly(d) ELSE d + Step[cadence]

WithinTenPercent(a, b) == a # 0 /\ 10 * Abs(a - b) <= Abs(a)

-----------------------------------------------------------------------------
(* What a run decides from the payments and the bills it read.             *)

\* Card payments with an inflow on a linked card: its statement bill covers them.
PaysLinkedCard(seen) ==
  LET landings == {j \in seen : Row(j).sort = "landing"}
  IN  {i \in seen : Row(i).sort = "card" /\ \E j \in landings :
         Row(j).amount = -Row(i).amount /\ Abs(Row(j).date - Row(i).date) <= 1}

Eligible(seen) ==
  {i \in seen : Row(i).sort \in {"purchase", "paycheck", "card"}} \ PaysLinkedCard(seen)

\* The payments of each merchant.
Groups(seen, sorts) ==
  LET eligible == {i \in Eligible(seen) : Row(i).sort \in sorts}
  IN  {{i \in eligible : Row(i).key = k} : k \in {Row(i).key : i \in eligible}}

\* The payments of one amount; a slot holds one payment per day.
SlotOf(same, i) == Cardinality({j \in same : Row(j).date = Row(i).date /\ j <= i})

SplitByAmount(key, group) ==
  UNION {LET same == {i \in group : Row(i).amount = a}
             slot == [i \in same |-> SlotOf(same, i)]
             slots == {slot[i] : i \in same}
         IN  {[rows |-> {i \in same : slot[i] = n},
               name |-> Named(key, "split", Abs(a), n, Cardinality(slots))] : n \in slots}
         : a \in {Row(i).amount : i \in group}}

\* "none" when the rows have no schedule.
Schedule(rows) ==
  IF Cardinality(rows) < 3 \/ \E i, j \in rows : Sign(Row(i).amount) # Sign(Row(j).amount) THEN None
  ELSE IF LooksSemimonthly(rows) THEN "semimonthly"
  ELSE ClassifyCadence(Intervals(ByDate(rows)))

MedianAmount(rows) == LET s == ByDate(rows) IN RoundedMedian([i \in DOMAIN s |-> Row(s[i]).amount])
LastOf(rows) == Row(Last(ByDate(rows)))

Existing(all) == {b \in DOMAIN all : ~all[b].deleted}
OfMerchant(all, key) == {b \in Existing(all) : b[1] = Merchant(key)}
SameSign(all, b, amount) == Sign(all[b].avg) = Sign(amount)

\* The bills the series may be: the one with its cadence, else one the user corrected.
Known(all, name, cadence, amount) ==
  LET own == {b \in Existing(all) : b[1] = name /\ b[2] = cadence}
      corrected == {b \in Existing(all) : b[1] = name /\ all[b].override # None
                                          /\ (name.kind = "merchant" => SameSign(all, b, amount))}
  IN  IF own # {} THEN own ELSE corrected

\* A series that is not saved because another bill stands for it already.
Covered(all, name, cadence, amount) ==
  \/ /\ name.kind = "split"
     /\ \E b \in OfMerchant(all, name.key) :
          /\ all[b].status # "ended" /\ SameSign(all, b, amount)
          /\ WithinTenPercent(all[b].avg, amount)
  \/ /\ name.kind = "merchant" /\ cadence = "semimonthly"
     /\ \E b \in Existing(all) :
          /\ b[1].key = name.key /\ b[1].kind # "card" /\ b[2] = "biweekly"
          /\ all[b].status # "ended" /\ SameSign(all, b, amount)

Suggestion(name, cadence, avg, last, next, count, rows) ==
  [bill |-> <<name, cadence>>, insert |-> TRUE, avg |-> avg, last |-> last, next |-> next,
   samples |-> count, previous |-> 0, rows |-> rows]

UpdateOf(all, b, cadence, avg, last, next, count, rows) ==
  IF \/ all[b].status # "active" \/ last <= all[b].last
     \/ ~SameSign(all, b, avg) \/ cadence = "irregular"
  THEN {}
  ELSE {[bill |-> b, insert |-> FALSE, avg |-> avg, last |-> last, next |-> next, samples |-> count,
         rows |-> rows,
         previous |-> IF all[b].avg > 0 /\ b[1].kind # "card" /\ 10 * Abs(avg - all[b].avg) > all[b].avg
                      THEN all[b].avg ELSE all[b].previous]}

\* More than one corrected bill of the merchant: nobody knows which one it is.
DetectSeries(all, name, rows) ==
  LET cadence == Schedule(rows)  avg == MedianAmount(rows)  last == LastOf(rows).date
      known == Known(all, name, cadence, avg)  count == Cardinality(rows)
      b == CHOOSE c \in known : TRUE
      effective == IF all[b].override # None THEN all[b].override ELSE cadence
  IN  CASE cadence = None -> {}
        [] name.kind = "merchant" /\ Cardinality(known) > 1 -> {}
        [] cadence # None /\ known = {} ->
             IF Covered(all, name, cadence, avg) \/ ~Confident(Intervals(ByDate(rows))) THEN {}
             ELSE {Suggestion(name, cadence, avg, last, NextDate(last, cadence), count, rows)}
        [] OTHER ->
             UpdateOf(all, b, effective, avg, last,
                      IF effective = "irregular" THEN last ELSE NextDate(last, effective), count, rows)

DetectMerchant(all, group) ==
  LET key == Row(CHOOSE i \in group : TRUE).key
  IN  IF Schedule(group) # None THEN DetectSeries(all, Merchant(key), group)
      ELSE UNION {DetectSeries(all, split.name, split.rows) : split \in SplitByAmount(key, group)}

\* A card is paid when the user chooses: two months make a monthly bill, due
\* on the usual day.
DetectCardPayment(all, group) ==
  LET s == ByDate(group)  last == LastOf(group)
      usual == RoundedMedian([i \in DOMAIN s |-> Row(s[i]).date % MonthLen])
      monthly == (last.date \div MonthLen + 1) * MonthLen + usual
      b == <<CardPayee(last.key), "monthly">>
      effective == IF all[b].override # None THEN all[b].override ELSE "monthly"
  IN  IF Cardinality({Row(i).date \div MonthLen : i \in group}) < 2 THEN {}
      ELSE IF b \in Existing(all)
           THEN UpdateOf(all, b, effective, last.amount, last.date,
                      IF effective \in {"monthly", "irregular"} THEN monthly
                      ELSE NextDate(last.date, effective), Cardinality(group), group)
           ELSE {Suggestion(b[1], "monthly", last.amount, last.date, monthly, Cardinality(group), group)}

DetectRecurring(seen, all) ==
  UNION ({DetectMerchant(all, g) : g \in Groups(seen, {"purchase", "paycheck"})}
         \cup {DetectCardPayment(all, g) : g \in Groups(seen, {"card"})})

-----------------------------------------------------------------------------
(* Writing the result.                                                     *)

\* A row that exists, deleted or not, is left alone.
UpsertDetected(all, result) ==
  [b \in DOMAIN all \cup {s.bill : s \in {t \in result : t.insert}} |->
     IF b \in DOMAIN all THEN all[b]
     ELSE LET s == CHOOSE t \in result : t.insert /\ t.bill = b
          IN  [status |-> "pending", override |-> None, deleted |-> FALSE, avg |-> s.avg,
               last |-> s.last, next |-> s.next, samples |-> s.samples, previous |-> 0]]

\* Mutant: the condition on the stored row is left out.
AnyRow(row, s) == TRUE
StillOlder(row, s) == ~row.deleted /\ row.status = "active" /\ row.last < s.last

UpdateDetection(all, result) ==
  [b \in DOMAIN all |->
     IF \E s \in result : ~s.insert /\ s.bill = b /\ StillOlder(all[b], s)
     THEN LET s == CHOOSE t \in result : ~t.insert /\ t.bill = b
          IN  [all[b] EXCEPT !.last = s.last, !.next = s.next, !.avg = s.avg,
                             !.samples = s.samples, !.previous = s.previous]
     ELSE all[b]]

Written(all, result) == UpdateDetection(UpsertDetected(all, result), result)

DetectionTransactions == {i \in posted : Row(i).date >= today - Window}

ReadPayments(r) ==
  /\ runs[r].at = "idle" /\ started < MaxRuns
  /\ started' = started + 1
  /\ runs' = [runs EXCEPT ![r] = [Idle EXCEPT !.at = "payments", !.seen = DetectionTransactions]]
  /\ UNCHANGED <<history, posted, today, bills, edits>>

ReadBills(r) ==
  /\ runs[r].at = "payments"
  /\ runs' = [runs EXCEPT ![r] = [Idle EXCEPT !.at = "decided",
                                  !.result = DetectRecurring(runs[r].seen, bills)]]
  /\ UNCHANGED <<history, posted, today, bills, started, edits>>

Write(r) ==
  /\ runs[r].at = "decided"
  /\ bills' = Written(bills, runs[r].result)
  /\ runs' = [runs EXCEPT ![r] = Idle]
  /\ UNCHANGED <<history, posted, today, started, edits>>

-----------------------------------------------------------------------------
(* The bank and the user.                                                  *)

\* The payments of one day are numbered as the bank posts them.
Post(i) ==
  /\ i \in history \ posted /\ Row(i).date <= today
  /\ \A j \in history \ posted : Row(j).date = Row(i).date => i <= j
  /\ posted' = posted \cup {i}
  /\ UNCHANGED <<history, today, bills, runs, started, edits>>

\* To the next day with a payment; none is posted more than Late days after it.
Pass ==
  /\ \A i \in history \ posted : Row(i).date + Late >= today
  /\ \E i \in history \ posted :
       /\ Row(i).date > today /\ \A j \in history : Row(j).date > today => Row(j).date >= Row(i).date
       /\ today' = Row(i).date
  /\ UNCHANGED <<history, posted, bills, runs, started, edits>>

Edit == edits < MaxEdits /\ edits' = edits + 1

\* The unique index refuses a name and cadence that exist.
CreateBill(key, cadence, amount) ==
  LET b == <<Merchant(key), cadence>> IN
  /\ Edit /\ b \notin DOMAIN bills
  /\ bills' = [c \in DOMAIN bills \cup {b} |->
                 IF c = b THEN [status |-> "active", override |-> None, deleted |-> FALSE, avg |-> amount,
                                last |-> NoDate, next |-> today, samples |-> 0, previous |-> 0]
                 ELSE bills[c]]
  /\ UNCHANGED <<history, posted, today, runs, started>>

UpdateBill(b, status, override) ==
  /\ Edit /\ b \in Existing(bills)
  /\ status # bills[b].status \/ override # bills[b].override
  /\ override # bills[b].override =>
       \/ bills[b].status = "pending"
       \/ bills[b].status = "active" /\ override # "irregular"
  /\ bills' = [bills EXCEPT ![b].status = status, ![b].override = override]
  /\ UNCHANGED <<history, posted, today, runs, started>>

DeleteBill(b) ==
  /\ Edit /\ b \in Existing(bills)
  /\ bills' = [bills EXCEPT ![b].deleted = TRUE]
  /\ UNCHANGED <<history, posted, today, runs, started>>

Next ==
  \/ Pass
  \/ \E i \in history : Post(i)
  \/ \E r \in Run : ReadPayments(r) \/ ReadBills(r) \/ Write(r)
  \/ \E k \in {Row(i).key : i \in history}, c \in ManualCadences, a \in ManualAmounts : CreateBill(k, c, a)
  \/ \E b \in DOMAIN bills : \/ \E s \in Statuses \cup {bills[b].status},
                                   c \in Corrections \cup {bills[b].override} : UpdateBill(b, s, c)
                             \/ DeleteBill(b)

Spec == Init /\ [][Next]_vars

-----------------------------------------------------------------------------
(* Properties.                                                             *)

\* No payment is counted in two series of one run, and a series of a split
\* merchant holds one payment a day (splitByAmount).
PaymentsCountOnce(result) ==
  \A s, t \in result :
    /\ s # t => s.rows \cap t.rows = {}
    /\ s.bill[1].kind = "split" => \A i, j \in s.rows : i # j => Row(i).date # Row(j).date

\* An active bill of the series' own cadence shows the series' last payment.
ActiveBillsCatchUp(seen, all) ==
  \A g \in Groups(seen, {"purchase", "paycheck"}) :
    LET b == <<Merchant(LastOf(g).key), Schedule(g)>>
    IN  /\ b \in Existing(all) /\ all[b].status = "active" /\ all[b].override # "irregular"
        /\ SameSign(all, b, MedianAmount(g))
        => all[b].last >= LastOf(g).date

\* Whenever no run is under way, one that nothing interrupts counts each payment once and
\* brings the active bills up to date, and a second one over the same payments
\* changes nothing: no suggestion comes up again under another cadence or as a
\* part of a split series, whatever the user did before (detectSeries).
DetectionSettles ==
  (\A r \in Run : runs[r] = Idle) =>
  LET seen == DetectionTransactions
      result == DetectRecurring(seen, bills)
      once == Written(bills, result)
  IN  /\ PaymentsCountOnce(result)
      /\ ActiveBillsCatchUp(seen, once)
      /\ once # bills => Written(once, DetectRecurring(seen, once)) = once

\* Detection never takes a bill back in time, never touches one that is not
\* active, and leaves what the user decided alone, also when the user decided
\* it after the run had read the bills (updateDetection's conditions).
UserDecides ==
  \A b \in DOMAIN bills :
    /\ bills'[b].last >= bills[b].last
    /\ edits' = edits =>
         /\ bills[b].deleted \/ bills[b].status # "active" => bills'[b] = bills[b]
         /\ bills'[b].status = bills[b].status /\ bills'[b].override = bills[b].override

\* All of the above.
DetectionIsSound == []DetectionSettles /\ [][UserDecides]_vars
=============================================================================
