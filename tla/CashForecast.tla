---------------------------- MODULE CashForecast ----------------------------
(***************************************************************************)
(* The account-aware cash forecast (forecast/engine/accounts.ts, with the  *)
(* card's debt as forecast-accounts.repository.ts reads it): one card, the *)
(* account that pays for it, and the cash nobody assigned, day by day over *)
(* the horizon.  A statement closes while the one before it may be unpaid, *)
(* overdue, or paid by hand.                                               *)
(*                                                                         *)
(* Today is day 0 and months have the same length.  The events of a day    *)
(* are chosen when the day comes: the engine looks at no other day's.      *)
(***************************************************************************)
EXTENDS Integers, Sequences, FiniteSetsExt, SequencesExt

CONSTANTS
  Month,          \* days of a month
  DefaultOffset,  \* from the close of a statement to its due date, if unknown
  MaxOffset,      \* the longest such offset that is believed
  Horizon,        \* days of the forecast
  Card,           \* the cards at the start, see CardRow
  Amount,         \* amounts of events; negative is money in
  Spend,          \* everyday spending per day
  Scale, Yield,   \* fractions of a cent; what a day with money in the account yields
  MaxEvents       \* bound: events within the horizon

VARIABLES
  day, phase,
  cash,        \* balance of each cash account
  card,        \* billed, unbilled, credits, the override of the open statement
  terms,       \* what does not change: rule, minimum, payer, cycle
  due, overdue, nextClose,
  deferred,    \* statements a close overtook, with what they still owe
  manual,      \* payments recorded by hand that no transaction shows yet
  statements,  \* what is reported: due date, payment, and history: paid
  accrued,     \* interest not credited yet, in fractions of a cent
  spend, events,
  outside      \* history: what left the accounts and the card for elsewhere

debt == <<card, due, overdue, nextClose, deferred, manual, statements>>
vars == <<day, phase, cash, debt, terms, accrued, spend, events, outside>>

None == -100
Cash == {"checking", "unassigned"}
CashTotal == cash.checking + cash.unassigned
Owed(c) == Max({0, c.billed - c.credits})

\* Statement balance, payments and credits since it closed, current balance.
EngineCard(row) ==
  LET billed == Max({0, row.statement - row.paid}) IN
  [billed |-> billed, credits |-> row.credits, unbilled |-> row.current - billed + row.credits,
   override |-> row.override]

\* The rule's amount or the minimum, never more than is owed.
CardPaymentFor(c, t) ==
  LET requested == CASE t.rule = "full" -> Owed(c)
                     [] t.rule = "planned" -> t.planned
                     [] t.rule = "interest_saving" ->
                          IF c.override # None THEN c.override ELSE Max({t.minimum, t.last})
  IN Min({Owed(c), Max({0, requested, t.minimum})})

\* Closing day and the distance from it to the due date.
DeriveCycle(row) ==
  LET offset == IF row.due = None THEN DefaultOffset ELSE row.due - row.closed IN
  CASE row.closed # None ->
         [close |-> row.closed, offset |-> IF offset \in 1..MaxOffset THEN offset ELSE DefaultOffset]
    [] row.closed = None /\ row.due # None ->
         [close |-> row.due - DefaultOffset, offset |-> DefaultOffset]
    [] OTHER -> [close |-> None, offset |-> DefaultOffset]

FirstClose(cycle) ==
  IF cycle.close = None THEN None
  ELSE CHOOSE d \in 0..(2 * Month + MaxOffset) :
         /\ d > cycle.close /\ (d - cycle.close) % Month = 0
         /\ d < Month \/ d = cycle.close + Month

\* A hand-recorded payment comes first; a due date in the past is due today
\* unless enough was paid since the statement closed.
FirstDue(row, c, t, payments) ==
  IF payments # <<>> /\ (row.due = None \/ payments[1].date <= row.due)
  THEN payments[1].date
  ELSE IF row.due = None \/ row.due >= 0 THEN row.due
  ELSE IF row.paid >= CardPaymentFor([c EXCEPT !.billed = row.statement], t) THEN None ELSE 0

Statement(close, d) == [close |-> close, due |-> d, paid |-> None]

Init ==
  \E row \in Card :
    LET c == EngineCard(row)
        cycle == DeriveCycle(row)
        t == [rule |-> row.rule, planned |-> row.planned, minimum |-> row.minimum, last |-> row.last,
              from |-> row.from, external |-> row.external, offset |-> cycle.offset,
              lateSince |-> row.due, idle |-> FALSE, start |-> row.current]
        first == FirstDue(row, c, t, row.manual)
    IN /\ card = c /\ terms = [t EXCEPT !.idle = first = None] /\ due = first
       /\ overdue = (row.due # None /\ row.due < 0 /\ first = 0)
       /\ nextClose = FirstClose(cycle)
       /\ manual = row.manual /\ deferred = <<>>
       /\ statements = IF first = None THEN <<>> ELSE <<Statement(cycle.close, first)>>
       /\ day = 0 /\ phase = "events" /\ events = 0
       /\ cash = [a \in Cash |-> 0] /\ accrued = 0 /\ outside = 0
       /\ spend \in Spend

-----------------------------------------------------------------------------
\* Money back on the card lowers the statement that is due next; what comes
\* too late for it, and every charge, waits for the next statement.
CreditCounts(amount) ==
  /\ amount < 0 /\ due # None
  /\ day <= IF deferred # <<>> THEN deferred[1].due
            ELSE IF overdue THEN (IF terms.lateSince # None THEN terms.lateSince ELSE due) ELSE due

OnCard(amount) ==
  IF ~CreditCounts(amount)
  THEN card' = [card EXCEPT !.unbilled = @ + amount] /\ UNCHANGED deferred
  ELSE IF deferred # <<>>
  THEN deferred' = [deferred EXCEPT ![1].card.credits = @ - amount] /\ UNCHANGED card
  ELSE card' = [card EXCEPT !.credits = @ - amount] /\ UNCHANGED deferred

Post ==
  /\ phase = "events" /\ events < MaxEvents
  /\ \E amount \in Amount, on \in Cash \cup {"card"} :
       /\ IF on = "card" THEN OnCard(amount) /\ UNCHANGED cash
          ELSE cash' = [cash EXCEPT ![on] = @ - amount] /\ UNCHANGED <<card, deferred>>
       /\ outside' = outside + amount
  /\ events' = events + 1
  /\ UNCHANGED <<day, phase, terms, due, overdue, nextClose, manual, statements, accrued, spend>>

DailySpend ==
  /\ phase = "events"
  /\ phase' = "late"
  /\ card' = [card EXCEPT !.unbilled = @ + spend.card]
  /\ cash' = [cash EXCEPT !.checking = @ - spend.checking]
  /\ outside' = outside + spend.card + spend.checking
  /\ UNCHANGED <<day, terms, due, overdue, nextClose, deferred, manual, statements, accrued, spend, events>>

-----------------------------------------------------------------------------
(* Payments. *)

ManualToday == {i \in DOMAIN manual : manual[i].date = day}
PaidByHand == ManualToday # {}
ByHand == manual[Min(ManualToday)]
Payment(c) == IF PaidByHand THEN ByHand.amount ELSE CardPaymentFor(c, terms)
ManualLeft == IF PaidByHand THEN RemoveAt(manual, Min(ManualToday)) ELSE manual

Source ==
  LET from == IF PaidByHand /\ ByHand.from # "unassigned" THEN ByHand.from ELSE terms.from IN
  [account |-> from, external |-> IF PaidByHand THEN from = "unassigned" ELSE terms.external]

\* Mutant: a payment above the statement is forgotten.
OnlyStatement(c) ==
  [billed |-> Max({0, c.billed - c.credits - Payment(c)}), credits |-> 0,
   unbilled |-> c.unbilled - Max({0, c.credits - c.billed}), override |-> c.override]

\* What exceeds the statement, credits or payment, lowers the charges after it.
AfterPayment(c) ==
  [billed |-> Max({0, c.billed - c.credits - Payment(c)}), credits |-> 0,
   unbilled |-> c.unbilled - Max({0, c.credits - c.billed}) - Max({0, Payment(c) - Owed(c)}),
   override |-> c.override]

Settle(c) ==
  /\ cash' = IF Source.external THEN cash ELSE [cash EXCEPT ![Source.account] = @ - Payment(c)]
  /\ outside' = outside - (IF Source.external THEN Payment(c) ELSE 0)
  /\ manual' = ManualLeft

\* The next payment by hand, if it comes before the next close.
DueAfterPayment ==
  IF ManualLeft # <<>> /\ (nextClose = None \/ ManualLeft[1].date < nextClose)
  THEN ManualLeft[1].date ELSE None

PaidStatement(i) ==
  IF i = 0 \/ (i > 0 /\ statements[i].paid # None) THEN statements
  ELSE [statements EXCEPT ![i].paid = day]

Pay ==
  /\ Settle(card)
  /\ card' = AfterPayment(card)
  /\ due' = DueAfterPayment /\ overdue' = FALSE
  /\ statements' = PaidStatement(Len(statements))

\* An overdue statement is paid before a close on the same day.
CatchUp ==
  /\ phase = "late" /\ phase' = "deferred"
  /\ IF overdue /\ due = day THEN Pay
     ELSE UNCHANGED <<cash, outside, manual, card, due, overdue, statements>>
  /\ UNCHANGED <<day, terms, nextClose, deferred, accrued, spend, events>>

\* What an overtaken statement leaves unpaid joins the open one.
PayDeferred ==
  /\ phase = "deferred"
  /\ LET now == {i \in DOMAIN deferred : deferred[i].due = day} IN
     IF now = {} THEN phase' = "close" /\ UNCHANGED <<cash, outside, manual, card, deferred, statements>>
     ELSE LET i == Min(now)
              left == AfterPayment(deferred[i].card)
          IN /\ Settle(deferred[i].card)
             /\ card' = [card EXCEPT !.billed = @ + left.billed, !.unbilled = @ + left.unbilled]
             /\ statements' = PaidStatement(deferred[i].statement)
             /\ deferred' = RemoveAt(deferred, i)
             /\ UNCHANGED phase
  /\ UNCHANGED <<day, terms, due, overdue, nextClose, accrued, spend, events>>

\* The statement still due is set aside; the balance becomes the new one.
Close ==
  LET overtaken == due # None /\ due > day
      open == IF overtaken THEN [card EXCEPT !.billed = 0, !.credits = 0] ELSE card
      balance == open.billed + open.unbilled
      aside == IF overtaken
               THEN Append(deferred, [card |-> [card EXCEPT !.unbilled = 0], due |-> due,
                                      statement |-> Len(statements)])
               ELSE deferred
      free == {i \in DOMAIN manual : \A j \in DOMAIN aside : aside[j].due # manual[i].date}
      cycleDue == day + terms.offset
  IN
  /\ phase = "close" /\ phase' = "pay"
  /\ IF nextClose # day THEN UNCHANGED debt
     ELSE /\ deferred' = aside
          /\ card' = [open EXCEPT !.billed = Max({0, balance}), !.unbilled = Min({0, balance}),
                                  !.override = None]
          /\ due' = IF free # {} /\ manual[Min(free)].date <= cycleDue
                    THEN manual[Min(free)].date ELSE cycleDue
          /\ statements' = Append(statements, Statement(day, due'))
          /\ nextClose' = day + Month
          /\ UNCHANGED <<overdue, manual>>
  /\ UNCHANGED <<day, cash, terms, accrued, spend, events, outside>>

PayDue ==
  /\ phase = "pay"
  /\ IF due = day THEN Pay /\ UNCHANGED phase
     ELSE phase' = "interest" /\ UNCHANGED <<cash, outside, manual, card, due, overdue, statements>>
  /\ UNCHANGED <<day, terms, nextClose, deferred, accrued, spend, events>>

\* Credited in whole cents on the last day of a month.
Interest ==
  LET total == accrued + IF cash.checking > 0 THEN Yield ELSE 0
      credited == day % Month = Month - 1
      cents == IF credited THEN total \div Scale ELSE 0
  IN
  /\ phase = "interest" /\ day < Horizon
  /\ phase' = "events" /\ day' = day + 1
  /\ accrued' = IF credited THEN 0 ELSE total
  /\ cash' = [cash EXCEPT !.checking = @ + cents]
  /\ outside' = outside - cents
  /\ UNCHANGED <<debt, terms, spend, events>>

Next == Post \/ DailySpend \/ CatchUp \/ PayDeferred \/ Close \/ PayDue \/ Interest

Spec == Init /\ [][Next]_vars

-----------------------------------------------------------------------------
CardBalance ==
  card.billed + card.unbilled - card.credits
    + FoldSeq(LAMBDA s, sum : sum + s.card.billed - s.card.credits, 0, deferred)

\* Days whose payments are done.
Over(d) == d < day \/ (d = day /\ phase = "interest")

\* The engine loses sight of two: a statement due on the day the next one
\* closes is merged into it, and a payment by hand that no statement waits for
\* at the start is looked at only when the next one closes, perhaps too late.
Followed(s) == s.close < s.due /\ (\A j \in DOMAIN statements : statements[j].close # s.due)

\* A payment, however it meets a close, an overdue statement, a refund or a
\* payment made by hand, only moves money: the cash less the debt of the card
\* changes by what was earned and spent alone, and starts at the balances of
\* the accounts.  Every statement is paid on its due date, and every payment
\* made by hand is counted.
ForecastIsExact ==
  /\ CashTotal - CardBalance = -terms.start - outside
  /\ \A s \in ToSet(statements) : Followed(s) /\ Over(s.due) => s.paid = s.due
  /\ ~terms.idle => \A i \in DOMAIN manual : ~Over(manual[i].date)
=============================================================================
