--------------------------- MODULE ForecastInputs ---------------------------
(***************************************************************************)
(* What a cash forecast is computed from: the bills' occurrences, their    *)
(* forecast events and the payments the bank has shown so far              *)
(* (forecast-accounts.repository.ts for "v2", forecast.repository.ts for   *)
(* "v1", bill-occurrence-forecast.ts, forecast.service.ts).  The reads are *)
(* separate statements, and the commands of bills.service.ts, the matching *)
(* job and the bank come between them; an answer is kept under the         *)
(* revision and the date it was asked at.                                  *)
(*                                                                         *)
(* One bill with one occurrence, one event and one payment: the forecast   *)
(* looks at each on its own.  BillPayments and BillCalendar have the       *)
(* commands in full; a paused bill is not resumed here.                    *)
(***************************************************************************)
EXTENDS Integers, FiniteSets

CONSTANTS
  Bill,       \* bills [card, visible, named, due]: it pays a card, its account is part
              \* of the forecast, its merchant's name is known
  Expected,   \* the amount of an occurrence
  Amount,     \* amounts a user records
  Horizon,    \* days of a forecast
  LastDay, MaxChanges   \* bounds: days, commands and bank events

VARIABLES
  today,
  revision,   \* of the user: commits so far
  bill,       \* what does not change
  setup,      \* status of the bill: "active", "paused", "ended"
  occ, event, payment,
  ask,        \* the forecast being computed, with what it has read
  answer      \* the one that is served

vars == <<today, revision, bill, setup, occ, event, payment, ask, answer>>

NoDate == -1
Idle == [at |-> "idle"]
NoAnswer == [kind |-> "none"]

\* link: the payment matched to the occurrence, "pending" or "posted".
Open(b) == [status |-> "open", due |-> b.due, amount |-> Expected, paid |-> 0,
            visible |-> b.visible, link |-> "none"]

Init ==
  /\ today = 0 /\ revision = 0
  /\ bill \in Bill
  /\ setup = "active"
  /\ occ = Open(bill)
  /\ event = [deleted |-> FALSE, resolved |-> FALSE, date |-> bill.due, amount |-> Expected]
  /\ payment = [status |-> "none", date |-> NoDate]
  /\ ask = Idle /\ answer = NoAnswer

-----------------------------------------------------------------------------
(* bill-occurrence-forecast.ts.                                            *)

\* A payment recorded by hand that no balance shows yet.
IsUnlinkedManualPayment(o) == o.status \in {"processing", "paid"} /\ o.link = "none"

\* Mutant: a pending payment does not count as one.
SuppressUnlessPosted(o) == o.status \in {"skipped", "cancelled"} \/ o.link = "posted"
SuppressBillForecast(o) == o.status \in {"skipped", "cancelled"} \/ o.link # "none"

ManualPaymentDate(o, day) == IF o.due < day THEN day ELSE o.due
ManualPaymentAmount(o) == o.paid

Line(source, date, amount) == [source |-> source, date |-> date, amount |-> amount]
InRange(date, day) == date >= day /\ date < day + Horizon

-----------------------------------------------------------------------------
(* What each version makes of what it read: a set of lines.      *)

RawEvent(e, o, day) ==
  /\ ~e.deleted /\ ~e.resolved /\ e.date <= day + Horizon
  /\ e.date >= day \/ IsUnlinkedManualPayment(o)

EventLine(e, o, day) ==
  IF SuppressBillForecast(o) THEN {}
  ELSE IF IsUnlinkedManualPayment(o)
       THEN {Line("event", ManualPaymentDate(o, day), ManualPaymentAmount(o))}
       ELSE {Line("event", e.date, e.amount)}

InForecast(o) == IF IsUnlinkedManualPayment(o) THEN o.visible ELSE bill.visible

\* v2.  A card's occurrence is never an event: its hand-recorded payments go to
\* the card.  Those of other bills are added when no event stands for them.
CardPaymentLines(read) ==
  LET o == read.occ IN
  IF bill.card /\ read.setup # "ended" /\ IsUnlinkedManualPayment(o)
  THEN {Line("card", ManualPaymentDate(o, read.day), ManualPaymentAmount(o))} ELSE {}

BillEventLines(read) ==
  LET o == read.occ IN
  IF RawEvent(read.event, o, read.day) /\ InForecast(o) /\ ~(bill.card /\ read.setup # "ended")
  THEN EventLine(read.event, o, read.day) ELSE {}

UnrepresentedLines(read) ==
  LET o == read.occ IN
  IF /\ IsUnlinkedManualPayment(o) /\ ~RawEvent(read.event, o, read.day)
     /\ read.setup # "ended" /\ ~bill.card /\ InForecast(o)
  THEN {Line("manual", ManualPaymentDate(o, read.day), ManualPaymentAmount(o))} ELSE {}

\* A pending payment, unless its merchant is a bill's or it pays a card.
PendingLines(read) ==
  LET p == read.payment IN
  IF /\ p.status = "pending" /\ InRange(p.date, read.day) /\ bill.visible
     /\ ~(bill.named /\ read.setup # "ended") /\ ~bill.card
  THEN {Line("pending", p.date, Expected)} ELSE {}

GetAccountForecastInputs(read) ==
  CardPaymentLines(read) \cup BillEventLines(read) \cup UnrepresentedLines(read) \cup PendingLines(read)

\* v1.  Events joined with their occurrences, and pending payments.
GetForecastInputs(read) ==
  LET p == read.payment IN
  (IF RawEvent(read.event, read.occ, read.day) THEN EventLine(read.event, read.occ, read.day) ELSE {})
  \cup (IF p.status = "pending" /\ InRange(p.date, read.day) THEN {Line("pending", p.date, Expected)} ELSE {})

-----------------------------------------------------------------------------
(* getForecast: the revision, then the reads one after another.            *)

Asked == UNCHANGED <<today, revision, bill, setup, occ, event, payment>>

StartForecast(kind) ==
  /\ ask = Idle
  /\ ask' = [at |-> IF kind = "v2" THEN "bills" ELSE "joined", kind |-> kind, rev |-> revision, day |-> today]
  /\ Asked /\ UNCHANGED answer

ReadBills ==
  /\ ask.at = "bills"
  /\ ask' = [at |-> "payments", kind |-> "v2", rev |-> ask.rev, day |-> ask.day, setup |-> setup]
  /\ Asked /\ UNCHANGED answer

ReadTransactions ==
  /\ ask.at = "payments"
  /\ ask' = [at |-> "occurrences", kind |-> "v2", rev |-> ask.rev, day |-> ask.day,
             setup |-> ask.setup, payment |-> payment]
  /\ Asked /\ UNCHANGED answer

ReadOccurrences ==
  /\ ask.at = "occurrences"
  /\ ask' = [at |-> "events", kind |-> "v2", rev |-> ask.rev, day |-> ask.day,
             setup |-> ask.setup, payment |-> ask.payment, occ |-> occ]
  /\ Asked /\ UNCHANGED answer

\* An answer of another revision or date is never looked up.
Answered(lines) ==
  /\ answer' = IF ask.rev = revision /\ ask.day = today THEN [kind |-> ask.kind, lines |-> lines] ELSE answer
  /\ ask' = Idle
  /\ Asked

ReadEvents ==
  /\ ask.at = "events"
  /\ Answered(GetAccountForecastInputs([day |-> ask.day, setup |-> ask.setup, payment |-> ask.payment,
                                        occ |-> ask.occ, event |-> event]))

\* The queries of v1 run side by side: either may see the later state.
ReadJoined ==
  /\ ask.at = "joined"
  /\ ask' = [at |-> "pending", kind |-> "v1", rev |-> ask.rev, day |-> ask.day, occ |-> occ, event |-> event]
  /\ Asked /\ UNCHANGED answer

ReadPendingFirst ==
  /\ ask.at = "joined"
  /\ ask' = [at |-> "join", kind |-> "v1", rev |-> ask.rev, day |-> ask.day, payment |-> payment]
  /\ Asked /\ UNCHANGED answer

ReadPending ==
  /\ ask.at = "pending"
  /\ Answered(GetForecastInputs([day |-> ask.day, occ |-> ask.occ, event |-> ask.event, payment |-> payment]))

JoinEvents ==
  /\ ask.at = "join"
  /\ Answered(GetForecastInputs([day |-> ask.day, occ |-> occ, event |-> event, payment |-> ask.payment]))

-----------------------------------------------------------------------------
(* The commands, the job and the bank; each bumps the revision.            *)

Change ==
  /\ revision < MaxChanges /\ revision' = revision + 1
  /\ answer' = NoAnswer
  /\ UNCHANGED <<today, bill, ask>>

IsLive(e) == ~e.deleted /\ ~e.resolved

UpdateOccurrence(due, amount) ==
  /\ Change /\ occ.status = "open"
  /\ occ' = [occ EXCEPT !.due = due, !.amount = amount]
  /\ event' = IF IsLive(event) THEN [event EXCEPT !.date = due, !.amount = amount] ELSE event
  /\ UNCHANGED <<setup, payment>>

MarkOccurrencePaid(amount, visible) ==
  /\ Change /\ occ.status = "open"
  /\ occ' = [occ EXCEPT !.status = "processing", !.paid = amount, !.visible = visible]
  /\ UNCHANGED <<setup, event, payment>>

SkipOccurrence ==
  /\ Change /\ occ.status = "open"
  /\ occ' = [occ EXCEPT !.status = "skipped"]
  /\ UNCHANGED <<setup, event, payment>>

\* Pausing or ending a bill cancels what is still to come and every event.
StopBill(status) ==
  /\ Change /\ setup = "active"
  /\ setup' = status
  /\ occ' = [occ EXCEPT !.status = IF @ = "open" /\ occ.due >= today THEN "cancelled" ELSE @]
  /\ event' = [event EXCEPT !.deleted = TRUE]
  /\ UNCHANGED payment

HoldForPending ==
  /\ Change /\ occ.status = "open" /\ payment.status = "pending"
  /\ occ' = [occ EXCEPT !.status = "processing", !.link = "pending"]
  /\ UNCHANGED <<setup, event, payment>>

ConfirmPaid ==
  /\ Change /\ occ.status \in {"open", "processing"} /\ payment.status = "posted"
  /\ occ' = [occ EXCEPT !.status = "paid", !.link = "posted"]
  /\ event' = [event EXCEPT !.resolved = TRUE]
  /\ UNCHANGED <<setup, payment>>

\* Unmatched by the user, or the pending payment was dropped.
ReopenOccurrence ==
  /\ Change /\ occ.link # "none"
  /\ occ' = [occ EXCEPT !.status = "open", !.link = "none", !.paid = 0, !.visible = bill.visible]
  /\ event' = [event EXCEPT !.resolved = FALSE]
  /\ UNCHANGED <<setup, payment>>

Pays(status) ==
  /\ Change
  /\ \/ payment.status = "none" /\ status \in {"pending", "posted"}
     \/ payment.status = "pending" /\ status \in {"posted", "dropped"}
  /\ payment' = [status |-> status, date |-> IF payment.date = NoDate THEN today ELSE payment.date]
  /\ UNCHANGED <<setup, occ, event>>

Pass ==
  /\ today < LastDay /\ today' = today + 1
  /\ answer' = NoAnswer
  /\ UNCHANGED <<revision, bill, setup, occ, event, payment, ask>>

Next ==
  \/ \E kind \in {"v1", "v2"} : StartForecast(kind)
  \/ ReadBills \/ ReadTransactions \/ ReadOccurrences \/ ReadEvents
  \/ ReadJoined \/ ReadPendingFirst \/ ReadPending \/ JoinEvents
  \/ \E due \in 0..LastDay, amount \in Amount : UpdateOccurrence(due, amount)
  \/ \E amount \in Amount, visible \in BOOLEAN : MarkOccurrencePaid(amount, visible)
  \/ SkipOccurrence \/ HoldForPending \/ ConfirmPaid \/ ReopenOccurrence
  \/ \E status \in {"paused", "ended"} : StopBill(status)
  \/ \E status \in {"pending", "posted", "dropped"} : Pays(status)
  \/ Pass

Spec == Init /\ [][Next]_vars

-----------------------------------------------------------------------------
(* Properties.                                                             *)

\* What an occurrence still takes from the accounts: an open one on its date, a
\* payment recorded by hand, once, until the bank shows it.
Outstanding(kind) ==
  LET o == occ
      owed == IF o.status = "processing" THEN [date |-> ManualPaymentDate(o, today), amount |-> o.paid]
              ELSE [date |-> o.due, amount |-> o.amount]
      counted == CASE kind = "v1" -> setup = "active"
                   [] kind = "v2" /\ bill.card -> o.status = "processing" /\ setup # "ended"
                   [] OTHER -> InForecast(o) /\ setup # "ended" /\ (setup = "active" \/ o.status = "processing")
  IN  IF o.status \in {"open", "processing"} /\ o.link = "none" /\ counted /\ InRange(owed.date, today)
      THEN {owed} ELSE {}

Dated(lines) == {[date |-> l.date, amount |-> l.amount] : l \in {m \in lines : m.source # "pending" /\ InRange(m.date, today)}}

\* A forecast that is served, because it was computed under the current
\* revision and date, has an outstanding occurrence once, on its date and with its
\* amount, and nothing of any other, whatever happened between its reads; and
\* a payment already pending is not counted beside its bill: in v2 when the
\* merchant is known, in v1 once it was matched.
ForecastCountsOnce ==
  answer # NoAnswer =>
    LET lines == {l \in answer.lines : InRange(l.date, today)} IN
      /\ Dated(lines) = Outstanding(answer.kind)
      /\ Cardinality({l \in lines : l.source # "pending"}) <= 1
      /\ \/ answer.kind = "v2" /\ bill.named /\ setup # "ended"
         \/ answer.kind = "v1" /\ occ.link # "none"
         => Cardinality(lines) <= 1
=============================================================================
