------------------------------ MODULE MCDomain ------------------------------
(***************************************************************************)
(* The rules of the ledger, of bills, budgets, forecasts and backups, of   *)
(* notifications, of the worker's sweeps and of migrations.  They share no *)
(* state, so one run checks them side by side: see MCCells.                *)
(***************************************************************************)
EXTENDS MCCells, BillMatching, ManualLedger

\* Money in either direction, so that cards refuse some of it.
MCAmount == {-1, 2}

Calendar == INSTANCE BillCalendar WITH
  LastDate <- 6, MonthLen <- 3, Step <- 2, Horizon <- 4, MaxRows <- 5,
  MaxCommands <- 2, setup <- c1, rows <- c2, today <- c3, doomed <- c4,
  commands <- c5

\* Four histories: one bill that grows, two of the same merchant, a pay check
\* twice a month, and payments to a card that land on it.
Payment(k, a, d, s) == [key |-> k, amount |-> a, date |-> d, sort |-> s]
MCPayments == <<
  Payment(1, 20, 0, "purchase"), Payment(1, 20, 2, "purchase"),
  Payment(1, 20, 4, "purchase"), Payment(1, 30, 6, "purchase"),
  Payment(1, 20, 0, "purchase"), Payment(1, 20, 0, "purchase"),
  Payment(1, 20, 2, "purchase"), Payment(1, 20, 2, "purchase"),
  Payment(1, 20, 4, "purchase"), Payment(1, 20, 4, "purchase"),
  Payment(1, -20, 2, "paycheck"), Payment(1, -20, 7, "paycheck"),
  Payment(1, -20, 11, "paycheck"), Payment(1, -20, 15, "paycheck"),
  Payment(1, 30, 1, "card"), Payment(1, 40, 9, "card"),
  Payment(2, -40, 10, "landing"), Payment(1, 50, 10, "card")>>
MCHistories == {1..4, 5..10, 11..14, 15..18}
MCGaps == [weekly |-> <<2, 2>>, biweekly |-> <<4, 5>>, monthly |-> <<8, 8>>]
MCStep == [daily |-> 1, weekly |-> 2, biweekly |-> 4, monthly |-> 8]

Detection == INSTANCE BillDetection WITH
  Payments <- MCPayments, Histories <- MCHistories, Gaps <- MCGaps, Step <- MCStep,
  MonthLen <- 8, PayDays <- <<3, 7>>, Window <- 12, Late <- 0,
  Corrections <- {"daily"}, Statuses <- {"active", "ended"},
  ManualCadences <- {"weekly"}, ManualAmounts <- {20, -20}, Run <- {1, 2},
  MaxRuns <- 2, MaxEdits <- 2, history <- c1, posted <- c2, today <- c3,
  bills <- c4, runs <- c5, started <- c6, edits <- c7

Reminders == INSTANCE BillReminders WITH
  Bills <- {1, 2}, Due <- <<0, 1>>, Ahead <- 1, DayLen <- 4, Nine <- 1,
  StaleAfter <- 1, Windows <- {<<0, 0>>, <<1, 0>>}, LastTime <- 5, MaxRuns <- 2,
  MaxEvents <- 2, now <- c1, prefs <- c2, device <- c3, paid <- c4, rows <- c5,
  run <- c6, heard <- c7, repeats <- c8, crossed <- c9, events <- c10

\* Two accounts with little history, and one account with more of it.
Linking == INSTANCE AccountLinking WITH
  Real <- {1, 2}, Masked <- {1}, N <- <<1, 0>>, MaxItems <- 2, MaxEvents <- 3,
  item <- c1, row <- c2, txns <- c3, link <- c4, unlinking <- c5, parted <- c6,
  late <- c7, doubled <- c8, events <- c9

History == INSTANCE AccountLinking WITH
  Real <- {1}, Masked <- {1}, N <- <<2>>, MaxItems <- 2, MaxEvents <- 4,
  item <- c1, row <- c2, txns <- c3, link <- c4, unlinking <- c5, parted <- c6,
  late <- c7, doubled <- c8, events <- c9

MCShared == <<[own |-> FALSE, parent |-> 0, name |-> "g", archived |-> FALSE],
              [own |-> FALSE, parent |-> 1, name |-> "c", archived |-> FALSE]>>

References == INSTANCE Categories WITH
  Shared <- MCShared, Txn <- {1}, Name <- {"g", "c"}, Client <- {1, 2},
  MaxOwn <- 2, MaxRequests <- 3, cat <- c1, override <- c2, txn <- c3, rule <- c4,
  plan <- c5, req <- c6, started <- c7, chosen <- c8, stale <- c9, planned <- c10

Sweeps == INSTANCE WorkerSweeps WITH
  Worker <- {1, 2}, Period <- 2, Delay <- 1, Lease <- 1, DayLen <- 2, Hour <- 1,
  LastDay <- 1, MaxTries <- 1, MaxEvents <- 1, row <- c1, last <- c2, now <- c3,
  proc <- c4, announced <- c5, accepted <- c6, dispatched <- c7, events <- c8

\* What the proofs about WorkerSweeps take for granted.
ASSUME MCSweepsAssumption == Sweeps!SweepsAssumption

\* Cards with and without a statement, paid in part, with credit or unbilled
\* debt, of every rule, with due dates behind and ahead.
MCManual == {<<>>, <<[date |-> 0, amount |-> 4, from |-> "unassigned"]>>,
             <<[date |-> 2, amount |-> 1, from |-> "checking"],
               [date |-> 5, amount |-> 3, from |-> "checking"]>>}
MCCards ==
  {c \in [statement : {0, 3}, paid : {0, 1}, credits : {0, 4}, current : {-1, 5}, override : {-100, 1},
          rule : {"full", "planned", "interest_saving"}, planned : {2}, minimum : {1}, last : {2},
          from : {"checking"}, external : BOOLEAN, due : {-100, -1, 2, 3}, closed : {-100, -2, -1},
          manual : MCManual] :
     /\ c.due = -100 /\ c.closed = -100 => c.credits = 0
     /\ c.rule # "interest_saving" => c.override = -100}

Forecast == INSTANCE CashForecast WITH
  Month <- 4, DefaultOffset <- 3, MaxOffset <- 8, Horizon <- 9, Card <- MCCards,
  Amount <- {-3, 2}, Spend <- {[card |-> 1, checking |-> 0]}, Scale <- 2,
  Yield <- 1, MaxEvents <- 1, day <- c1, phase <- c2, cash <- c3, card <- c4,
  terms <- c5, due <- c6, overdue <- c7, nextClose <- c8, deferred <- c9,
  manual <- c10, statements <- c11, accrued <- c12, spend <- c13, events <- c14,
  outside <- c15

Inputs == INSTANCE ForecastInputs WITH
  Bill <- [card : BOOLEAN, visible : BOOLEAN, named : BOOLEAN, due : {0, 1}],
  Expected <- 2, Amount <- {1}, Horizon <- 2, LastDay <- 1, MaxChanges <- 3,
  today <- c1, revision <- c2, bill <- c3, setup <- c4, occ <- c5, event <- c6,
  payment <- c7, ask <- c8, answer <- c9

\* Backups made elsewhere: categories that are each other's parent, and a rule
\* whose account is missing.
MCForeign == {[accounts |-> {1}, categories |-> <<2, 1>>, rules |-> {}, txns |-> <<>>],
              [accounts |-> {}, categories |-> <<>>, rules |-> {[account |-> 1, category |-> -1]}, txns |-> <<>>]}

Backups == INSTANCE UserData WITH
  Account <- {1, 2}, Category <- {1, 2}, Txn <- {1, 2, 3}, Initially <- {{1, 3}},
  Item <- {1, 2}, PageSize <- 2, Foreign <- MCForeign, MaxRequests <- 3,
  MaxEdits <- 1, MaxFaults <- 1, db <- c1, items <- c2, live <- c3, stream <- c4,
  backup <- c5, restore <- c6, requests <- c7, edits <- c8, faults <- c9,
  start <- c10, quiet <- c11, leaked <- c12

\* A category with a child and payments of both, or two roots and a pay check.
Spent(d, c, k, a) == [date |-> d, category |-> c, kind |-> k, account |-> a, there |-> TRUE]
MCBooks == {[txn |-> <<Spent(2, 1, "plain", 1), Spent(2, 2, "hidden", 1)>>,
             category |-> <<[parent |-> 0, spends |-> TRUE], [parent |-> 1, spends |-> TRUE]>>, removed |-> {}],
            [txn |-> <<Spent(2, 2, "plain", 1), Spent(1, 0, "paycheck", 2)>>,
             category |-> <<[parent |-> 0, spends |-> TRUE], [parent |-> 0, spends |-> TRUE]>>, removed |-> {}]}
MCQueries == {[month |-> 2, cats |-> {1}]}

Spending == INSTANCE Budgets WITH
  Category <- {1, 2}, Txn <- {1, 2}, Date <- {1, 2}, Days <- <<{1}, {2}>>,
  Today <- 2, Books <- MCBooks, Queries <- MCQueries, PageSize <- 1,
  Client <- {1, 2}, MaxWrites <- 2, MaxReads <- 2, book <- c1, budgets <- c2,
  items <- c3, request <- c4, revision <- c5, writes <- c6, reads <- c7,
  usage <- c8, cached <- c9, list <- c10, shaken <- c11

\* An empty database, and databases of the old tools: complete, without the raw
\* files, stopped between two of them, and with the first migration only.
MCRaw == <<{101, 102, 103}, {101, 102, 103, 104}>>
OldDb(journal, effect, categories) ==
  [effect |-> effect, tracker |-> [f \in 1..4 |-> 0], rawTracker |-> {}, created |-> FALSE,
   journal |-> journal, categories |-> categories]
MCDbs == {OldDb({}, {}, {}), OldDb({1, 2}, {1, 2, 101, 102, 103}, {<<1, 1>>}), OldDb({1, 2}, {1, 2}, {}),
          OldDb({1, 2}, {1, 2, 101}, {}), OldDb({1}, {1}, {})}

Migrations == INSTANCE SchemaMigrations WITH
  Generated <- <<1..3, 1..4>>, Raw <- MCRaw, Journalled <- {1, 2},
  Baseline <- {101, 102, 103}, Provides <- [g \in {2} |-> {102}],
  Repeatable <- {3, 101, 102, 103, 104},
  Defaults <- <<{<<1, 1>>}, {<<1, 1>>, <<1, 2>>}>>, Databases <- MCDbs,
  Runner <- {1, 2}, MaxRuns <- 4, db <- c1, run <- c2, runs <- c3, first <- c4,
  ran <- c5

-----------------------------------------------------------------------------
\* The pure part: two words, which payments qualify for two occurrences and at
\* what distance, whether the occurrences are slots of one series, and the
\* payments an account is inferred from.  One of them at a time.
Letters == {1, 2}
Words == UNION {[1..n -> Letters] : n \in 0..3}
Slots == {<<>>, [o \in {1, 2} |-> [group |-> "split", slot |-> 3 - o]]}
Distances == [{1, 2} \X {1, 2, 3} -> {0, 1, 2}]   \* 2: does not qualify
Outflow(from, date) ==
  [account |-> from, amount |-> 100, date |-> date, depository |-> from # "card", series |-> "none",
   transfer |-> FALSE, merchant |-> "m"]
Seen == {Outflow("a", 0), Outflow("b", 1), Outflow("card", 0), [Outflow("a", 9) EXCEPT !.series = "bill"],
         [Outflow("card", 3) EXCEPT !.amount = -100], [Outflow("b", 3) EXCEPT !.merchant = "n"]}
MatchingInput ==
  \/ c1 \in Words /\ c2 \in Words /\ c3 = <<>> /\ c4 = <<>>
  \/ c1 = <<>> /\ c2 \in Slots /\ c3 \in Distances /\ c4 = <<>>
  \/ c1 = <<>> /\ c2 = <<>> /\ c3 = <<>> /\ c4 \in UNION {[1..n -> Seen] : n \in 1..3}

\* The distance of the graph of single edits: a path's next word is one nearer.
Edited(w) ==
  {[w EXCEPT ![i] = x] : i \in DOMAIN w, x \in Letters} \cup {RemoveAt(w, i) : i \in DOMAIN w}
    \cup {InsertAt(w, i, x) : i \in 1..(Len(w) + 1), x \in Letters}
LevenshteinIsExact ==
  LET d(w) == Levenshtein(w, c2)
  IN /\ (d(c1) = 0) = (c1 = c2)
     /\ \A w \in Edited(c1) : d(w) - d(c1) \in {-1, 0, 1}
     /\ c1 # c2 => \E w \in Edited(c1) : d(w) = d(c1) - 1

\* Nobody is paid twice, and a payment goes to nobody it is not nearest to;
\* without slots the pairs are those that are each other's only nearest, as
\* BillPayments has it.
PairsAreMutual ==
  LET cands == {[occ |-> o, txn |-> t, distance |-> c3[<<o, t>>]] :
                  <<o, t>> \in {p \in DOMAIN c3 : c3[p] # 2}}
      pairs == PairClosest(cands, c2)
      of(p) == CHOOSE c \in cands : c.occ = p[1] /\ c.txn = p[2]
      Rivals(c) == {d \in cands \ {c} : d.occ = c.occ \/ d.txn = c.txn}
  IN /\ \A p \in pairs : \E c \in cands : c.occ = p[1] /\ c.txn = p[2]
     /\ \A p, q \in pairs : p # q => p[1] # q[1] /\ p[2] # q[2]
     /\ c2 = <<>> =>
          pairs = {<<c.occ, c.txn>> : c \in {x \in cands : \A d \in Rivals(x) : x.distance < d.distance}}

\* An account is inferred only when it has paid the bill, and more of the same
\* payments never change that.
InferredHasPaid ==
  \A transfer \in BOOLEAN :
    LET bill == [id |-> "bill", transfer |-> transfer, toAccount |-> "card", isIncome |-> FALSE, names |-> {"m"}]
        Inferred(payments) == InferBillAccount(bill, payments, {"card"})
        a == Inferred(c4)
    IN a # "none" =>
         \E i \in DOMAIN c4 : /\ c4[i].account = a /\ c4[i].amount > 0
                              /\ transfer \/ Inferred(Append(c4, c4[i])) = a

\* What decides over the pairing of payments with bills holds of every input
\* (BillMatching).
MatchingIsExact ==
  part = "matching" =>
    CASE c4 # <<>> -> InferredHasPaid
      [] c3 # <<>> -> PairsAreMutual
      [] OTHER -> LevenshteinIsExact

-----------------------------------------------------------------------------
\* Of the part that was chosen, and of nothing else.  The variables of
\* ManualLedger are its own.
DomainInit ==
  /\ Init
  /\ \/ part = "ledger" /\ c1 = 0 /\ Free2
     \/ part = "calendar" /\ Calendar!Init /\ Free6
     \/ part = "detection" /\ Detection!Init /\ Free8
     \/ part = "reminders" /\ Reminders!Init /\ Free11
     \/ part = "linking" /\ Linking!Init /\ Free10
     \/ part = "history" /\ History!Init /\ Free10
     \/ part = "categories" /\ References!Init /\ Free11
     \/ part = "sweeps" /\ Sweeps!Init /\ Free9
     \/ part = "forecast" /\ Forecast!Init /\ Free16
     \/ part = "inputs" /\ Inputs!Init /\ Free10
     \/ part = "backup" /\ Backups!Init /\ Free13
     \/ part = "budgets" /\ Spending!Init /\ Free12
     \/ part = "migrations" /\ Migrations!Init /\ Free6
     \/ part = "matching" /\ MatchingInput /\ Free5

OtherNext ==
  \/ part = "calendar" /\ Calendar!Next /\ Kept6
  \/ part = "detection" /\ Detection!Next /\ Kept8
  \/ part = "reminders" /\ Reminders!Next /\ Kept11
  \/ part = "linking" /\ Linking!Next /\ Kept10
  \/ part = "history" /\ History!Next /\ Kept10
  \/ part = "categories" /\ References!Next /\ Kept11
  \/ part = "sweeps" /\ Sweeps!Next /\ Kept9
  \/ part = "forecast" /\ Forecast!Next /\ Kept16
  \/ part = "inputs" /\ Inputs!Next /\ Kept10
  \/ part = "backup" /\ Backups!Next /\ Kept13
  \/ part = "budgets" /\ Spending!Next /\ Kept12
  \/ part = "migrations" /\ Migrations!Next /\ Kept6

DomainNext ==
  \/ part = "ledger" /\ Next /\ UNCHANGED cells
  \/ OtherNext /\ UNCHANGED vars

DomainSpec == DomainInit /\ [][DomainNext]_<<cells, vars>>

-----------------------------------------------------------------------------
\* The calendar of a bill: no two occurrences under one date or key, end dates
\* that can be taken back, and dates the user, a payment or an earlier cycle
\* holds left alone, whatever the order of commands (BillCalendar).
CalendarIsKept ==
  /\ [](part = "calendar" => Calendar!ScheduleIsConsistent)
  /\ [][part = "calendar" => Calendar!HeldDatesStayFree]_cells

\* Detection counts a payment once, brings active bills up to date, has nothing
\* left to do when it runs again, and leaves the user's decisions alone, also
\* those made while it ran (BillDetection).
DetectionIsSound ==
  /\ [](part = "detection" => Detection!DetectionSettles)
  /\ [][part = "detection" => Detection!UserDecides]_cells

\* Removing, disconnecting and linking again keep rows and history once, bring
\* removed accounts back only from another connection, and lose no transaction
\* the new connection delivered (AccountLinking).
RelinkKeepsAccounts ==
  /\ [](/\ part = "linking" => Linking!HistoryIsTakenOver
        /\ part = "history" => History!HistoryIsTakenOver)
  /\ [][/\ part = "linking" => Linking!RemovedStaysRemoved /\ Linking!DeliveredIsKept
        /\ part = "history" => History!RemovedStaysRemoved /\ History!DeliveredIsKept]_cells

\* However jobs overlap, fail or come late, one reminder a day, none in quiet
\* hours, and none about a paid bill that the run could have seen (BillReminders).
OneReminderPerDay == part = "reminders" => Reminders!OneReminderPerDay

\* What referred to a category refers to its copy or its heir afterwards
\* (Categories).
ReferencesFollow == part = "categories" => References!ReferencesFollow

\* Two workers dispatch a schedule once a day, and neither sleeps over work it
\* was called about (WorkerSweeps).
SweepsAreExact == part = "sweeps" => Sweeps!SweepsAreExact

\* The forecast neither makes nor loses money, and pays each statement once
\* (CashForecast).
ForecastIsExact == part = "forecast" => Forecast!ForecastIsExact

\* An answer that can be served counts a bill once: as posted, pending or
\* forecast (ForecastInputs).
ForecastCountsOnce == part = "inputs" => Inputs!ForecastCountsOnce

\* A backup is whole or is refused, a restore replaces everything or nothing,
\* and connections are closed before their rows go (UserData).
BackupIsSound == part = "backup" => Backups!BackupIsSound

\* One active budget, its usage adds up to what was spent, and a list read page
\* by page shows what stayed in it once (Budgets).
BudgetAddsUp == part = "budgets" => Spending!BudgetAddsUp

\* However runs overlap and crash, what is recorded is in effect, and a run that
\* ends well leaves its release's schema (SchemaMigrations).
MigrationsAreExact == part = "migrations" => Migrations!MigrationsAreExact
=============================================================================
