------------------------------ MODULE Budgets ------------------------------
(***************************************************************************)
(* Budgets, what counts as spent, and the list a budget row opens          *)
(* (budgets.service.ts, budgets.repository.ts, budget-calculations.ts,     *)
(* budget-spend.ts, and the paged list of transactions.repository.ts).     *)
(* Usage is computed by several statements with no transaction around them *)
(* and kept under the revision read before the first; the list is read     *)
(* page by page; meanwhile the user and the worker go on writing, each in  *)
(* a transaction that ends by bumping the revision.                        *)
(*                                                                         *)
(* An amount is represented by the rows it is the sum of, so that two sums *)
(* are equal only when they are sums of the same rows.  Archiving a        *)
(* category is in Categories.                                              *)
(***************************************************************************)
EXTENDS Integers, Sequences, FiniteSets

CONSTANTS
  Category,    \* categories of the user
  Txn,         \* ids of transactions, numbers: the second key of the list's order
  Date, Days,  \* dates, and those of each month: Days[m]
  Today,       \* the month it is
  Books,       \* what the ledger and the categories may be at the start
  Queries,     \* what is asked: a month, and categories or none
  PageSize,    \* transactions per page
  Client,      \* requests that change budgets and may overlap
  MaxWrites,   \* bound: those requests, and edits of the ledger or of the categories
  MaxReads     \* bound: answers computed, and lists read

VARIABLES
  book,        \* transactions, categories, and accounts that were removed
  budgets,     \* budgets in the order they were made: month of the start, and whether active
  items,       \* budget_items of the user
  request,     \* the open transaction of each client
  revision, writes, reads,
  usage,       \* the computation of a usage answer
  cached,      \* the last answer stored, and the revision it is stored under
  list,        \* the paged list being read
  shaken       \* history: transactions that moved in, out or within the list since it began

planVars == <<budgets, items, request>>
vars == <<book, budgets, items, request, revision, writes, reads, usage, cached, list, shaken>>

None == 0  \* no category; categories are numbers above it
Kinds == {"plain", "hidden", "excluded", "paycheck"}
Idle == [op |-> "idle"]
NoUsage == [at |-> "idle"]
NoList == [at |-> "idle"]
Nothing == [rev |-> -1]

Init ==
  /\ book \in Books
  /\ budgets = <<>> /\ items = {}
  /\ request = [c \in Client |-> Idle]
  /\ revision = 0 /\ writes = 0 /\ reads = 0
  /\ usage = NoUsage /\ cached = Nothing
  /\ list = NoList /\ shaken = {}

-----------------------------------------------------------------------------
(* What counts.                                                            *)

\* budgetSpendConditions
Counts(b, x) ==
  /\ x.kind # "excluded"
  /\ IF x.category = None THEN x.kind # "paycheck" ELSE b.category[x.category].spends

\* One level of subcategories comes with a category that is asked for.
InCategories(b, x, cats) ==
  \/ cats = {}
  \/ x.category \in cats
  \/ x.category # None /\ b.category[x.category].parent \in cats

\* conditionsFor, with the budget filter: the rows of the list, hidden ones too.
Listed(b, q) ==
  {t \in Txn : LET x == b.txn[t] IN
     /\ x.there /\ x.account \notin b.removed
     /\ x.date \in Days[q.month]
     /\ InCategories(b, x, q.cats)
     /\ Counts(b, x)}

\* Mutant: a sum that leaves hidden transactions out, as the ordinary list does.
UsageSpendShown(b, q) ==
  LET rows == {t \in Listed(b, q) : b.txn[t].kind # "hidden"}
  IN [c \in {b.txn[t].category : t \in rows} |-> {t \in rows : b.txn[t].category = c}]

\* getUsageSpend
UsageSpend(b, q) ==
  LET rows == {t \in Txn : LET x == b.txn[t] IN
                 /\ x.there /\ x.account \notin b.removed
                 /\ x.date \in Days[q.month]
                 /\ InCategories(b, x, q.cats)
                 /\ Counts(b, x)}
  IN [c \in {b.txn[t].category : t \in rows} |-> {t \in rows : b.txn[t].category = c}]

\* getSpentByCategory: of every account, and with fewer conditions.
SpentByCategory(b, month) ==
  LET rows == {t \in Txn : LET x == b.txn[t] IN
                 x.there /\ x.date \in Days[month] /\ x.kind # "excluded" /\ x.category # None}
  IN [c \in {b.txn[t].category : t \in rows} |-> {t \in rows : b.txn[t].category = c}]

Active == {i \in DOMAIN budgets : budgets[i].active}
ActiveBudget == IF Active = {} THEN None ELSE CHOOSE i \in Active : TRUE
Items(i) == {x \in items : x.budget = i}

\* budgetUsageEntries: one entry per category with a plan or with spending.
UsageEntries(plan, spent, parents) ==
  {[category |-> c,
    parent   |-> parents[c],
    planned  |-> {x.made : x \in {y \in plan : y.category = c}},
    spent    |-> IF c \in DOMAIN spent THEN spent[c] ELSE {}] :
   c \in {x.category : x \in plan} \cup (DOMAIN spent \ {None})}

\* budgetProgress: one entry per item.
Progress(plan, spent) ==
  {[category |-> x.category, planned |-> {x.made},
    spent |-> IF x.category \in DOMAIN spent THEN spent[x.category] ELSE {}] : x \in plan}

Uncategorized(spent) == IF None \in DOMAIN spent THEN spent[None] ELSE {}

-----------------------------------------------------------------------------
(* Writes of the ledger; each ends by bumping the revision (withUserMutation, *)
(* and the synchronization's transactions).                                *)

\* The history of the list being read.
Shake(b) ==
  shaken' = IF list.at = "idle" THEN {}
            ELSE shaken \cup {t \in Txn :
                   \/ (t \in Listed(book, list.query)) # (t \in Listed(b, list.query))
                   \/ book.txn[t].date # b.txn[t].date}

Write(b) ==
  /\ writes < MaxWrites /\ writes' = writes + 1
  /\ b # book /\ book' = b
  /\ revision' = revision + 1
  /\ Shake(b)
  /\ UNCHANGED <<planVars, reads, usage, cached, list>>

There == {t \in Txn : book.txn[t].there}

\* bulkPatchTransactions: one category, or one review status, for all the ids.
BulkPatch ==
  \E ts \in SUBSET There \ {{}} :
    \/ \E c \in Category \cup {None} :
         Write([book EXCEPT !.txn = [t \in Txn |-> IF t \in ts THEN [book.txn[t] EXCEPT !.category = c] ELSE book.txn[t]]])
    \/ \E k \in {"plain", "hidden", "excluded"} :
         Write([book EXCEPT !.txn = [t \in Txn |-> IF t \in ts THEN [book.txn[t] EXCEPT !.kind = k] ELSE book.txn[t]]])

\* patchTransaction of a manual one, or the posted version of a pending one.
Redate == \E t \in There, d \in Date : Write([book EXCEPT !.txn[t].date = d])

\* deleteManualTransaction, or a removal that a synchronization reports.
Delete == \E t \in There : Write([book EXCEPT !.txn[t].there = FALSE])

\* An account is removed, or linked again.
ToggleAccount ==
  \E a \in {book.txn[t].account : t \in Txn} :
    Write([book EXCEPT !.removed = IF a \in @ THEN @ \ {a} ELSE @ \cup {a}])

EditCategory ==
  \E c \in Category :
    \/ Write([book EXCEPT !.category[c].spends = ~@])
    \/ \E p \in Category \ {c} : Write([book EXCEPT !.category[c].parent = IF @ = None THEN p ELSE None])

-----------------------------------------------------------------------------
(* Requests that change budgets.  A transaction sees what was committed when *)
(* its statements began; what it writes is seen when it commits.           *)

Begin(c, r) ==
  /\ request[c] = Idle
  /\ writes < MaxWrites /\ writes' = writes + 1
  /\ request' = [request EXCEPT ![c] = r]
  /\ UNCHANGED <<book, budgets, items, revision, reads, usage, cached, list, shaken>>

End(c) == request' = [request EXCEPT ![c] = Idle]
\* The rest of a transaction that commits.
Bump == revision' = revision + 1 /\ UNCHANGED <<book, writes, reads, usage, cached, list, shaken>>

\* createBudget: the update finds the active budgets it will make inactive.
BeginCreate(c) ==
  \E cats \in SUBSET Category : Begin(c, [op |-> "create", seen |-> Active, cats |-> cats])

\* replaceBudgetItems, of the budget the caller believes active.
BeginReplace(c) ==
  \E i \in DOMAIN budgets, cats \in SUBSET Category :
    /\ i = ActiveBudget
    /\ Begin(c, [op |-> "replace", budget |-> i, seen |-> Items(i), cats |-> cats])

\* upsertBudgetItem: with no active budget it makes one.
BeginUpsert(c) ==
  \E k \in Category :
    IF Active = {}
      THEN Begin(c, [op |-> "create", seen |-> {}, cats |-> {k}])
      ELSE Begin(c, [op |-> "replace", budget |-> ActiveBudget, cats |-> {k},
                     seen |-> {x \in Items(ActiveBudget) : x.category = k}])

\* deleteBudgetItem
BeginDelete(c) ==
  \E k \in Category :
    /\ Active # {}
    /\ Begin(c, [op |-> "replace", budget |-> ActiveBudget, cats |-> {},
                 seen |-> {x \in Items(ActiveBudget) : x.category = k}])

NewItems(i, cats) == {[budget |-> i, category |-> k, made |-> revision] : k \in cats}

\* The insert, under the unique index on the active budget of a user: a budget made
\* active meanwhile fails the request, which leaves nothing behind.
CommitCreate(c) ==
  LET i == Len(budgets) + 1 IN
  /\ request[c].op = "create"
  /\ IF Active \subseteq request[c].seen
       THEN /\ budgets' = Append([j \in DOMAIN budgets |->
                            IF j \in request[c].seen THEN [budgets[j] EXCEPT !.active = FALSE] ELSE budgets[j]],
                            [month |-> Today, active |-> TRUE])
            /\ items' = items \cup NewItems(i, request[c].cats)
            /\ Bump
       ELSE UNCHANGED <<book, budgets, items, revision, writes, reads, usage, cached, list, shaken>>
  /\ End(c)

\* Rows deleted meanwhile are deleted once; rows inserted meanwhile stay.
CommitReplace(c) ==
  /\ request[c].op = "replace"
  /\ items' = (items \ request[c].seen) \cup NewItems(request[c].budget, request[c].cats)
  /\ End(c) /\ Bump /\ UNCHANGED budgets

-----------------------------------------------------------------------------
(* GET /budgets/active/usage and /budgets/:id/progress.                    *)

Ask(u) == usage' = u /\ UNCHANGED <<book, planVars, revision, writes, list, shaken>>

\* The revision comes first; an answer stored under it is served as it is.
StartUsage ==
  \E q \in Queries, kind \in {"usage", "progress"} :
    /\ usage = NoUsage
    /\ ~(cached.rev = revision /\ cached.query = q /\ cached.kind = kind)
    /\ Ask([at |-> "budget", kind |-> kind, query |-> q, rev |-> revision])
    /\ reads < MaxReads /\ reads' = reads + 1 /\ UNCHANGED cached

\* Progress fails without an active budget.
ReadBudget ==
  /\ usage.at = "budget"
  /\ LET i == ActiveBudget
         covered == i # None /\ (usage.kind = "usage" => usage.query.month >= budgets[i].month)
     IN IF usage.kind = "progress" /\ i = None
          THEN Ask(NoUsage)
          ELSE Ask([at |-> "items", kind |-> usage.kind, query |-> usage.query, rev |-> usage.rev,
                    budget |-> IF covered THEN i ELSE None])
  /\ UNCHANGED <<cached, reads>>

\* Progress fails without items, too.
ReadItems ==
  /\ usage.at = "items"
  /\ IF usage.kind = "progress" /\ Items(usage.budget) = {}
       THEN Ask(NoUsage)
       ELSE Ask([at |-> "spend", kind |-> usage.kind, query |-> usage.query, rev |-> usage.rev,
                 plan |-> Items(usage.budget)])
  /\ UNCHANGED <<cached, reads>>

ReadSpend ==
  /\ usage.at = "spend"
  /\ Ask([at |-> "parents", kind |-> usage.kind, query |-> usage.query, rev |-> usage.rev, plan |-> usage.plan,
          spent |-> IF usage.kind = "usage" THEN UsageSpend(book, usage.query)
                    ELSE SpentByCategory(book, Today)])
  /\ UNCHANGED <<cached, reads>>

Answer(kind, plan, spent) ==
  IF kind = "progress" THEN [entries |-> Progress(plan, spent), uncategorized |-> {}]
  ELSE [entries |-> UsageEntries(plan, spent, [c \in Category |-> book.category[c].parent]),
        uncategorized |-> Uncategorized(spent)]

\* getCategoryParents; the answer is stored under the revision that was read first.
ReadParents ==
  /\ usage.at = "parents"
  /\ cached' = [rev |-> usage.rev, kind |-> usage.kind, query |-> usage.query,
                answer |-> Answer(usage.kind, usage.plan, usage.spent)]
  /\ Ask(NoUsage) /\ UNCHANGED reads

-----------------------------------------------------------------------------
(* GET /transactions?budget=true: newest first, by date and id, a page at a *)
(* time from where the last page ended.                                    *)

Before(b, s, t) ==  \* s comes before t
  b.txn[s].date > b.txn[t].date \/ (b.txn[s].date = b.txn[t].date /\ s > t)

\* Rows after the cursor <<date, id>>.
After(b, cursor) ==
  {t \in Txn : b.txn[t].date < cursor[1] \/ (b.txn[t].date = cursor[1] /\ t < cursor[2])}

StartList ==
  \E q \in Queries :
    /\ list = NoList /\ reads < MaxReads /\ reads' = reads + 1
    /\ list' = [at |-> "reading", query |-> q, rev |-> revision, cursor |-> <<>>, out |-> [t \in Txn |-> 0]]
    /\ shaken' = {}
    /\ UNCHANGED <<book, planVars, revision, writes, usage, cached>>

\* listByUser: one row more than the page tells whether there is another.
ReadPage ==
  /\ list.at = "reading"
  /\ LET rows == Listed(book, list.query) \cap (IF list.cursor = <<>> THEN Txn ELSE After(book, list.cursor))
         page == {t \in rows : Cardinality({s \in rows : Before(book, s, t)}) < PageSize}
         last == CHOOSE t \in page : \A s \in page : s = t \/ Before(book, s, t)
         out == [t \in Txn |-> list.out[t] + IF t \in page THEN 1 ELSE 0]
     IN list' = IF page = rows THEN [list EXCEPT !.at = "done", !.out = out]
                ELSE [list EXCEPT !.cursor = <<book.txn[last].date, last>>, !.out = out]
  /\ UNCHANGED <<book, planVars, revision, writes, reads, usage, cached, shaken>>

CloseList ==
  /\ list.at = "done" /\ list' = NoList /\ shaken' = {}
  /\ UNCHANGED <<book, planVars, revision, writes, reads, usage, cached>>

-----------------------------------------------------------------------------
Next ==
  \/ BulkPatch \/ Redate \/ Delete \/ ToggleAccount \/ EditCategory
  \/ \E c \in Client : \/ BeginCreate(c) \/ BeginReplace(c) \/ BeginUpsert(c) \/ BeginDelete(c)
                       \/ CommitCreate(c) \/ CommitReplace(c)
  \/ StartUsage \/ ReadBudget \/ ReadItems \/ ReadSpend \/ ReadParents
  \/ StartList \/ ReadPage \/ CloseList

Spec == Init /\ [][Next]_vars

-----------------------------------------------------------------------------
(* An answer the cache serves at the present revision is what one would    *)
(* compute from the tables as they are, although it was put together by    *)
(* several statements with writes between them.                            *)
AnswersAreCurrent ==
  cached.rev = revision =>
    LET i == ActiveBudget
        covered == i # None /\ (cached.kind = "usage" => cached.query.month >= budgets[i].month)
    IN cached.answer = Answer(cached.kind, IF covered THEN Items(i) ELSE {},
                              IF cached.kind = "usage" THEN UsageSpend(book, cached.query)
                              ELSE SpentByCategory(book, Today))

\* A list read to its end holds once every row that nothing moved meanwhile and that
\* belongs to it, and no row that never did, whatever else was written between pages.
ListIsComplete ==
  list.at = "done" =>
    \A t \in Txn \ shaken : list.out[t] = IF t \in Listed(book, list.query) THEN 1 ELSE 0

\* A budget row and the list it opens add up to the same amount (budget-spend.ts:5-8):
\* when nothing was written since both were asked for, the list of a category, a group
\* or everything holds the rows the entries of the answer were summed from.
RowAndListAgree ==
  /\ list.at = "done" /\ list.rev = revision
  /\ cached.rev = revision /\ cached.kind = "usage" /\ cached.query.month = list.query.month
  /\ cached.query.cats = {} \/ cached.query = list.query
  => LET cats == list.query.cats
         rows == {e \in cached.answer.entries : cats = {} \/ {e.category, e.parent} \cap cats # {}}
         sum == UNION {e.spent : e \in rows} \cup IF cats = {} \/ None \in cats THEN cached.answer.uncategorized ELSE {}
     IN \A t \in Txn : list.out[t] = IF t \in sum THEN 1 ELSE 0

\* Whoever makes a first budget, or replaces it, together with others: there is one active
\* budget from then on.
OneActiveBudget == Cardinality(Active) = IF budgets = <<>> THEN 0 ELSE 1

(* A budget shows what was spent: its answers are current, its lists are   *)
(* complete, the two agree, and there is one budget to speak of.           *)
BudgetAddsUp == AnswersAreCurrent /\ ListIsComplete /\ RowAndListAgree /\ OneActiveBudget
=============================================================================
