----------------------------- MODULE Categories -----------------------------
(***************************************************************************)
(* A user's categories and everything that refers to them: the shared      *)
(* defaults and the user's copies of them, archiving, the choices made for *)
(* transactions by the user, by a rule applied to the past and by the      *)
(* automatic categorization, and the plan of a budget                      *)
(* (categories.service.ts, categories.repository.ts, retroactive.ts,       *)
(* auto-categorize.ts, budgets.service.ts and budgets.repository.ts).      *)
(*                                                                         *)
(* A request reads or checks a category in one step and writes in another; *)
(* the rule is locked over both by the job that applies it.  The statement *)
(* of a change that moves the transactions and its commit are one step:    *)
(* what another request writes between them is, in the model, checked      *)
(* before the change and written after it, with the same outcome.          *)
(***************************************************************************)
EXTENDS Integers, Sequences, FiniteSets, FiniteSetsExt

CONSTANTS
  Shared,      \* the defaults everybody has: a sequence of categories
  Txn,         \* the user's transactions, of one merchant
  Name,        \* names a category may get
  Client,      \* requests that run at once
  MaxOwn,      \* bound: categories the user makes, copies included
  MaxRequests  \* bound

VARIABLES
  cat,       \* categories; the first ones are the shared defaults
  override,  \* category_overrides: which copy stands for which default
  txn,       \* category and user_category_override of the transactions
  rule,      \* the category the user's one rule assigns
  plan,      \* budget_items of the active budget
  req,
  started,
  chosen,    \* history: the user's last choice for a transaction
  stale,     \* history: rows written with a category that is out of sight
  planned    \* history: the sum the plan should have

vars == <<cat, override, txn, rule, plan, req, started, chosen, stale, planned>>

None == 0
RuleRow == -1  \* next to transactions in the history
PlanRow == -2
Defaults == DOMAIN Shared
Category == [own : BOOLEAN, parent : Nat, name : Name, archived : BOOLEAN]
Idle == [op |-> "none", at |-> "none"]

Init ==
  /\ cat = Shared /\ override = {}
  /\ txn = [t \in Txn |-> [category |-> None, override |-> FALSE]]
  /\ rule \in {None} \cup Defaults
  /\ \E used \in {{}, Defaults} : plan = {[category |-> d, amount |-> 1] : d \in used}
  /\ req = [c \in Client |-> Idle] /\ started = 0
  /\ chosen = [t \in Txn |-> -1] /\ stale = {} /\ planned = Cardinality(plan)

State == [cat |-> cat, override |-> override, txn |-> txn, rule |-> rule, plan |-> plan]

CopyOf(s, d) == {o.copy : o \in {o \in s.override : o.default = d}}

\* The user's own categories, and the defaults without a copy.
CategoryVisibleTo(s, k) == s.cat[k].own \/ CopyOf(s, k) = {}

Live(s) == {k \in DOMAIN s.cat : ~s.cat[k].archived /\ CategoryVisibleTo(s, k)}

-----------------------------------------------------------------------------
(* moveReferences *)

\* Into the destination's item, or the item itself moves; none when
\* uncategorized.
MovedItems(items, from, to) ==
  LET gone == {i \in items : i.category = from}
      there == {i \in items : i.category = to}
  IN IF gone = {} THEN items
     ELSE IF to = None THEN items \ gone
     ELSE IF there = {} THEN (items \ gone) \cup {[i EXCEPT !.category = to] : i \in gone}
     ELSE LET i == CHOOSE i \in there : TRUE
          IN (items \ (gone \cup {i}))
               \cup {[i EXCEPT !.amount = @ + MapThenSumSet(LAMBDA g : g.amount, gone)]}

MoveReferences(s, from, to) ==
  [s EXCEPT !.txn = [t \in Txn |-> IF s.txn[t].category = from
                                   THEN [s.txn[t] EXCEPT !.category = to] ELSE s.txn[t]],
            !.rule = IF @ = from THEN to ELSE @,
            !.plan = MovedItems(@, from, to)]

-----------------------------------------------------------------------------
(* customizeDefault *)

Adoptable(s, d, parent) ==
  {k \in DOMAIN s.cat : s.cat[k].own /\ s.cat[k].parent = parent /\ s.cat[k].name = s.cat[d].name}

\* An own category of that name becomes the copy, or a new one does; it takes
\* over the references and the user's own subcategories.
Copied(s, d) ==
  LET above == s.cat[d].parent
      parent == IF above # None /\ CopyOf(s, above) # {}
                THEN CHOOSE k \in CopyOf(s, above) : TRUE ELSE above
      own == Adoptable(s, d, parent)
      copy == IF own = {} THEN Len(s.cat) + 1 ELSE CHOOSE k \in own : TRUE
      rowsOf == IF own = {} THEN Append(s.cat, [s.cat[d] EXCEPT !.own = TRUE, !.parent = parent])
                ELSE [s.cat EXCEPT ![copy].archived = FALSE]
      under == [k \in DOMAIN rowsOf |-> IF rowsOf[k].own /\ rowsOf[k].parent = d
                                        THEN [rowsOf[k] EXCEPT !.parent = copy] ELSE rowsOf[k]]
  IN MoveReferences([s EXCEPT !.cat = under, !.override = @ \cup {[default |-> d, copy |-> copy]}],
                    d, copy)

CopiedOnce(s, d) == IF CopyOf(s, d) = {} THEN Copied(s, d) ELSE s

\* A group takes its default subcategories with it.
CustomizeDefault(s, d) ==
  FoldSet(LAMBDA k, r : CopiedOnce(r, k), CopiedOnce(s, d),
          IF CopyOf(s, d) = {} THEN {k \in Defaults : Shared[k].parent = d} ELSE {})

\* Unique indexes: one copy for a category, one name under a parent.
Storable(s) ==
  /\ \A o, p \in s.override : o.copy = p.copy => o = p
  /\ \A j, k \in DOMAIN s.cat :
       (/\ s.cat[j].own /\ s.cat[k].own /\ s.cat[j].parent # None
        /\ s.cat[j].parent = s.cat[k].parent /\ s.cat[j].name = s.cat[k].name) => j = k
  /\ Len(s.cat) <= Len(Shared) + MaxOwn

-----------------------------------------------------------------------------
(* Requests *)

\* Requests are alike: the first free slot takes the next one.
Free(c) ==
  /\ req[c].op = "none" /\ started < MaxRequests
  /\ \A d \in Client : d < c => req[d].op # "none"

Starts(c, r) ==
  /\ Free(c)
  /\ req' = [req EXCEPT ![c] = r]
  /\ started' = started + 1
  /\ UNCHANGED <<cat, override, txn, rule, plan, chosen, stale, planned>>

Ends(c) == req' = [req EXCEPT ![c] = Idle] /\ UNCHANGED started

\* A retroactive application holds the rule until it commits.
RuleLocked(c) == \E d \in Client \ {c} : req[d].op = "retro" 

Gone(k) == k # None /\ k \notin Live(State)

Children(s, k) == {j \in Live(s) : s.cat[j].parent = k}

\* createCategory checks nothing but the unique index.
CreateCategory(c, name, parent) ==
  LET s == [State EXCEPT !.cat = Append(cat, [own |-> TRUE, parent |-> parent, name |-> name,
                                              archived |-> FALSE])]
  IN /\ Free(c)
     /\ parent \in {None} \cup Live(State)
     /\ Storable(s)
     /\ cat' = s.cat /\ started' = started + 1
     /\ UNCHANGED <<override, txn, rule, plan, req, chosen, stale, planned>>

\* The row is read before the transaction starts.
ReadExisting(c, op, k, to) ==
  Starts(c, [op |-> op, at |-> "read", of |-> k, row |-> cat[k], to |-> to])

\* The user's own row as read, or the copy of the default.
Target(s, r) == IF r.row.own THEN r.of ELSE CHOOSE k \in CopyOf(s, r.of) : TRUE

OwnedOrCopied(r) == IF r.row.own THEN State ELSE CustomizeDefault(State, r.of)

\* The user's row as it was read, or the copy.
RowOf(s, r) == IF r.row.own THEN r.row ELSE s.cat[Target(s, r)]

FindOwnTopLevelByName(s, name, except) ==
  {g \in Live(s) \ {except} : s.cat[g].own /\ s.cat[g].parent = None /\ s.cat[g].name = name}

\* Two levels only: a live top-level parent and nothing below the moved one,
\* or a new group of another name than the user's groups have.
AssertMove(s, r, target, parent) ==
  \/ /\ parent = None
     /\ RowOf(s, r).parent = None \/ FindOwnTopLevelByName(s, RowOf(s, r).name, target) = {}
  \/ /\ parent \in Live(s) \ {target, r.of}
     /\ s.cat[parent].parent = None
     /\ Children(s, target) = {}

\* What became of a category, to follow a choice.
Became(s, k) == IF k > 0 /\ CopyOf(s, k) # {} /\ CopyOf(State, k) = {}
                THEN CHOOSE j \in CopyOf(s, k) : TRUE ELSE k

Commit(c, s) ==
  /\ Storable(s)
  /\ cat' = s.cat /\ override' = s.override /\ txn' = s.txn /\ rule' = s.rule /\ plan' = s.plan
  /\ Ends(c)

\* Moved to another parent, or renamed.
UpdateCategory(c) ==
  LET r == req[c] s == OwnedOrCopied(r) k == Target(s, r) IN
  /\ r.op = "update" /\ (rule = r.of => ~RuleLocked(c))
  /\ k \in Live(s)
  /\ AssertMove(s, r, k, r.to)
  /\ \E name \in Name : Commit(c, [s EXCEPT !.cat[k].parent = r.to, !.cat[k].name = name])
  /\ chosen' = [t \in Txn |-> Became(s, chosen[t])]
  /\ UNCHANGED <<stale, planned>>

\* Subcategories become groups, the references go to the destination: the
\* parent the row had when it was read, unless the user named another one.
Archived(r, s, k, to) ==
  LET m == MoveReferences(s, k, to)
  IN [m EXCEPT !.cat = [j \in DOMAIN @ |->
                          IF j = k THEN [@[j] EXCEPT !.archived = TRUE]
                          ELSE IF @[j].own /\ @[j].parent = k /\ ~@[j].archived
                          THEN [@[j] EXCEPT !.parent = None] ELSE @[j]]]

ArchiveCategory(c) ==
  LET r == req[c]
      s == OwnedOrCopied(r)
      k == Target(s, r)
      to == IF r.to = -1 THEN RowOf(s, r).parent ELSE r.to
      sum(p) == MapThenSumSet(LAMBDA i : i.amount, p)
  IN /\ r.op = "archive" /\ (rule \in {r.of, k} => ~RuleLocked(c))
     /\ k \in Live(s)
     /\ r.to > 0 => r.to \in Live(s) \ {k, r.of} /\ s.cat[r.to].parent # k
     /\ \A j \in Children(s, k) : FindOwnTopLevelByName(s, s.cat[j].name, j) = {}
     /\ Commit(c, Archived(r, s, k, to))
     /\ chosen' = [t \in Txn |-> IF Became(s, chosen[t]) = k THEN to ELSE Became(s, chosen[t])]
     /\ stale' = IF Gone(to)
                 THEN stale \cup {t \in Txn : txn'[t].category = to} \cup {RuleRow, PlanRow} ELSE stale
     /\ planned' = IF to = None THEN sum(plan') ELSE planned

-----------------------------------------------------------------------------
(* Writers of references: the category is checked, then written. *)

\* The check of the rules also accepts a default the user has replaced.
CategoryExists(op, k) ==
  /\ ~cat[k].archived
  /\ op = "rule" \/ CategoryVisibleTo(State, k)

Check(c, op, k, ts) ==
  /\ CategoryExists(op, k)
  /\ Starts(c, [op |-> op, at |-> "write", to |-> k, txns |-> ts])

Marked(k, rows) == IF Gone(k) THEN stale \cup rows ELSE stale

\* One transaction, or several at once.
PatchTransactions(c) ==
  LET r == req[c] IN
  /\ r.op = "patch"
  /\ txn' = [t \in Txn |-> IF t \in r.txns THEN [category |-> r.to, override |-> TRUE] ELSE txn[t]]
  /\ chosen' = [t \in Txn |-> IF t \in r.txns THEN r.to ELSE chosen[t]]
  /\ stale' = Marked(r.to, r.txns)
  /\ Ends(c) /\ UNCHANGED <<cat, override, rule, plan, planned>>

WriteRule(c) ==
  LET r == req[c] IN
  /\ r.op = "rule" /\ ~RuleLocked(c)
  /\ rule' = r.to /\ stale' = Marked(r.to, {RuleRow})
  /\ Ends(c) /\ UNCHANGED <<cat, override, txn, plan, chosen, planned>>

\* The items of the category are replaced by one.
UpsertBudgetItem(c) ==
  LET r == req[c] old == {i \in plan : i.category = r.to} IN
  /\ r.op = "item"
  /\ plan' = (plan \ old) \cup {[category |-> r.to, amount |-> 1]}
  /\ planned' = planned + 1 - MapThenSumSet(LAMBDA i : i.amount, old)
  /\ stale' = Marked(r.to, {PlanRow})
  /\ Ends(c) /\ UNCHANGED <<cat, override, txn, rule, chosen>>

-----------------------------------------------------------------------------
(* applyRuleRetroactively and autoCategorize *)

\* The rule is locked, and the batch of rows nobody has decided about is read.
ReadBatch(c) ==
  /\ rule # None /\ ~RuleLocked(c)
  /\ Starts(c, [op |-> "retro", at |-> "write", to |-> rule,
                rows |-> {t \in Txn : ~txn[t].override}])

\* Mutant: the rows of the batch are written as they were read.
AsRead(t) == TRUE

\* The update looks again.
Undecided(t) == ~txn[t].override

ApplyRuleRetroactively(c) ==
  LET r == req[c] rows == {t \in r.rows : Undecided(t)} IN
  /\ r.op = "retro"
  /\ txn' = [t \in Txn |-> IF t \in rows THEN [category |-> r.to, override |-> TRUE] ELSE txn[t]]
  /\ stale' = IF Gone(r.to) THEN stale \cup rows ELSE stale
  /\ Ends(c) /\ UNCHANGED <<cat, override, rule, plan, chosen, planned>>

\* A choice made for the merchant before, or the category the user has for the
\* bank's: a live copy, else the live default.
Remembered == {txn[t].category : t \in {t \in Txn : txn[t].override}} \ {None}
Usable(d) ==
  IF CopyOf(State, d) = {} THEN {d} ELSE {k \in CopyOf(State, d) : ~cat[k].archived}

PlanAutoCategories(c, t) ==
  \E k \in IF Remembered # {} THEN Remembered ELSE UNION {Usable(d) : d \in Defaults} :
    Starts(c, [op |-> "auto", at |-> "write", to |-> k, txn |-> t])

AutoCategorize(c) ==
  LET r == req[c] IN
  /\ r.op = "auto"
  /\ IF txn[r.txn].category = None /\ ~txn[r.txn].override
     THEN /\ txn' = [txn EXCEPT ![r.txn].category = r.to]
          /\ stale' = Marked(r.to, {r.txn})
     ELSE UNCHANGED <<txn, stale>>
  /\ Ends(c) /\ UNCHANGED <<cat, override, rule, plan, chosen, planned>>

\* Refused by a check, by the database, or as the victim of a deadlock.
Abort(c) ==
  /\ req[c].op # "none" /\ Ends(c)
  /\ UNCHANGED <<cat, override, txn, rule, plan, chosen, stale, planned>>

\* What a free client may ask for.
Request(c) ==
  \/ \E k \in Live(State) :
       \/ \E to \in {None} \cup Live(State) :
            ReadExisting(c, "update", k, to) \/ ReadExisting(c, "archive", k, to)
       \/ ReadExisting(c, "archive", k, -1)
  \/ \E k \in DOMAIN cat :
       \/ Check(c, "rule", k, {}) \/ Check(c, "item", k, {})
       \/ \E ts \in SUBSET Txn \ {{}} : Check(c, "patch", k, ts)
  \/ \E name \in Name, parent \in {None} \cup DOMAIN cat : CreateCategory(c, name, parent)
  \/ ReadBatch(c) \/ \E t \in Txn : PlanAutoCategories(c, t)

Next ==
  \E c \in Client :
    \/ Free(c) /\ Request(c)
    \/ UpdateCategory(c) \/ ArchiveCategory(c)
    \/ PatchTransactions(c) \/ WriteRule(c) \/ UpsertBudgetItem(c)
    \/ ApplyRuleRetroactively(c) \/ AutoCategorize(c) \/ Abort(c)

Spec == Init /\ [][Next]_vars

-----------------------------------------------------------------------------
TypeOK ==
  /\ \A k \in DOMAIN cat : cat[k] \in Category
  /\ \A o \in override : o.default \in Defaults /\ cat[o.copy].own
  /\ \A t \in Txn : txn[t].category \in {None} \cup DOMAIN cat

\* Copying a default, moving and archiving a category leave no reference
\* behind: one that points at a category the user cannot see was written by
\* somebody whose check had passed before that category went out of sight, or
\* was the check of the rules, which a replaced default passes.
NothingLeftBehind ==
  /\ \A t \in Txn : txn[t].category \in {None} \cup Live(State) \/ t \in stale
  /\ rule \in {None} \cup Live(State) \/ RuleRow \in stale
  /\ \A i \in plan : i.category \in Live(State) \/ PlanRow \in stale

\* A plan keeps its sum when its categories are copied, merged and archived.
PlanKeepsItsSum == MapThenSumSet(LAMBDA i : i.amount, plan) = planned

\* A category the user chose stays, under whatever it has become, although
\* rules and the automatic categorization worked on a list read before.
ChoicesStand == \A t \in Txn : chosen[t] # -1 => txn[t] = [category |-> chosen[t], override |-> TRUE]

\* One copy for each default, and no default under a group the user has replaced.
CopiesAreComplete ==
  /\ \A o, p \in override : o.default = p.default => o = p
  /\ \A d \in Defaults : (d \in Live(State) /\ cat[d].parent # None) => cat[d].parent \in Live(State)

\* What categories promise together to whatever refers to them.
ReferencesFollow ==
  TypeOK /\ NothingLeftBehind /\ PlanKeepsItsSum /\ ChoicesStand /\ CopiesAreComplete
=============================================================================
