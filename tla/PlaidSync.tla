----------------------------- MODULE PlaidSync -----------------------------
(***************************************************************************)
(* Synchronization of one Plaid connection (plaid-sync.service.ts): pages  *)
(* of changes are fetched from the bank and stored, each in a transaction  *)
(* that also advances the item's cursor by compare-and-set, while the user *)
(* edits transactions, removes accounts and disconnects the item, and      *)
(* webhooks report its status.                                             *)
(*                                                                         *)
(* Nothing cancels a synchronization whose job lost its lease, so several  *)
(* executions (syncers) may work on the item at once.                      *)
(*                                                                         *)
(* The bank is external: a log of changes in which a cursor is a position. *)
(***************************************************************************)
EXTENDS Naturals, Sequences, FiniteSets

CONSTANTS
  Syncers,      \* executions of syncItem
  Accounts,
  Txns,
  AccountOf,    \* the account of each transaction
  Ruled,        \* transactions to which an active rule gives a category
  PageSize,     \* changes per page
  MaxChanges,   \* bound: changes at the bank
  MaxSyncs,     \* bound: executions started
  MaxEdits      \* bound: edits by the user

ASSUME SyncAssumption ==
  /\ AccountOf \in [Txns -> Accounts]
  /\ Ruled \subseteq Txns
  /\ PageSize \in Nat \ {0}
  /\ {MaxChanges, MaxSyncs, MaxEdits} \subseteq Nat

VARIABLES
  log,         \* the bank: changes so far
  revoked,     \* the bank: the access token is revoked
  item,        \* the row of plaid_items
  account,     \* accounts: deletedAt per account
  row,         \* transactions
  syncer,      \* progress of each execution
  webhook,     \* a status webhook being handled
  unlink,      \* progress of a disconnection
  started, edits,   \* bounded counters
  overtaken,   \* history: some page was stored though its cursor had moved
  interrupted  \* history: something was in progress when the item was disconnected

bank == <<log, revoked>>
counters == <<started, edits>>
history == <<overtaken, interrupted>>
vars == <<bank, item, account, row, syncer, webhook, unlink, counters, history>>

Change == [txn : Txns, op : {"put", "drop"}]
Item == [cursor : 0..MaxChanges, status : {"active", "broken", "disconnected"},
         deleted : BOOLEAN]

\* version counts the bank's puts of the transaction.
Row == [at : {"none", "live", "removed"}, version : 0..MaxChanges,
        category : {"none", "rule", "auto", "user"}, override : BOOLEAN]

\* cursor is priorCursor and cursor, to and more the page fetched, wasActive
\* what the snapshot of the item said.
Syncer == [at : {"idle", "fetching", "page", "finishing"}, cursor : 0..MaxChanges,
           to : 0..MaxChanges, more : BOOLEAN, wasActive : BOOLEAN, completed : BOOLEAN]

TypeOK ==
  /\ log \in Seq(Change) /\ Len(log) <= MaxChanges
  /\ revoked \in BOOLEAN
  /\ item \in Item
  /\ account \in [Accounts -> {"absent", "live", "removed"}]
  /\ row \in [Txns -> Row]
  /\ syncer \in [Syncers -> Syncer]
  /\ webhook \in BOOLEAN
  /\ unlink \in {"none", "decided", "revoked"}
  /\ started \in 0..MaxSyncs /\ edits \in 0..MaxEdits
  /\ overtaken \in BOOLEAN /\ interrupted \in BOOLEAN

Idle == [at |-> "idle", cursor |-> 0, to |-> 0, more |-> FALSE, wasActive |-> TRUE,
         completed |-> FALSE]

Init ==
  /\ log = <<>> /\ revoked = FALSE
  /\ item = [cursor |-> 0, status |-> "active", deleted |-> FALSE]
  /\ account = [a \in Accounts |-> "absent"]
  /\ row = [t \in Txns |-> [at |-> "none", version |-> 0, category |-> "none",
                            override |-> FALSE]]
  /\ syncer = [s \in Syncers |-> Idle]
  /\ webhook = FALSE /\ unlink = "none"
  /\ started = 0 /\ edits = 0
  /\ overtaken = FALSE /\ interrupted = FALSE
-----------------------------------------------------------------------------
(* The bank. *)

Happened(t, op, n) == {i \in DOMAIN log : i <= n /\ log[i] = [txn |-> t, op |-> op]}
Version(t, n) == Cardinality(Happened(t, "put", n))
Dropped(t, n) == Happened(t, "drop", n) # {}

\* Transactions are added and modified, and removed for good.
BankChanges(t, op) ==
  /\ Len(log) < MaxChanges
  /\ ~Dropped(t, Len(log))
  /\ op = "drop" => Version(t, Len(log)) > 0
  /\ log' = Append(log, [txn |-> t, op |-> op])
  /\ UNCHANGED <<revoked, item, account, row, syncer, webhook, unlink, counters, history>>
-----------------------------------------------------------------------------
(* syncItem. *)

\* Mutant: the item is found although it was disconnected.
FoundAlways == TRUE

Found == ~item.deleted

Start(s) ==
  /\ syncer[s].at = "idle"
  /\ started < MaxSyncs
  /\ Found
  /\ started' = started + 1
  /\ syncer' = [syncer EXCEPT ![s] = [Idle EXCEPT !.at = "fetching",
                  !.cursor = item.cursor, !.wasActive = (item.status = "active")]]
  /\ UNCHANGED <<bank, item, account, row, webhook, unlink, edits, history>>

PageEnd(n) == IF n + PageSize < Len(log) THEN n + PageSize ELSE Len(log)

Fetch(s) ==
  LET to == PageEnd(syncer[s].cursor) IN
  /\ syncer[s].at = "fetching"
  /\ ~revoked
  /\ syncer' = [syncer EXCEPT ![s].at = "page", ![s].to = to, ![s].more = to < Len(log)]
  /\ UNCHANGED <<bank, item, account, row, webhook, unlink, counters, history>>

\* The status is written whatever became of the item meanwhile.
FetchFails(s) ==
  /\ syncer[s].at = "fetching"
  /\ item' = [item EXCEPT !.status = "broken"]
  /\ syncer' = [syncer EXCEPT ![s] = Idle]
  /\ UNCHANGED <<bank, account, row, webhook, unlink, counters, history>>

In(s, t, op) == \E i \in Happened(t, op, syncer[s].to) : i > syncer[s].cursor

\* upsertFromPlaid inserts an account; one the user removed stays removed.
UpsertedAccounts(shown) ==
  [a \in Accounts |-> IF a \in shown /\ account[a] = "absent" THEN "live" ELSE account[a]]

\* Transactions of accounts the user removed are skipped.
Changed(s) == {t \in Txns : In(s, t, "put") /\ account[AccountOf[t]] # "removed"}

\* Mutant: a rule overrides the user's choice.
RuleAppliesAlways(t) == t \in Ruled

RuleApplies(t) == t \in Ruled /\ ~row[t].override

\* The upsert, then the category of the rule, or else one from history or the
\* bank's mapping if there is none yet.
Upserted(s, t, auto) ==
  LET r == row[t] IN
  [at |-> IF r.at = "none" THEN "live" ELSE r.at,
   version |-> Version(t, syncer[s].to),
   category |-> IF RuleApplies(t) THEN "rule"
                ELSE IF r.category = "none" /\ ~r.override /\ auto THEN "auto"
                ELSE r.category,
   override |-> r.override]

\* Mutant: a transaction the user edited is not removed.
StoredRowKept(s, t, auto) ==
  LET r == IF t \in Changed(s) THEN Upserted(s, t, auto) ELSE row[t] IN
  IF In(s, t, "drop") /\ r.at = "live" /\ ~r.override THEN [r EXCEPT !.at = "removed"] ELSE r

StoredRow(s, t, auto) ==
  LET r == IF t \in Changed(s) THEN Upserted(s, t, auto) ELSE row[t] IN
  IF In(s, t, "drop") /\ r.at = "live" THEN [r EXCEPT !.at = "removed"] ELSE r

\* Mutant: the whole history counts as stored with the first page.
AdvancedToEnd(s) == Len(log)

AdvancedTo(s) == syncer[s].to

\* One transaction: accounts, transactions, and the cursor if it still is the
\* one the page was fetched from.  If it is not, the rest is committed all the
\* same and the loop ends.
StorePage(s, shown, auto) ==
  LET advanced == item.cursor = syncer[s].cursor
      last == ~advanced \/ ~syncer[s].more
  IN
  /\ syncer[s].at = "page"
  /\ item.deleted => shown = {}
  /\ \A t \in Changed(s) : UpsertedAccounts(shown)[AccountOf[t]] # "absent"
  /\ account' = UpsertedAccounts(shown)
  /\ row' = [t \in Txns |-> StoredRow(s, t, t \in auto)]
  /\ item' = IF advanced THEN [item EXCEPT !.cursor = AdvancedTo(s)] ELSE item
  /\ overtaken' = (overtaken \/ ~advanced)
  /\ syncer' = [syncer EXCEPT ![s].at = IF last THEN "finishing" ELSE "fetching",
                  ![s].cursor = IF advanced THEN syncer[s].to ELSE @,
                  ![s].completed = advanced /\ ~syncer[s].more]
  /\ UNCHANGED <<bank, webhook, unlink, counters, interrupted>>

\* The transaction rolls back: the item is gone, a transaction's account is
\* unknown, or the database fails.  A crash of the process looks the same.
SyncAborts(s) ==
  /\ syncer[s].at # "idle"
  /\ syncer' = [syncer EXCEPT ![s] = Idle]
  /\ UNCHANGED <<bank, item, account, row, webhook, unlink, counters, history>>

\* The closing mutation goes by the status the item had when it was read.
Finish(s) ==
  /\ syncer[s].at = "finishing"
  /\ item' = IF syncer[s].completed /\ ~syncer[s].wasActive
             THEN [item EXCEPT !.status = "active"] ELSE item
  /\ syncer' = [syncer EXCEPT ![s] = Idle]
  /\ UNCHANGED <<bank, account, row, webhook, unlink, counters, history>>
-----------------------------------------------------------------------------
(* Status webhooks: the item is looked up, and marked later. *)

WebhookArrives ==
  /\ ~webhook /\ ~item.deleted
  /\ webhook' = TRUE
  /\ UNCHANGED <<bank, item, account, row, syncer, unlink, counters, history>>

WebhookMarks(status) ==
  /\ webhook
  /\ webhook' = FALSE
  /\ item' = [item EXCEPT !.status = status]
  /\ UNCHANGED <<bank, account, row, syncer, unlink, counters, history>>
-----------------------------------------------------------------------------
(* The user. *)

\* A category chosen, or cleared, by the user is marked as such.
EditCategory(t, c) ==
  /\ edits < MaxEdits
  /\ row[t].at = "live"
  /\ row' = [row EXCEPT ![t].category = c, ![t].override = TRUE]
  /\ edits' = edits + 1
  /\ UNCHANGED <<bank, item, account, syncer, webhook, unlink, started, history>>

\* With the last live account goes the connection.
RemoveAccount(a) ==
  LET others == {b \in Accounts \ {a} : account[b] = "live"} IN
  /\ edits < MaxEdits
  /\ account[a] = "live"
  /\ account' = [account EXCEPT ![a] = "removed"]
  /\ unlink' = IF unlink = "none" /\ others = {} /\ ~item.deleted THEN "decided" ELSE unlink
  /\ edits' = edits + 1
  /\ UNCHANGED <<bank, item, row, syncer, webhook, started, history>>

AskUnlink ==
  /\ edits < MaxEdits
  /\ unlink = "none" /\ ~item.deleted
  /\ unlink' = "decided"
  /\ edits' = edits + 1
  /\ UNCHANGED <<bank, item, account, row, syncer, webhook, started, history>>

\* removeRemote: a failure is logged, and the disconnection goes on.
Revoke(success) ==
  /\ unlink = "decided"
  /\ unlink' = "revoked"
  /\ revoked' = (revoked \/ success)
  /\ UNCHANGED <<log, item, account, row, syncer, webhook, counters, history>>

Disconnect ==
  /\ unlink = "revoked"
  /\ unlink' = "none"
  /\ item' = IF item.deleted THEN item
             ELSE [item EXCEPT !.status = "disconnected", !.deleted = TRUE]
  /\ interrupted' = (interrupted \/ webhook \/ \E s \in Syncers : syncer[s].at # "idle")
  /\ UNCHANGED <<bank, account, row, syncer, webhook, counters, overtaken>>

UnlinkAbandoned ==
  /\ unlink # "none"
  /\ unlink' = "none"
  /\ UNCHANGED <<bank, item, account, row, syncer, webhook, counters, history>>
-----------------------------------------------------------------------------
SyncStep(s) ==
  \/ Start(s) \/ Fetch(s) \/ FetchFails(s) \/ Finish(s) \/ SyncAborts(s)
  \/ \E shown \in SUBSET Accounts, auto \in SUBSET Txns : StorePage(s, shown, auto)

UserStep ==
  \/ \E t \in Txns, c \in {"none", "user"} : EditCategory(t, c)
  \/ \E a \in Accounts : RemoveAccount(a)
  \/ AskUnlink
  \/ \E success \in BOOLEAN : Revoke(success)
  \/ Disconnect
  \/ UnlinkAbandoned

Next ==
  \/ \E t \in Txns, op \in {"put", "drop"} : BankChanges(t, op)
  \/ \E s \in Syncers : SyncStep(s)
  \/ WebhookArrives
  \/ \E status \in {"active", "broken"} : WebhookMarks(status)
  \/ UserStep

Spec == Init /\ [][Next]_vars
-----------------------------------------------------------------------------
(* What synchronization promises. *)

Shown(t) == account[AccountOf[t]] # "removed"

\* The cursor never passes a change that was not stored: whatever executions
\* crash, fail or overlap, each transaction the bank reported up to the cursor
\* has its row, unless it came after the user removed its account.
NothingSkipped ==
  \A t \in Txns : Version(t, item.cursor) > 0 /\ Shown(t) => row[t].at # "none"

\* The rows of shown accounts are what the bank reported up to the cursor.
\* Only an execution that stored a page after its cursor had moved on can have
\* put something else there.
RowsMatchCursor ==
  /\ TypeOK
  /\ ~overtaken => \A t \in Txns : Shown(t) /\ row[t].at # "none" =>
    /\ row[t].version = Version(t, item.cursor)
    /\ (row[t].at = "removed") = Dropped(t, item.cursor)

\* "Plaid transaction cursors and compare-and-set cursor advancement make
\* repeated domain handling safe": no row is older than the cursor.  (It is not
\* so: a late page is committed although its cursor lost.)
NeverOlderThanCursor ==
  \A t \in Txns : Shown(t) /\ row[t].at # "none" =>
    row[t].version >= Version(t, item.cursor)

\* What the user decided outlives every synchronization, whatever page it
\* stores: a category chosen, or cleared, and an account removed, for which no
\* rows pile up either, while the connection lives.
UserDecisionsKept ==
  [][/\ \A t \in Txns : row[t].override /\ row'[t] # row[t] =>
          row'[t].category = row[t].category \/ edits' > edits
     /\ \A t \in Txns : account[AccountOf[t]] = "removed" =>
          /\ account'[AccountOf[t]] = "removed"
          /\ row[t].at = "none" => row'[t].at = "none"]_vars

\* A disconnected connection is shown as such, unless a synchronization or a
\* webhook was in progress when it was disconnected: those write the status
\* without looking.
DisconnectedIsShown ==
  item.deleted /\ ~interrupted => item.status = "disconnected"
=============================================================================
