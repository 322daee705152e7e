------------------------------ MODULE UserData ------------------------------
(***************************************************************************)
(* Backup, restore and erasure of a user's data                            *)
(* (user-data.service.ts, user-data.repository.ts and revokeAllItems of    *)
(* plaid.service.ts).  An export reads its tables and then the             *)
(* transactions, page by page, with no transaction around it, while the    *)
(* user and the worker go on writing; a restore validates a backup,        *)
(* disconnects the banks one by one, and then replaces everything at once. *)
(*                                                                         *)
(* Rules stand for whatever refers to a category or to an account in a     *)
(* single row: rules, budget items, bills.  Amounts, names and tags are    *)
(* left out.                                                               *)
(***************************************************************************)
EXTENDS Integers, Sequences, SequencesExt, Functions

CONSTANTS
  Account, Category,  \* rows the user may have
  Txn, Initially,     \* ids, numbers, in any order; sets of those there are at the start
  Item,               \* connections to banks
  PageSize,           \* transactions per page of an export
  Foreign,            \* backups that were not made here, well-formed or not
  MaxRequests,        \* bound: exports, restores and resets
  MaxEdits,           \* bound: edits, of the ledger or of the connections
  MaxFaults           \* bound: failed calls to Plaid, and connections made

VARIABLES
  db,       \* the user's rows
  items,    \* connections in the database
  live,     \* connections that Plaid keeps open
  stream,   \* the export under way
  backup,   \* the last one that was finished
  restore,  \* the restore or reset under way
  requests, edits, faults,
  start,    \* history: the database when the export began, less what was erased since
  quiet,    \* history: nothing was edited since
  leaked    \* history: connections Plaid may keep that nobody will revoke

vars == <<db, items, live, stream, backup, restore, requests, edits, faults, start, quiet, leaked>>

None == 0
System == -1   \* a category that every user shares; the user's are 1, 2, ...
Tables == {"accounts", "categories", "rules"}
\* What a reset leaves.
Nothing == [accounts |-> {}, categories |-> <<>>, rules |-> {}, txns |-> <<>>]
NoStream == [at |-> "none", unread |-> {}, meta |-> Nothing, after |-> 0, out |-> <<>>]
NoRestore == [at |-> "idle", payload |-> Nothing, queue |-> {}, outcome |-> "none"]

Known(cats) == DOMAIN cats \cup {System, None}

\* The foreign keys of the database.
Closed(d) ==
  /\ \A c \in DOMAIN d.categories : d.categories[c] \in Known(d.categories)
  /\ \A t \in DOMAIN d.txns : d.txns[t].account \in d.accounts /\ d.txns[t].category \in Known(d.categories)
  /\ \A r \in d.rules : r.account \in d.accounts \cup {None} /\ r.category \in Known(d.categories)

Init ==
  /\ \E ids \in Initially :
       db = [Nothing EXCEPT !.accounts = {1},
                            !.txns = [t \in ids |-> [account |-> 1, category |-> System, deleted |-> FALSE]]]
  /\ items = Item /\ live = Item
  /\ stream = NoStream /\ backup = [at |-> "none"] /\ restore = NoRestore
  /\ requests = 0 /\ edits = 0 /\ faults = 0
  /\ start = Nothing /\ quiet = TRUE /\ leaked = {}

-----------------------------------------------------------------------------
(* What goes on meanwhile. *)

Edit(d) ==
  /\ edits < MaxEdits /\ edits' = edits + 1
  /\ Closed(d) /\ d # db
  /\ db' = d /\ quiet' = FALSE
  /\ UNCHANGED <<requests, items, live, stream, backup, restore, faults, start, leaked>>

AddAccount == \E a \in Account : Edit([db EXCEPT !.accounts = @ \cup {a}])

AddCategory ==
  \E c \in Category \ DOMAIN db.categories, p \in Known(db.categories) :
    Edit([db EXCEPT !.categories = [x \in {c} |-> p] @@ @])

AddRule ==
  \E a \in db.accounts \cup {None}, c \in Known(db.categories) :
    Edit([db EXCEPT !.rules = {[account |-> a, category |-> c]}])

\* A new transaction, or another account, category or deleted_at for one.
SaveTransaction ==
  \E t \in Txn, a \in db.accounts, c \in Known(db.categories), gone \in BOOLEAN :
    Edit([db EXCEPT !.txns = [x \in {t} |-> [account |-> a, category |-> c, deleted |-> gone]] @@ @])

\* exchangePublicToken, at any time.
LinkItem ==
  /\ faults < MaxFaults /\ faults' = faults + 1
  /\ \E i \in Item \ (items \cup live) :
       /\ items' = items \cup {i} /\ live' = live \cup {i}
       /\ leaked' = IF restore.at = "revoke" THEN leaked \cup {i} ELSE leaked \ {i}
  /\ UNCHANGED <<requests, db, stream, backup, restore, edits, start, quiet>>

\* Disconnecting one bank by hand goes on when Plaid refuses or is not reached.
UnlinkItem ==
  /\ edits < MaxEdits /\ edits' = edits + 1
  /\ \E i \in items : items' = items \ {i} /\ live' = live \ {i}
  /\ UNCHANGED <<requests, db, stream, backup, restore, faults, start, quiet, leaked>>

UnlinkFault ==
  /\ faults < MaxFaults /\ faults' = faults + 1
  /\ \E i \in items : items' = items \ {i} /\ leaked' = leaked \cup {i}
  /\ UNCHANGED <<requests, db, live, stream, backup, restore, edits, start, quiet>>

-----------------------------------------------------------------------------
(* Export. *)

ExportUserData ==
  /\ requests < MaxRequests /\ requests' = requests + 1
  /\ stream.at \in {"none", "done"}
  /\ stream' = [NoStream EXCEPT !.at = "meta", !.unread = Tables]
  /\ start' = db /\ quiet' = TRUE
  /\ UNCHANGED <<db, items, live, backup, restore, edits, faults, leaked>>

\* The tables are read by statements of their own, in any order.
ExportMetadata ==
  /\ stream.at = "meta"
  /\ \E t \in stream.unread :
       stream' = [stream EXCEPT !.unread = @ \ {t}, !.meta[t] = db[t],
                                !.at = IF stream.unread = {t} THEN "pages" ELSE @]
  /\ UNCHANGED <<requests, db, items, live, backup, restore, edits, faults, start, quiet, leaked>>

\* The next rows after an id, in the order of ids, soft-deleted ones as well.
TransactionPage(after) ==
  LET ids == SetToSortSeq({t \in DOMAIN db.txns : t > after}, <)
  IN SubSeq(ids, 1, IF Len(ids) < PageSize THEN Len(ids) ELSE PageSize)

\* Mutant: a page that is full is taken for the last one.
FullPageIsLast(page) == Len(page) <= PageSize

LastPage(page) == Len(page) < PageSize

TransactionToBackupDto(t) == [id |-> t, row |-> [db.txns[t] EXCEPT !.deleted = FALSE]]

PullPage ==
  LET page == TransactionPage(stream.after) IN
  /\ stream.at = "pages"
  /\ stream' = [stream EXCEPT
       !.out = @ \o [i \in DOMAIN page |-> TransactionToBackupDto(page[i])],
       !.after = IF page = <<>> THEN @ ELSE Last(page),
       !.at = IF LastPage(page) THEN "last" ELSE @]
  /\ UNCHANGED <<requests, db, items, live, backup, restore, edits, faults, start, quiet, leaked>>

\* The file, as it will be read again.
Written(s) ==
  [accounts |-> s.meta.accounts, categories |-> s.meta.categories, rules |-> s.meta.rules,
   txns |-> [t \in {e.id : e \in ToSet(s.out)} |-> (CHOOSE e \in ToSet(s.out) : e.id = t).row]]

EndExport ==
  /\ stream.at = "last"
  /\ stream' = [stream EXCEPT !.at = "done"]
  /\ backup' = [at |-> "made", file |-> Written(stream)]
  /\ UNCHANGED <<requests, db, items, live, restore, edits, faults, start, quiet, leaked>>

-----------------------------------------------------------------------------
(* Restore and reset. *)

\* Every reference leads to a row of the backup or to a system category.
ValidateBackupReferences(p) == Closed(p)

Acyclic(cats) ==
  \A s \in SUBSET DOMAIN cats \ {{}} : \E c \in s : cats[c] \notin s

Restorable(p) == ValidateBackupReferences(p) /\ Acyclic(p.categories)

Idle(outcome) == [NoRestore EXCEPT !.outcome = outcome]

ImportUserData ==
  /\ requests < MaxRequests /\ requests' = requests + 1
  /\ restore.at = "idle"
  /\ \E p \in Foreign \cup (IF backup.at = "made" THEN {backup.file} ELSE {}) :
       restore' = IF ValidateBackupReferences(p)
                  THEN [at |-> "revoke", payload |-> p, queue |-> items, outcome |-> "none"]
                  ELSE Idle("refused")
  /\ UNCHANGED <<db, items, live, stream, backup, edits, faults, start, quiet, leaked>>

ResetUserData ==
  /\ requests < MaxRequests /\ requests' = requests + 1
  /\ restore.at = "idle"
  /\ restore' = [at |-> "revoke", payload |-> Nothing, queue |-> items, outcome |-> "none"]
  /\ UNCHANGED <<db, items, live, stream, backup, edits, faults, start, quiet, leaked>>

\* revokeAllItems: one after the other; Plaid refuses what it does not know,
\* and the first refusal ends the request.
RevokeItem ==
  /\ restore.at = "revoke"
  /\ \E i \in restore.queue :
       IF i \in live
       THEN live' = live \ {i} /\ restore' = [restore EXCEPT !.queue = @ \ {i}]
       ELSE restore' = Idle("unavailable") /\ UNCHANGED live
  /\ UNCHANGED <<requests, db, items, stream, backup, edits, faults, start, quiet, leaked>>

RevokeFault ==
  /\ restore.at = "revoke" /\ restore.queue # {}
  /\ faults < MaxFaults /\ faults' = faults + 1
  /\ restore' = Idle("unavailable")
  /\ UNCHANGED <<requests, db, items, live, stream, backup, edits, start, quiet, leaked>>

\* One transaction: everything is deleted, the backup inserted, parents before
\* their children.  A foreign key that leads nowhere rolls it back as well.
Replace ==
  LET p == restore.payload IN
  /\ restore.at = "revoke" /\ restore.queue = {}
  /\ IF Acyclic(p.categories) /\ Closed(p)
     THEN /\ db' = p /\ items' = {}
          /\ restore' = Idle("replaced")
          /\ quiet' = FALSE
          /\ start' = [start EXCEPT !.txns = [t \in DOMAIN @ \cap DOMAIN p.txns |-> @[t]]]
     ELSE /\ restore' = Idle(IF Closed(p) THEN "circular" ELSE "foreign key")
          /\ UNCHANGED <<db, items, quiet, start>>
  /\ UNCHANGED <<requests, live, stream, backup, edits, faults, leaked>>

Next ==
  \/ AddAccount \/ AddCategory \/ AddRule \/ SaveTransaction \/ LinkItem \/ UnlinkItem \/ UnlinkFault
  \/ ExportUserData \/ ExportMetadata \/ PullPage \/ EndExport
  \/ ImportUserData \/ ResetUserData \/ RevokeItem \/ RevokeFault \/ Replace

Spec == Init /\ [][Next]_vars

-----------------------------------------------------------------------------
Undeleted(d) == [d EXCEPT !.txns = [t \in DOMAIN d.txns |-> [d.txns[t] EXCEPT !.deleted = FALSE]]]

\* A finished export lists every transaction that was there all the time,
\* once, whatever was written meanwhile; if nothing was, it can be restored,
\* and restoring it gives what there was, with soft-deleted transactions back
\* among the others.  A restore that was validated fails only for circular
\* categories, and no connection that Plaid keeps open is forgotten, except
\* one made while the others were being revoked, or disconnected by hand
\* while Plaid did not answer.
BackupIsSound ==
  /\ stream.at = "done" =>
       /\ \A t \in DOMAIN start.txns : \E i \in DOMAIN stream.out : stream.out[i].id = t
       /\ \A i, j \in DOMAIN stream.out : i # j => stream.out[i].id # stream.out[j].id
       /\ quiet => Restorable(Written(stream)) /\ Written(stream) = Undeleted(start)
  /\ Closed(db) /\ restore.outcome # "foreign key"
  /\ live \subseteq items \cup leaked
=============================================================================
