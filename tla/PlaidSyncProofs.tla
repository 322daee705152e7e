-------------------------- MODULE PlaidSyncProofs --------------------------
(***************************************************************************)
(* NothingSkipped, RowsMatchCursor, DisconnectedIsShown and                *)
(* UserDecisionsKept hold of every instance of PlaidSync: any number of    *)
(* overlapping executions, accounts and transactions, any page size and    *)
(* any history of the bank.                                                *)
(*                                                                         *)
(* The rows are compared with the changes the bank reported up to the      *)
(* cursor.  Only the bank, a stored page and the user touch either side;   *)
(* for all other steps it is enough that they touch neither.               *)
(***************************************************************************)
EXTENDS PlaidSync, FiniteSetTheorems, TLAPS

\* Cursors are positions of the log, and an execution is never ahead of the item.
CursorsInLog ==
  /\ item.cursor <= Len(log)
  /\ \A s \in Syncers :
       /\ syncer[s].cursor <= item.cursor
       /\ syncer[s].at = "page" => syncer[s].cursor <= syncer[s].to /\ syncer[s].to <= Len(log)

\* The bank removes only what it had added.
DropsFollowPuts ==
  \A i \in DOMAIN log : log[i].op = "drop" =>
    \E j \in DOMAIN log : j < i /\ log[j] = [txn |-> log[i].txn, op |-> "put"]

\* Nothing can still write the status of a disconnected item unless it was in
\* progress when the item was disconnected.
NothingInProgress ==
  item.deleted /\ ~interrupted => ~webhook /\ \A s \in Syncers : syncer[s].at = "idle"

IInv ==
  /\ TypeOK
  /\ CursorsInLog
  /\ DropsFollowPuts
  /\ NothingInProgress
  /\ NothingSkipped
  /\ RowsMatchCursor
  /\ DisconnectedIsShown

\* The bounds are numbers.
LEMMA Bounds == MaxChanges \in Nat /\ MaxSyncs \in Nat /\ MaxEdits \in Nat
BY SyncAssumption
-----------------------------------------------------------------------------
(* Positions of the log. *)

\* Versions count at most the changes, and are positive once there was a put.
LEMMA VersionCounts ==
  ASSUME log \in Seq(Change), NEW t, NEW n
  PROVE  /\ Version(t, n) \in 0..Len(log)
         /\ Version(t, n) > 0 <=> Happened(t, "put", n) # {}
<1>1. Happened(t, "put", n) \in SUBSET (1..Len(log))
  BY DEF Happened
<1>2. /\ IsFiniteSet(1..Len(log)) /\ Cardinality(1..Len(log)) = Len(log)
      /\ Len(log) \in Nat
  <2>1. Len(log) \in Nat
    OBVIOUS
  <2>2. /\ IsFiniteSet(1..Len(log))
        /\ Cardinality(1..Len(log)) = IF 1 > Len(log) THEN 0 ELSE Len(log) - 1 + 1
    BY <2>1, FS_Interval
  <2> QED BY <2>1, <2>2
<1>3. /\ IsFiniteSet(Happened(t, "put", n))
      /\ Cardinality(Happened(t, "put", n)) <= Len(log)
  BY <1>1, <1>2, FS_Subset
<1>4. /\ Cardinality(Happened(t, "put", n)) \in Nat
      /\ Cardinality(Happened(t, "put", n)) = 0 <=> Happened(t, "put", n) = {}
  BY <1>3, FS_CardinalityType, FS_EmptySet
<1> QED BY <1>2, <1>3, <1>4 DEF Version

\* What happened up to a position is not changed by what the bank adds.
LEMMA PastIsFixed ==
  ASSUME log \in Seq(Change), NEW c \in Change, log' = Append(log, c),
         NEW n \in 0..Len(log)
  PROVE  \A t, op : {i \in DOMAIN log' : i <= n /\ log'[i] = [txn |-> t, op |-> op]}
                    = Happened(t, op, n)
<1>1. /\ DOMAIN log = 1..Len(log) /\ DOMAIN log' = 1..(Len(log) + 1)
      /\ Len(log) \in Nat
      /\ \A i \in 1..Len(log) : log'[i] = log[i]
  OBVIOUS
<1> TAKE t, op
<1>2. ASSUME NEW i
      PROVE  i \in DOMAIN log' /\ i <= n /\ log'[i] = [txn |-> t, op |-> op]
             <=> i \in DOMAIN log /\ i <= n /\ log[i] = [txn |-> t, op |-> op]
  BY <1>1
<1> QED BY <1>2 DEF Happened

\* A page from n to m holds what happened by m and had not by n.
LEMMA PageAdds ==
  ASSUME log \in Seq(Change), NEW n \in Nat, NEW m \in Nat, n <= m, NEW t, NEW op
  PROVE  /\ Happened(t, op, n) \subseteq Happened(t, op, m)
         /\ (\E i \in Happened(t, op, m) : i > n) \/ Happened(t, op, m) = Happened(t, op, n)
<1>1. ASSUME NEW i \in DOMAIN log PROVE i \in Nat
  BY <1>1
<1> QED BY <1>1 DEF Happened

\* What the bank removed it had added before.
LEMMA DroppedWasPut ==
  ASSUME log \in Seq(Change), DropsFollowPuts, NEW t, NEW n \in Nat, Dropped(t, n)
  PROVE  Version(t, n) > 0
<1>1. PICK i \in DOMAIN log : i <= n /\ log[i] = [txn |-> t, op |-> "drop"]
  BY DEF Dropped, Happened
<1>2. PICK j \in DOMAIN log : j < i /\ log[j] = [txn |-> t, op |-> "put"]
  BY <1>1 DEF DropsFollowPuts
<1>3. i \in Nat /\ j \in Nat
  OBVIOUS
<1>4. j \in Happened(t, "put", n)
  BY <1>1, <1>2, <1>3 DEF Happened
<1> QED BY <1>4, VersionCounts
-----------------------------------------------------------------------------
(* Steps. *)

\* A step that leaves the log, the accounts, the rows and the cursor alone keeps
\* what is said of them.
LEMMA TablesUntouched ==
  ASSUME IInv, TypeOK', CursorsInLog', NothingInProgress', DisconnectedIsShown',
         UNCHANGED <<log, account, row, overtaken>>, item'.cursor = item.cursor
  PROVE  IInv'
BY DEF IInv, DropsFollowPuts, NothingSkipped, RowsMatchCursor, Shown, Version, Dropped, Happened

\* The bank's changes come after the cursor.
LEMMA BankKeeps ==
  ASSUME IInv, NEW t \in Txns, NEW op \in {"put", "drop"}, BankChanges(t, op)
  PROVE  IInv'
<1> DEFINE c == [txn |-> t, op |-> op]
<1> USE DEF IInv
<1>1. /\ log \in Seq(Change) /\ c \in Change /\ log' = Append(log, c) /\ Len(log) < MaxChanges
      /\ UNCHANGED <<revoked, item, account, row, syncer, webhook, unlink, counters, history>>
      /\ item.cursor \in 0..Len(log) /\ MaxChanges \in Nat
  BY SyncAssumption DEF TypeOK, BankChanges, Change, CursorsInLog, Item
<1>2. /\ log' \in Seq(Change) /\ Len(log') = Len(log) + 1 /\ Len(log) \in Nat
      /\ DOMAIN log = 1..Len(log) /\ DOMAIN log' = 1..(Len(log) + 1)
      /\ \A i \in 1..Len(log) : log'[i] = log[i]
      /\ log'[Len(log) + 1] = c
  BY <1>1
<1>3. TypeOK'
  BY <1>1, <1>2 DEF TypeOK, counters, history
<1>4. CursorsInLog'
  <2>1. \A s \in Syncers : syncer[s].to \in Nat
    BY DEF TypeOK, Syncer
  <2> QED BY <1>1, <1>2, <2>1 DEF CursorsInLog
<1>5. DropsFollowPuts'
  <2> SUFFICES ASSUME NEW i \in DOMAIN log', log'[i].op = "drop"
               PROVE  \E j \in DOMAIN log' : j < i /\ log'[j] = [txn |-> log'[i].txn, op |-> "put"]
    BY DEF DropsFollowPuts
  <2>1. CASE i \in 1..Len(log)
    <3>1. PICK j \in DOMAIN log : j < i /\ log[j] = [txn |-> log[i].txn, op |-> "put"]
      BY <1>2, <2>1 DEF DropsFollowPuts
    <3> QED BY <1>2, <2>1, <3>1
  <2>2. CASE i = Len(log) + 1
    <3>1. Happened(t, "put", Len(log)) # {}
      BY <1>1, <1>2, <2>2, VersionCounts DEF BankChanges
    <3>2. PICK j \in DOMAIN log : log[j] = [txn |-> t, op |-> "put"]
      BY <3>1 DEF Happened
    <3> QED BY <1>2, <2>2, <3>2
  <2> QED BY <1>2, <2>1, <2>2
<1>6. \A u, o : {i \in DOMAIN log' : i <= item.cursor /\ log'[i] = [txn |-> u, op |-> o]}
                = Happened(u, o, item.cursor)
  BY <1>1, PastIsFixed
<1>7. \A u \in Txns : /\ Version(u, item.cursor)' = Version(u, item.cursor)
                      /\ Dropped(u, item.cursor)' = Dropped(u, item.cursor)
  <2>1. \A u, o : Happened(u, o, item.cursor)' = Happened(u, o, item.cursor)
    <3>1. item' = item
      BY <1>1
    <3>2. \A u, o : Happened(u, o, item.cursor)'
                   = {i \in DOMAIN log' : i <= item.cursor /\ log'[i] = [txn |-> u, op |-> o]}
      BY <3>1 DEF Happened
    <3> QED BY <1>6, <3>2
  <2> QED BY <2>1 DEF Version, Dropped
<1>8. NothingSkipped' /\ RowsMatchCursor'
  BY <1>1, <1>3, <1>7 DEF NothingSkipped, RowsMatchCursor, Shown, history
<1>9. NothingInProgress' /\ DisconnectedIsShown'
  BY <1>1 DEF NothingInProgress, DisconnectedIsShown, history
<1> QED BY <1>3, <1>4, <1>5, <1>8, <1>9

\* What a page makes of a row.
LEMMA PageStored ==
  ASSUME IInv, NEW s \in Syncers, syncer[s].at = "page", NEW t \in Txns, NEW auto \in SUBSET Txns
  PROVE  LET r == StoredRow(s, t, t \in auto) IN
         /\ r \in Row
         /\ row[t].at # "none" => r.at # "none"
         /\ row[t].override => r.override /\ r.category = row[t].category
         /\ Shown(t) /\ In(s, t, "put") => r.at # "none" /\ r.version = Version(t, syncer[s].to)
         /\ ~(Shown(t) /\ In(s, t, "put")) => r.version = row[t].version /\ (row[t].at = "none" => r.at = "none")
         /\ r.at = "removed" <=> \/ row[t].at = "removed"
                                 \/ r.at # "none" /\ In(s, t, "drop")
<1> DEFINE u == Upserted(s, t, t \in auto)
<1> USE DEF IInv
<1>1. row[t] \in Row
  BY DEF TypeOK
<1>2. Version(t, syncer[s].to) \in 0..MaxChanges
  BY SyncAssumption, VersionCounts DEF TypeOK
<1>3. /\ u \in Row
      /\ u.at = IF row[t].at = "none" THEN "live" ELSE row[t].at
      /\ u.version = Version(t, syncer[s].to)
      /\ u.override = row[t].override
      /\ row[t].override => u.category = row[t].category
  BY <1>1, <1>2 DEF Upserted, Row, RuleApplies
<1>4. t \in Changed(s) <=> Shown(t) /\ In(s, t, "put")
  BY DEF Changed, Shown
<1>5. CASE t \in Changed(s)
  BY <1>1, <1>3, <1>4, <1>5 DEF StoredRow, Row
<1>6. CASE t \notin Changed(s)
  BY <1>1, <1>4, <1>6 DEF StoredRow, Row
<1> QED BY <1>5, <1>6

\* A page that advances the cursor stores all that happened since; a late one
\* empties no row.
LEMMA StorePageKeeps ==
  ASSUME IInv, NEW s \in Syncers, NEW shown \in SUBSET Accounts, NEW auto \in SUBSET Txns,
         StorePage(s, shown, auto)
  PROVE  IInv'
<1> DEFINE advanced == item.cursor = syncer[s].cursor
           n == syncer[s].cursor
           m == syncer[s].to
<1> USE DEF IInv
<1>1. /\ syncer[s].at = "page" /\ syncer[s] \in Syncer /\ item \in Item
      /\ log \in Seq(Change) /\ Len(log) \in Nat /\ Len(log) <= MaxChanges
      /\ n \in Nat /\ m \in Nat /\ n <= m /\ m <= Len(log) /\ n <= item.cursor
      /\ item.cursor \in Nat /\ item.cursor <= Len(log) /\ MaxChanges \in Nat
  BY SyncAssumption DEF StorePage, TypeOK, Syncer, Item, CursorsInLog
<1>2. /\ account' = UpsertedAccounts(shown)
      /\ \A t \in Txns : row'[t] = StoredRow(s, t, t \in auto)
      /\ DOMAIN row' = Txns /\ row' = [t \in Txns |-> row'[t]]
      /\ item' = IF advanced THEN [item EXCEPT !.cursor = m] ELSE item
      /\ overtaken' = (overtaken \/ ~advanced)
      /\ UNCHANGED <<bank, webhook, unlink, counters, interrupted>>
  BY DEF StorePage, AdvancedTo
<1>3. \E at \in {"finishing", "fetching"}, completed \in BOOLEAN :
        syncer' = [syncer EXCEPT ![s].at = at, ![s].cursor = IF advanced THEN m ELSE @,
                                 ![s].completed = completed]
  BY DEF StorePage
<1>4. /\ account' \in [Accounts -> {"absent", "live", "removed"}]
      /\ \A a \in Accounts : account'[a] = "removed" <=> account[a] = "removed"
  BY <1>2 DEF UpsertedAccounts, TypeOK
<1>5. \A t \in Txns : Shown(t)' <=> Shown(t)
  BY <1>4, SyncAssumption DEF Shown
<1>6. item' \in Item /\ item'.cursor = (IF advanced THEN m ELSE item.cursor)
      /\ item'.status = item.status /\ item'.deleted = item.deleted
  BY <1>1, <1>2 DEF Item
<1>7. syncer' \in [Syncers -> Syncer]
  <2>1. syncer \in [Syncers -> Syncer] /\ m \in 0..MaxChanges
    BY <1>1 DEF TypeOK
  <2>2. PICK at \in {"finishing", "fetching"}, completed \in BOOLEAN :
          syncer' = [syncer EXCEPT ![s].at = at, ![s].cursor = IF advanced THEN m ELSE @,
                                   ![s].completed = completed]
    BY <1>3
  <2>3. CASE advanced
    BY <1>1, <2>1, <2>2, <2>3 DEF Syncer
  <2>4. CASE ~advanced
    BY <1>1, <2>1, <2>2, <2>4 DEF Syncer
  <2> QED BY <2>3, <2>4
<1>8. TypeOK'
  <2>1. row' \in [Txns -> Row]
    BY <1>1, <1>2, PageStored
  <2> QED BY <1>2, <1>4, <1>6, <1>7, <2>1 DEF TypeOK, bank, counters
<1>9. CursorsInLog'
  <2>1. syncer \in [Syncers -> Syncer]
    BY DEF TypeOK
  <2>2. \A x \in Syncers : x # s => syncer'[x] = syncer[x]
    BY <1>3, <2>1
  <2>3. /\ syncer'[s].at # "page"
        /\ syncer'[s].cursor = (IF advanced THEN m ELSE n)
    BY <1>1, <1>3, <2>1 DEF Syncer
  <2>4. \A x \in Syncers : syncer[x].cursor \in Nat
    BY <2>1 DEF Syncer
  <2> QED BY <1>1, <1>2, <1>6, <2>2, <2>3, <2>4 DEF CursorsInLog, bank
<1>10. DropsFollowPuts'
  BY <1>2 DEF DropsFollowPuts, bank
<1>11. NothingInProgress'
  BY <1>1, <1>2, <1>6 DEF NothingInProgress
<1>12. DisconnectedIsShown'
  BY <1>2, <1>6 DEF DisconnectedIsShown
\* By the new cursor there is at most what there was, and the page.
<1>13. ASSUME NEW t \in Txns, advanced
       PROVE  /\ Version(t, item.cursor)' = Version(t, m)
              /\ Dropped(t, item.cursor)' = Dropped(t, m)
              /\ In(s, t, "put") => Version(t, m) > 0
              /\ ~In(s, t, "put") => Version(t, m) = Version(t, item.cursor)
              /\ Dropped(t, m) <=> Dropped(t, item.cursor) \/ In(s, t, "drop")
  <2>1. log' = log /\ item'.cursor = m
    BY <1>2, <1>6, <1>13 DEF bank
  <2>2. \A op : /\ In(s, t, op) => Happened(t, op, m) # {}
                /\ ~In(s, t, op) => Happened(t, op, m) = Happened(t, op, item.cursor)
                /\ Happened(t, op, item.cursor) \subseteq Happened(t, op, m)
    BY <1>1, <1>13, PageAdds DEF In
  <2>3. \A op : Happened(t, op, item.cursor)' = Happened(t, op, m)
    BY <2>1 DEF Happened
  <2> QED BY <1>1, <2>2, <2>3, VersionCounts DEF Version, Dropped
<1>14. ASSUME NEW t \in Txns, ~advanced
       PROVE  /\ Version(t, item.cursor)' = Version(t, item.cursor)
              /\ Dropped(t, item.cursor)' = Dropped(t, item.cursor)
  <2>1. log' = log /\ item' = item
    BY <1>2, <1>14 DEF bank
  <2> QED BY <2>1 DEF Version, Dropped, Happened
<1>15. NothingSkipped'
  <2> SUFFICES ASSUME NEW t \in Txns, Version(t, item.cursor)' > 0, Shown(t)
               PROVE  row'[t].at # "none"
    BY <1>5 DEF NothingSkipped
  <2>1. row'[t] = StoredRow(s, t, t \in auto)
    BY <1>2
  <2>2. CASE Version(t, item.cursor) > 0
    BY <1>1, <2>1, <2>2, PageStored DEF NothingSkipped
  <2>3. CASE ~(Version(t, item.cursor) > 0)
    <3>1. In(s, t, "put")
      BY <1>13, <1>14, <2>3
    <3> QED BY <1>1, <2>1, <3>1, PageStored
  <2> QED BY <2>2, <2>3
<1>16. RowsMatchCursor'
  <2> SUFFICES ASSUME ~overtaken, advanced, NEW t \in Txns, Shown(t), row'[t].at # "none"
               PROVE  /\ row'[t].version = Version(t, item.cursor)'
                      /\ (row'[t].at = "removed") = Dropped(t, item.cursor)'
    BY <1>2, <1>5, <1>8 DEF RowsMatchCursor
  <2> DEFINE r == StoredRow(s, t, t \in auto)
  <2>1. /\ row'[t] = r
        /\ In(s, t, "put") => r.version = Version(t, m)
        /\ ~In(s, t, "put") => r.version = row[t].version /\ row[t].at # "none"
        /\ r.at = "removed" <=> row[t].at = "removed" \/ In(s, t, "drop")
    BY <1>1, <1>2, PageStored
  <2>2. row[t].at # "none" => /\ row[t].version = Version(t, item.cursor)
                              /\ (row[t].at = "removed") = Dropped(t, item.cursor)
    BY DEF RowsMatchCursor
  <2>3. row[t].at = "none" => ~Dropped(t, item.cursor)
    BY <1>1, DroppedWasPut DEF NothingSkipped
  <2>4. row'[t].version = Version(t, m)
    BY <1>13, <2>1, <2>2
  <2>5. r.at = "removed" <=> Dropped(t, m)
    BY <1>13, <2>1, <2>2, <2>3
  <2>6. (row'[t].at = "removed") = Dropped(t, m)
    BY <2>1, <2>5 DEF Dropped
  <2>7. Version(t, item.cursor)' = Version(t, m) /\ Dropped(t, item.cursor)' = Dropped(t, m)
    BY <1>13
  <2> QED BY <2>4, <2>6, <2>7
<1> QED BY <1>8, <1>9, <1>10, <1>11, <1>12, <1>15, <1>16

\* What the user does changes neither the log nor the cursor, shows no account
\* again and empties no row.
LEMMA UserKeeps ==
  ASSUME IInv,
         \/ \E t \in Txns, c \in {"none", "user"} : EditCategory(t, c)
         \/ \E a \in Accounts : RemoveAccount(a)
  PROVE  IInv'
<1> USE DEF IInv
<1>1. /\ UNCHANGED <<log, revoked, item, syncer, webhook, overtaken, interrupted, started>>
      /\ edits' \in 0..MaxEdits
  <2>1. edits \in 0..MaxEdits
    BY DEF TypeOK
  <2>2. ASSUME NEW t \in Txns, NEW c \in {"none", "user"}, EditCategory(t, c)
        PROVE  <1>1!:
    BY <2>1, <2>2, Bounds DEF EditCategory, bank, history
  <2>3. ASSUME NEW a \in Accounts, RemoveAccount(a)
        PROVE  <1>1!:
    BY <2>1, <2>3, Bounds DEF RemoveAccount, bank, history
  <2> QED BY <2>2, <2>3
<1>2. /\ row' \in [Txns -> Row] /\ account' \in [Accounts -> {"absent", "live", "removed"}]
      /\ unlink' \in {"none", "decided", "revoked"}
      /\ \A t \in Txns : row'[t].at = row[t].at /\ row'[t].version = row[t].version
      /\ \A a \in Accounts : account[a] = "removed" => account'[a] = "removed"
  <2>1. ASSUME NEW t \in Txns, NEW c \in {"none", "user"}, EditCategory(t, c)
        PROVE  <1>2!:
    BY <2>1 DEF EditCategory, TypeOK, Row
  <2>2. ASSUME NEW a \in Accounts, RemoveAccount(a)
        PROVE  <1>2!:
    BY <2>2 DEF RemoveAccount, TypeOK
  <2> QED BY <2>1, <2>2
<1>3. TypeOK'
  BY <1>1, <1>2 DEF TypeOK
<1>4. \A t \in Txns : Shown(t)' => Shown(t)
  BY <1>2, SyncAssumption DEF Shown
<1>5. \A t : /\ Version(t, item.cursor)' = Version(t, item.cursor)
             /\ Dropped(t, item.cursor)' = Dropped(t, item.cursor)
  <2>1. log' = log /\ item' = item
    BY <1>1
  <2> QED BY <2>1 DEF Version, Dropped, Happened
<1>6. NothingSkipped' /\ RowsMatchCursor'
  BY <1>1, <1>2, <1>3, <1>4, <1>5 DEF NothingSkipped, RowsMatchCursor
<1>7. CursorsInLog' /\ DropsFollowPuts' /\ NothingInProgress' /\ DisconnectedIsShown'
  BY <1>1 DEF CursorsInLog, DropsFollowPuts, NothingInProgress, DisconnectedIsShown
<1> QED BY <1>3, <1>6, <1>7

\* Executions on their way between two pages; what writes the status was in
\* progress before the item was disconnected.
LEMMA ProgressKeeps ==
  ASSUME IInv, NEW s \in Syncers,
         Start(s) \/ Fetch(s) \/ FetchFails(s) \/ Finish(s) \/ SyncAborts(s)
  PROVE  IInv'
<1> USE DEF IInv
<1>1. /\ UNCHANGED <<bank, account, row, webhook, unlink, edits, history>>
      /\ started' \in 0..MaxSyncs
      /\ \/ item' = item
         \/ syncer[s].at # "idle" /\ \E st \in {"active", "broken"} : item' = [item EXCEPT !.status = st]
  BY SyncAssumption DEF Start, Fetch, FetchFails, Finish, SyncAborts, counters, TypeOK
<1>2. /\ item \in Item /\ item.cursor \in Nat /\ item.cursor <= Len(log)
      /\ log \in Seq(Change) /\ Len(log) \in Nat /\ Len(log) <= MaxChanges /\ MaxChanges \in Nat
      /\ syncer \in [Syncers -> Syncer] /\ PageSize \in Nat \ {0}
  BY SyncAssumption DEF TypeOK, Item, CursorsInLog
<1>3. item' \in Item /\ item'.cursor = item.cursor /\ item'.deleted = item.deleted
  BY <1>1, <1>2 DEF Item
<1>4. \E y \in Syncer :
        /\ syncer' = [syncer EXCEPT ![s] = y]
        /\ y.cursor <= item.cursor
        /\ y.at = "page" => y.cursor <= y.to /\ y.to <= Len(log)
        /\ item.deleted /\ syncer[s].at = "idle" => y.at = "idle"
  <2>1. Idle \in Syncer /\ Idle.cursor = 0 /\ Idle.at = "idle"
    BY <1>2 DEF Idle, Syncer
  <2>2. CASE Start(s)
    <3>1. PICK b \in BOOLEAN :
            syncer' = [syncer EXCEPT ![s] = [Idle EXCEPT !.at = "fetching",
                         !.cursor = item.cursor, !.wasActive = b]]
      BY <2>2 DEF Start
    <3> DEFINE y == [Idle EXCEPT !.at = "fetching", !.cursor = item.cursor, !.wasActive = b]
    <3>2. y \in Syncer /\ y.cursor = item.cursor /\ y.at = "fetching"
      BY <1>2, <2>1 DEF Syncer, Item
    <3>3. syncer' = [syncer EXCEPT ![s] = y] /\ ~item.deleted
      BY <2>2, <3>1 DEF Start, Found
    <3>4. /\ y.cursor <= item.cursor
          /\ y.at # "page"
          /\ ~(item.deleted /\ syncer[s].at = "idle")
      BY <1>2, <3>2, <3>3
    <3> HIDE DEF y
    <3> QED BY <3>2, <3>3, <3>4
  <2>3. CASE Fetch(s)
    <3> DEFINE to == PageEnd(syncer[s].cursor)
    <3>1. /\ syncer[s] \in Syncer /\ syncer[s].cursor \in Nat /\ syncer[s].at = "fetching"
          /\ syncer[s].cursor <= item.cursor
      BY <1>2, <2>3 DEF Fetch, Syncer, CursorsInLog
    <3>2. to \in 0..MaxChanges /\ syncer[s].cursor <= to /\ to <= Len(log)
      BY <1>2, <3>1 DEF PageEnd
    <3>3. PICK more \in BOOLEAN :
            syncer' = [syncer EXCEPT ![s].at = "page", ![s].to = to, ![s].more = more]
      <4>1. syncer' = [syncer EXCEPT ![s].at = "page", ![s].to = to, ![s].more = to < Len(log)]
        BY <2>3 DEF Fetch
      <4>2. (to < Len(log)) \in BOOLEAN
        OBVIOUS
      <4> QED BY <4>1, <4>2
    <3> DEFINE y == [syncer[s] EXCEPT !.at = "page", !.to = to, !.more = more]
    <3>4. y \in Syncer /\ y.cursor = syncer[s].cursor /\ y.to = to
      BY <3>1, <3>2 DEF Syncer
    <3>5. syncer' = [syncer EXCEPT ![s] = y]
      BY <1>2, <3>3
    <3> HIDE DEF y
    <3> QED BY <3>1, <3>2, <3>4, <3>5
  <2>4. CASE FetchFails(s) \/ Finish(s) \/ SyncAborts(s)
    BY <1>2, <2>1, <2>4 DEF FetchFails, Finish, SyncAborts
  <2> QED BY <2>2, <2>3, <2>4
<1>5. PICK y \in Syncer :
        /\ syncer' = [syncer EXCEPT ![s] = y]
        /\ y.cursor <= item.cursor
        /\ y.at = "page" => y.cursor <= y.to /\ y.to <= Len(log)
        /\ item.deleted /\ syncer[s].at = "idle" => y.at = "idle"
  BY <1>4
<1>6. TypeOK'
  BY <1>1, <1>2, <1>3, <1>5 DEF TypeOK, bank, history
<1>7. CursorsInLog'
  BY <1>1, <1>2, <1>3, <1>5 DEF CursorsInLog, bank
<1>8. NothingInProgress'
  BY <1>1, <1>2, <1>3, <1>5 DEF NothingInProgress, history
<1>9. DisconnectedIsShown'
  BY <1>1, <1>3 DEF DisconnectedIsShown, NothingInProgress, history
<1> QED BY <1>1, <1>3, <1>6, <1>7, <1>8, <1>9, TablesUntouched DEF bank, history

\* Webhooks and disconnections.
LEMMA StatusKeeps ==
  ASSUME IInv,
         \/ WebhookArrives \/ AskUnlink \/ Disconnect \/ UnlinkAbandoned
         \/ \E status \in {"active", "broken"} : WebhookMarks(status)
         \/ \E success \in BOOLEAN : Revoke(success)
  PROVE  IInv'
<1> USE DEF IInv
<1>1. /\ UNCHANGED <<log, account, row, syncer, started, overtaken>>
      /\ item'.cursor = item.cursor /\ item' \in Item
      /\ edits' \in 0..MaxEdits /\ revoked' \in BOOLEAN /\ webhook' \in BOOLEAN
      /\ unlink' \in {"none", "decided", "revoked"} /\ interrupted' \in BOOLEAN
  <2>1. CASE WebhookArrives \/ UnlinkAbandoned
    BY <2>1 DEF WebhookArrives, UnlinkAbandoned, TypeOK, Item, bank, counters, history
  <2>5. CASE AskUnlink
    BY <2>5, Bounds DEF AskUnlink, TypeOK, Item, bank, history
  <2>2. CASE Disconnect
    BY <2>2 DEF Disconnect, TypeOK, Item, bank, counters
  <2>3. CASE \E status \in {"active", "broken"} : WebhookMarks(status)
    BY <2>3 DEF WebhookMarks, TypeOK, Item, bank, counters, history
  <2>4. CASE \E success \in BOOLEAN : Revoke(success)
    BY <2>4 DEF Revoke, TypeOK, Item, counters, history
  <2> QED BY <2>1, <2>2, <2>3, <2>4, <2>5
<1>2. TypeOK'
  BY <1>1 DEF TypeOK
<1>3. CursorsInLog'
  BY <1>1 DEF CursorsInLog
<1>4. NothingInProgress' /\ DisconnectedIsShown'
  <2>1. CASE WebhookArrives \/ AskUnlink \/ UnlinkAbandoned
    BY <2>1 DEF WebhookArrives, AskUnlink, UnlinkAbandoned, NothingInProgress,
       DisconnectedIsShown, history
  <2>2. CASE Disconnect
    BY <2>2 DEF Disconnect, NothingInProgress, DisconnectedIsShown, TypeOK, Item
  <2>3. CASE \E status \in {"active", "broken"} : WebhookMarks(status)
    BY <2>3 DEF WebhookMarks, NothingInProgress, DisconnectedIsShown, TypeOK, Item, history
  <2>4. CASE \E success \in BOOLEAN : Revoke(success)
    BY <2>4 DEF Revoke, NothingInProgress, DisconnectedIsShown, history
  <2> QED BY <2>1, <2>2, <2>3, <2>4
<1> QED BY <1>1, <1>2, <1>3, <1>4, TablesUntouched
-----------------------------------------------------------------------------
(* The theorems. *)

\* A new connection has stored all of an empty history.
LEMMA InitSafe == Init => IInv
<1> SUFFICES ASSUME Init PROVE IInv
  OBVIOUS
<1> USE Bounds DEF Init
<1>1. log \in Seq(Change) /\ Len(log) = 0 /\ DOMAIN log = {}
  OBVIOUS
<1>2. TypeOK
  <2>1. item \in Item
    BY DEF Item
  <2>2. row \in [Txns -> Row]
    BY DEF Row
  <2>3. syncer \in [Syncers -> Syncer]
    BY DEF Syncer, Idle
  <2>4. log \in Seq(Change) /\ Len(log) <= MaxChanges
    BY <1>1
  <2>5. account \in [Accounts -> {"absent", "live", "removed"}]
    OBVIOUS
  <2>6. revoked \in BOOLEAN /\ webhook \in BOOLEAN /\ overtaken \in BOOLEAN /\ interrupted \in BOOLEAN
    OBVIOUS
  <2>7. unlink \in {"none", "decided", "revoked"} /\ started \in 0..MaxSyncs /\ edits \in 0..MaxEdits
    OBVIOUS
  <2> HIDE DEF Init
  <2> QED BY <2>1, <2>2, <2>3, <2>4, <2>5, <2>6, <2>7 DEF TypeOK
<1>3. CursorsInLog /\ DropsFollowPuts
  BY <1>1 DEF CursorsInLog, DropsFollowPuts, Idle
<1>4. NothingInProgress /\ DisconnectedIsShown
  BY DEF NothingInProgress, DisconnectedIsShown
<1>5. NothingSkipped
  BY <1>1, VersionCounts DEF NothingSkipped, Happened
<1>6. RowsMatchCursor
  BY <1>2 DEF RowsMatchCursor
<1> QED BY <1>2, <1>3, <1>4, <1>5, <1>6 DEF IInv

\* Every step preserves the invariant.
LEMMA InvNext ==
  ASSUME IInv, [Next]_vars
  PROVE  IInv'
<1>1. CASE UNCHANGED vars
  <2>1. TypeOK' /\ CursorsInLog' /\ NothingInProgress' /\ DisconnectedIsShown'
    BY <1>1 DEF vars, bank, counters, history, IInv, TypeOK, CursorsInLog, NothingInProgress,
       DisconnectedIsShown
  <2> QED BY <1>1, <2>1, TablesUntouched DEF vars, bank, history
<1>2. CASE \E t \in Txns, op \in {"put", "drop"} : BankChanges(t, op)
  BY <1>2, BankKeeps
<1>3. ASSUME NEW s \in Syncers, SyncStep(s)
      PROVE  IInv'
  BY <1>3, ProgressKeeps, StorePageKeeps DEF SyncStep
<1>4. CASE WebhookArrives \/ (\E status \in {"active", "broken"} : WebhookMarks(status)) \/ UserStep
  BY <1>4, StatusKeeps, UserKeeps DEF UserStep
<1> QED BY <1>1, <1>2, <1>3, <1>4 DEF Next

\* The invariant holds throughout.
THEOREM InvariantHolds == Spec => []IInv
BY InitSafe, InvNext, PTL DEF Spec

\* The cursor never passes a change that was not stored.
THEOREM NothingIsSkipped == Spec => []NothingSkipped
<1>1. IInv => NothingSkipped
  BY DEF IInv
<1> QED BY <1>1, InvariantHolds, PTL

\* Unless a late page was stored, the rows are what the bank reported.
THEOREM RowsAreExact == Spec => []RowsMatchCursor
<1>1. IInv => RowsMatchCursor
  BY DEF IInv
<1> QED BY <1>1, InvariantHolds, PTL

\* A disconnection nothing interrupted is shown as such.
THEOREM DisconnectionIsShown == Spec => []DisconnectedIsShown
<1>1. IInv => DisconnectedIsShown
  BY DEF IInv
<1> QED BY <1>1, InvariantHolds, PTL

\* No synchronization undoes what the user decided.
THEOREM DecisionsAreKept == Spec => UserDecisionsKept
<1> DEFINE ChoiceKept(t) ==
             row[t].override /\ row'[t] # row[t] =>
               row'[t].category = row[t].category \/ edits' > edits
           RemovalKept(t) ==
             account[AccountOf[t]] = "removed" =>
               /\ account'[AccountOf[t]] = "removed"
               /\ row[t].at = "none" => row'[t].at = "none"
<1>1. ASSUME IInv, [Next]_vars
      PROVE  \A t \in Txns : ChoiceKept(t) /\ RemovalKept(t)
  <2> USE <1>1 DEF IInv
  <2>1. /\ edits \in Nat /\ row \in [Txns -> Row]
        /\ account \in [Accounts -> {"absent", "live", "removed"}]
        /\ \A t \in Txns : AccountOf[t] \in Accounts
    BY SyncAssumption DEF TypeOK
  <2>2. CASE UNCHANGED <<account, row>>
    BY <2>2
  <2>3. ASSUME NEW s \in Syncers, NEW shown \in SUBSET Accounts, NEW auto \in SUBSET Txns,
               StorePage(s, shown, auto)
        PROVE  \A t \in Txns : ChoiceKept(t) /\ RemovalKept(t)
    <3> TAKE t \in Txns
    <3>1. /\ account' = UpsertedAccounts(shown) /\ row'[t] = StoredRow(s, t, t \in auto)
          /\ syncer[s].at = "page"
      BY <2>3 DEF StorePage
    <3>2. ChoiceKept(t)
      BY <3>1, PageStored
    <3>3. RemovalKept(t)
      BY <2>1, <3>1, PageStored DEF UpsertedAccounts, Shown
    <3> QED BY <3>2, <3>3
  <2>4. CASE \E u \in Txns, c \in {"none", "user"} : EditCategory(u, c)
    BY <2>1, <2>4 DEF EditCategory, Row
  <2>5. CASE \E a \in Accounts : RemoveAccount(a)
    BY <2>1, <2>5 DEF RemoveAccount
  <2>6. ASSUME NEW s \in Syncers, SyncStep(s)
        PROVE  UNCHANGED <<account, row>>
               \/ \E shown \in SUBSET Accounts, auto \in SUBSET Txns : StorePage(s, shown, auto)
    BY <2>6 DEF SyncStep, Start, Fetch, FetchFails, Finish, SyncAborts
  <2>7. CASE \/ UNCHANGED vars \/ WebhookArrives \/ AskUnlink \/ Disconnect \/ UnlinkAbandoned
             \/ (\E t \in Txns, op \in {"put", "drop"} : BankChanges(t, op))
             \/ (\E status \in {"active", "broken"} : WebhookMarks(status))
             \/ \E success \in BOOLEAN : Revoke(success)
    BY <2>2, <2>7 DEF vars, WebhookArrives, AskUnlink, Disconnect, UnlinkAbandoned,
       BankChanges, WebhookMarks, Revoke
  <2> QED BY <2>2, <2>3, <2>4, <2>5, <2>6, <2>7 DEF Next, UserStep
<1>2. IInv /\ [Next]_vars => [/\ \A t \in Txns : ChoiceKept(t)
                              /\ \A t \in Txns : RemovalKept(t)]_vars
  BY <1>1
<1> QED BY <1>2, InvariantHolds, PTL DEF Spec, UserDecisionsKept
=============================================================================
