--------------------------- MODULE AccountLinking ---------------------------
(***************************************************************************)
(* Bank connections and the accounts stored for them: linking, relinking,  *)
(* disconnecting, removing accounts, and the take-over of a removed        *)
(* account with its history (plaid.service.ts, plaid-items.repository.ts,  *)
(* accounts.service.ts, accounts.repository.ts and                         *)
(* adoptRelinkedTransactions of transactions.repository.ts).               *)
(*                                                                         *)
(* One user and one institution.  The bank knows accounts; each connection *)
(* names them with Plaid ids of its own, or with those of an earlier       *)
(* connection.  Every write of accounts is a transaction that holds the    *)
(* locks of the account row and of its connection, so it is one step; a    *)
(* link, and a removal that disconnects, take several of them.             *)
(***************************************************************************)
EXTENDS Integers, Sequences, FiniteSets

CONSTANTS
  Real,       \* accounts at the bank
  Masked,     \* those the bank reports with a mask, which tells them apart
  N,          \* how many transactions each has, alike in date, amount and name
  MaxItems,   \* bound: connections ever made
  MaxEvents   \* bound: commands of the user

VARIABLES
  item,      \* plaid_items
  row,       \* accounts, in the order of their creation
  txns,      \* transactions
  link,      \* the executions of exchangePublicToken
  unlinking, \* connections whose last account removeAccount has removed
  parted,    \* history: connections the user disconnected
  late,      \* history: connections that got an account while unlinking
  doubled,   \* history: accounts that two connections had at once
  events

vars == <<item, row, txns, link, unlinking, parted, late, doubled, events>>

Links == 1..2
Items == 1..Len(item)
Pid == (1..MaxItems) \X Real     \* Plaid's id of an account
ItemRow == [live : BOOLEAN, has : SUBSET Real, issuer : 1..MaxItems]
AccountRow == [pid : Pid, item : 1..MaxItems, deleted : BOOLEAN]
\* id: Plaid's id of the transaction; from: the account id in the stored payload.
Txn == [id : (1..MaxItems) \X Real \X Nat, account : Nat, from : Pid]

RealOf(x) == row[x].pid[2]
PidIn(i, r) == <<item[i].issuer, r>>

Init ==
  /\ item = << >> /\ row = << >> /\ txns = {}
  /\ link = [e \in Links |-> [at |-> "idle", item |-> 0, todo |-> {}]]
  /\ unlinking = {} /\ parted = {} /\ late = {} /\ doubled = {}
  /\ events = 0

-----------------------------------------------------------------------------
(* performUpsertFromPlaid. *)

WithPid(p) == {x \in DOMAIN row : row[x].pid = p}

\* The row's own connection never brings a removed account back.
KeptDeleted(x, i) == row[x].item = i /\ row[x].deleted

DormantTwins(i, r) ==
  {x \in DOMAIN row : r \in Masked /\ RealOf(x) = r /\ row[x].deleted /\ row[x].item # i}

\* The account the rows hold under the connection's id, or the one removed
\* account that looks the same, or a new row.
UpsertFromPlaid(i, r) ==
  LET p == PidIn(i, r)
      same == WithPid(p)
      twins == DormantTwins(i, r)
      Put(x, d) == [row EXCEPT ![x] = [pid |-> p, item |-> i, deleted |-> d]]
  IN IF same # {} THEN LET x == CHOOSE x \in same : TRUE IN Put(x, KeptDeleted(x, i))
     ELSE IF Cardinality(twins) = 1 THEN Put(CHOOSE x \in twins : TRUE, FALSE)
     ELSE Append(row, [pid |-> p, item |-> i, deleted |-> FALSE])

Upserted(i, r) ==
  /\ item[i].live
  /\ row' = UpsertFromPlaid(i, r)
  /\ late' = IF i \in unlinking /\ \E x \in DOMAIN row' : row'[x].item = i /\ ~row'[x].deleted
             THEN late \cup {i} ELSE late

-----------------------------------------------------------------------------
(* exchangePublicToken. *)

Counted == events < MaxEvents /\ events' = events + 1

FindLiveAccountMatches(reals) ==
  {x \in DOMAIN row : /\ ~row[x].deleted /\ item[row[x].item].live
                      /\ RealOf(x) \in reals \cap Masked}

\* The user picked the accounts to share; a known one refuses the link.
CheckDuplicates(e, reals) ==
  /\ Counted
  /\ reals # {}
  /\ link[e].at = "idle" /\ \A d \in Links : d < e => link[d].at # "idle"
  /\ FindLiveAccountMatches(reals) = {}
  /\ link' = [link EXCEPT ![e] = [at |-> "checked", item |-> 0, todo |-> reals]]
  /\ UNCHANGED <<item, row, txns, unlinking, parted, late, doubled>>

Shared(r) == {i \in DOMAIN item' : item'[i].live /\ r \in item'[i].has}

Doubled == doubled' = doubled \cup {r \in Real : Cardinality(Shared(r)) > 1}

\* The bank issues new account ids, or those of an earlier connection.
Create(e) ==
  /\ link[e].at = "checked"
  /\ Len(item) < MaxItems
  /\ \E issuer \in {Len(item) + 1} \cup {i \in Items : item[i].issuer = i /\ ~item[i].live} :
       item' = Append(item, [live |-> TRUE, has |-> link[e].todo, issuer |-> issuer])
  /\ link' = [link EXCEPT ![e].at = "backfill", ![e].item = Len(item) + 1]
  /\ Doubled
  /\ UNCHANGED <<row, txns, unlinking, parted, late, events>>

\* One transaction for each account; a failure leaves the rest to the syncs.
Backfill(e) ==
  /\ link[e].at = "backfill"
  /\ \/ \E r \in link[e].todo :
          /\ Upserted(link[e].item, r)
          /\ link' = [link EXCEPT ![e].todo = @ \ {r}]
     \/ /\ link' = [link EXCEPT ![e] = [at |-> "idle", item |-> 0, todo |-> {}]]
        /\ UNCHANGED <<row, late>>
  /\ UNCHANGED <<item, txns, unlinking, parted, doubled, events>>

\* In update mode the user shares another account.
ShareMore(i, r) ==
  /\ Counted
  /\ item[i].live /\ r \notin item[i].has
  /\ item' = [item EXCEPT ![i].has = @ \cup {r}]
  /\ Doubled
  /\ UNCHANGED <<row, txns, link, unlinking, parted, late>>

-----------------------------------------------------------------------------
(* A page of the synchronization: the account, and no or one transaction. *)

\* Mutant: any row that looks the same is adopted.
FromAnywhere(x) == {t \in txns : t.account = x}

\* Rows whose payload names another account id than the row's current one.
FromBefore(x) == {t \in txns : t.account = x /\ t.from # row'[x].pid}

\* An unseen id adopts a row from before the take-over.
UpsertTransaction(x, n) ==
  LET t == [id |-> Append(row'[x].pid, n), account |-> x, from |-> row'[x].pid]
      known == \E u \in txns : u.id = t.id
  IN IF known \/ FromBefore(x) = {}
     THEN txns' = {u \in txns : u.id # t.id} \cup {t}
     ELSE \E u \in FromBefore(x) : txns' = (txns \ {u}) \cup {t}

\* A removed account gets no transactions.
Sync(i, r, n) ==
  /\ r \in item[i].has
  /\ Upserted(i, r)
  /\ LET x == CHOOSE x \in DOMAIN row' : row'[x].pid = PidIn(i, r)
     IN IF row'[x].deleted \/ n = 0 THEN UNCHANGED txns ELSE UpsertTransaction(x, n)
  /\ UNCHANGED <<item, link, unlinking, parted, doubled, events>>

-----------------------------------------------------------------------------
(* Removing accounts and connections. *)

CountLiveByItem(i) == Cardinality({x \in DOMAIN row' : row'[x].item = i /\ ~row'[x].deleted})

LastOne(i) == item[i].live /\ CountLiveByItem(i) = 0

RemoveAccount(x) ==
  /\ Counted
  /\ ~row[x].deleted
  /\ row' = [row EXCEPT ![x].deleted = TRUE]
  /\ unlinking' = IF LastOne(row[x].item) THEN unlinking \cup {row[x].item} ELSE unlinking
  /\ UNCHANGED <<item, txns, link, parted, late, doubled>>

\* After the removal has committed; a failure is logged and the connection stays.
UnlinkActiveItem(i) ==
  /\ i \in unlinking
  /\ unlinking' = unlinking \ {i}
  /\ \/ item' = [item EXCEPT ![i].live = FALSE]
     \/ UNCHANGED item
  /\ UNCHANGED <<row, txns, link, parted, late, doubled, events>>

\* The accounts of a disconnected item stay.
UnlinkItem(i) ==
  /\ Counted
  /\ item[i].live
  /\ item' = [item EXCEPT ![i].live = FALSE]
  /\ parted' = parted \cup {i}
  /\ UNCHANGED <<row, txns, link, unlinking, late, doubled>>

Next ==
  \/ \E e \in Links : \/ \E reals \in SUBSET Real : CheckDuplicates(e, reals)
                      \/ Create(e) \/ Backfill(e)
  \/ \E i \in Items : \/ \E r \in Real : ShareMore(i, r) \/ \E n \in 0..N[r] : Sync(i, r, n)
                      \/ UnlinkItem(i) \/ UnlinkActiveItem(i)
  \/ \E x \in DOMAIN row : RemoveAccount(x)

Spec == Init /\ [][Next]_vars

-----------------------------------------------------------------------------
TypeOK ==
  /\ \A i \in Items : item[i] \in ItemRow
  /\ \A x \in DOMAIN row : row[x] \in AccountRow
  /\ txns \subseteq Txn
  /\ unlinking \cup parted \cup late \subseteq Items

Visible(x) == {t \in txns : t.account = x}

\* What a relink promises, whatever order links, syncs and removals come in:
\* an account row shows each transaction of its account once, also when
\* several connections in turn sent the history under ids of their own (two
\* at once may each add their copies); no two rows answer to one account id;
\* and an account that is in the lists is
\* on a connection that still syncs, unless the user disconnected it or it
\* arrived while the connection's last account was being removed.
HistoryIsTakenOver ==
  /\ TypeOK
  /\ \A x \in DOMAIN row : RealOf(x) \in doubled \/ Cardinality(Visible(x)) <= N[RealOf(x)]
  /\ \A x, y \in DOMAIN row : row[x].pid = row[y].pid => x = y
  /\ \A x \in DOMAIN row : ~row[x].deleted =>
       item[row[x].item].live \/ row[x].item \in parted \cup late

\* A removed account is only brought back by another connection than its own,
\* and then with the row it had, never by a sync of the connection it was
\* removed from.
RemovedStaysRemoved ==
  \A x \in DOMAIN row : row[x].deleted /\ ~row'[x].deleted => row'[x].item # row[x].item

\* A transaction that arrived under the account's present id is kept: adopting
\* the history never takes the row of one the new connection delivered.
DeliveredIsKept ==
  \A t \in txns : t.from = row'[t.account].pid =>
    \E u \in txns' : u.id = t.id /\ u.account = t.account

\* The three together: what removing, relinking and synchronizing promise.
RelinkKeepsAccounts == []HistoryIsTakenOver /\ [][RemovedStaysRemoved /\ DeliveredIsKept]_vars
=============================================================================
