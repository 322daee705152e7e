---------------------------- MODULE ManualLedger ----------------------------
(***************************************************************************)
(* Transactions that the user enters on accounts kept by hand, and the     *)
(* balances they move (createManualTransaction, patchTransaction and       *)
(* deleteManualTransaction of transactions.service.ts over                 *)
(* manual-transactions.repository.ts, the archiving of accounts.service.ts *)
(* and the sign rules of account-balance.ts).                              *)
(*                                                                         *)
(* Requests run as database transactions side by side.  Each lock they     *)
(* take is a step, and so is the commit, which reads and writes only rows  *)
(* the request has locked.                                                 *)
(***************************************************************************)
EXTENDS Integers, Sequences, FiniteSetsExt

CONSTANTS
  Account,     \* numbers, ordered as the ids are
  Card,        \* the accounts that hold what is owed
  Amount,      \* what a request may enter; positive leaves the account
  Key,         \* idempotency keys
  Client,      \* requests that run at once
  MaxRequests  \* bound

ASSUME LedgerAssumption == Account \subseteq Nat /\ Amount \subseteq Int

VARIABLES
  account,  \* balance and whether archived
  txn,      \* manual transactions in the order of their creation
  key,      \* transaction_idempotency_keys
  req,      \* what each client's request does, and the rows it has locked
  replies,  \* history: the transactions named in answers to each key
  started

vars == <<account, txn, key, req, replies, started>>

None == [op |-> "none", at |-> "none", locks |-> {}]
Body == [account : Account, amount : Amount]
Rows == DOMAIN txn

Init ==
  /\ account = [a \in Account |-> [balance |-> 0, archived |-> FALSE]]
  /\ txn = << >>
  /\ key = [k \in Key |-> << >>]
  /\ req = [c \in Client |-> None]
  /\ replies = [k \in Key |-> {}]
  /\ started = 0

ManualBalanceDelta(a, amount) == IF a \in Card THEN amount ELSE -amount

\* What a balance may be: a card owes nothing or something.
Normalized(a, balance) == a \in Card => balance >= 0

-----------------------------------------------------------------------------
(* Row locks. *)

Held(lock) == \E c \in Client : lock \in req[c].locks

\* Waits for the row, and goes on to the next step with it locked.
Locks(c, lock, next) ==
  /\ ~Held(lock)
  /\ req' = [req EXCEPT ![c].locks = @ \cup {lock}, ![c].at = next]

Ends(c) == req' = [req EXCEPT ![c] = None]

\* Nothing of the request stays.
Rollback(c) == Ends(c) /\ UNCHANGED <<account, txn, key, replies, started>>

Starts(c, r) ==
  /\ req[c].op = "none" /\ started < MaxRequests
  /\ req' = [req EXCEPT ![c] = r]
  /\ started' = started + 1
  /\ UNCHANGED <<account, txn, key, replies>>

-----------------------------------------------------------------------------
(* createManualTransaction *)

Create(c, k, body) ==
  Starts(c, [op |-> "create", at |-> "claim", locks |-> {}, key |-> k, body |-> body])

\* Mutant: the key is looked up, not claimed.
ClaimsNothing(c) == req' = [req EXCEPT ![c].at = "lock"]

\* Inserted, or waits for the request that has inserted it and not yet ended.
Claims(c) == Locks(c, <<"key", req[c].key>>, "lock")

ClaimIdempotencyKey(c) ==
  /\ req[c].at = "claim"
  /\ key[req[c].key] = << >>
  /\ Claims(c)
  /\ UNCHANGED <<account, txn, key, replies, started>>

\* The key is taken: the stored answer, unless it was used for another body.
Replay(c) ==
  LET r == req[c] IN
  /\ r.at = "claim"
  /\ key[r.key] # << >>
  /\ replies' = [replies EXCEPT ![r.key] =
                   IF key[r.key].body = r.body THEN @ \cup {key[r.key].txn} ELSE @]
  /\ Ends(c)
  /\ UNCHANGED <<account, txn, key, started>>

LockAccountOfCreate(c) ==
  /\ req[c].op = "create" /\ req[c].at = "lock"
  /\ Locks(c, <<"account", req[c].body.account>>, "commit")
  /\ UNCHANGED <<account, txn, key, replies, started>>

CommitCreate(c) ==
  LET r == req[c]
      a == r.body.account
      balance == account[a].balance + ManualBalanceDelta(a, r.body.amount)
  IN /\ r.op = "create" /\ r.at = "commit"
     /\ ~account[a].archived
     /\ Normalized(a, balance)
     /\ account' = [account EXCEPT ![a].balance = balance]
     /\ txn' = Append(txn, [account |-> a, amount |-> r.body.amount, deleted |-> FALSE])
     /\ key' = [key EXCEPT ![r.key] = [body |-> r.body, txn |-> Len(txn) + 1]]
     /\ replies' = [replies EXCEPT ![r.key] = @ \cup {Len(txn) + 1}]
     /\ Ends(c)
     /\ UNCHANGED started

-----------------------------------------------------------------------------
(* patchTransaction and deleteManualTransaction *)

Patch(c, t, body) ==
  Starts(c, [op |-> "patch", at |-> "find", locks |-> {}, txn |-> t, body |-> body])

Delete(c, t) ==
  Starts(c, [op |-> "delete", at |-> "find", locks |-> {}, txn |-> t])

\* findByIdForUpdate; a deleted transaction is not found.
FindByIdForUpdate(c) ==
  /\ req[c].at = "find"
  /\ \/ ~txn[req[c].txn].deleted /\ Locks(c, <<"txn", req[c].txn>>, "accounts")
     \/ txn[req[c].txn].deleted /\ ~Held(<<"txn", req[c].txn>>) /\ Ends(c)
  /\ UNCHANGED <<account, txn, key, replies, started>>

Affected(r) == {txn[r.txn].account} \cup (IF r.op = "patch" THEN {r.body.account} ELSE {})
Unlocked(c) == {a \in Affected(req[c]) : <<"account", a>> \notin req[c].locks}

\* Always in the order of the ids.
NextAccount(c) == Min(Unlocked(c))

LockAccount(c) ==
  /\ req[c].op \in {"patch", "delete"} /\ req[c].at = "accounts"
  /\ Locks(c, <<"account", NextAccount(c)>>, IF Cardinality(Unlocked(c)) = 1 THEN "commit" ELSE "accounts")
  /\ UNCHANGED <<account, txn, key, replies, started>>

\* The balances once the old amount is taken back and the new one applied.
Adjusted(r) ==
  LET t == txn[r.txn]
      Without(a) == account[a].balance
                      - (IF a = t.account THEN ManualBalanceDelta(a, t.amount) ELSE 0)
  IN [a \in Affected(r) |->
        IF r.op = "patch" /\ a = r.body.account
        THEN Without(a) + ManualBalanceDelta(a, r.body.amount) ELSE Without(a)]

\* An archived account or a card below zero refuses.
Accepted(r) ==
  \A a \in Affected(r) : ~account[a].archived /\ Normalized(a, Adjusted(r)[a])

CommitEdit(c) ==
  LET r == req[c] IN
  /\ r.op \in {"patch", "delete"} /\ r.at = "commit"
  /\ Accepted(r)
  /\ account' = [a \in Account |-> IF a \in Affected(r)
                                   THEN [account[a] EXCEPT !.balance = Adjusted(r)[a]]
                                   ELSE account[a]]
  /\ txn' = [txn EXCEPT ![r.txn] =
               IF r.op = "patch" THEN [account |-> r.body.account, amount |-> r.body.amount,
                                       deleted |-> FALSE]
                                 ELSE [@ EXCEPT !.deleted = TRUE]]
  /\ Ends(c)
  /\ UNCHANGED <<key, replies, started>>

-----------------------------------------------------------------------------
(* updateAccount: archiving and taking it back. *)

UpdateAccount(c, a) ==
  Starts(c, [op |-> "archive", at |-> "lock", locks |-> {}, account |-> a])

LockAccountOfUpdate(c) ==
  /\ req[c].op = "archive" /\ req[c].at = "lock"
  /\ Locks(c, <<"account", req[c].account>>, "commit")
  /\ UNCHANGED <<account, txn, key, replies, started>>

CommitUpdate(c) ==
  /\ req[c].op = "archive" /\ req[c].at = "commit"
  /\ account' = [account EXCEPT ![req[c].account].archived = ~@]
  /\ Ends(c)
  /\ UNCHANGED <<txn, key, replies, started>>

\* A refusal, or a lost connection at any point.
Abort(c) == req[c].op # "none" /\ Rollback(c)

Next ==
  \E c \in Client :
    \/ \E k \in Key, body \in Body : Create(c, k, body)
    \/ \E t \in Rows : Delete(c, t) \/ \E body \in Body : Patch(c, t, body)
    \/ \E a \in Account : UpdateAccount(c, a)
    \/ ClaimIdempotencyKey(c) \/ Replay(c) \/ LockAccountOfCreate(c) \/ CommitCreate(c)
    \/ FindByIdForUpdate(c) \/ LockAccount(c) \/ CommitEdit(c)
    \/ LockAccountOfUpdate(c) \/ CommitUpdate(c)
    \/ Abort(c)

Spec == Init /\ [][Next]_vars

-----------------------------------------------------------------------------
TypeOK ==
  /\ account \in [Account -> [balance : Int, archived : BOOLEAN]]
  /\ txn \in Seq([account : Account, amount : Amount, deleted : BOOLEAN])
  /\ \A c \in Client : req[c].at \in {"none", "claim", "lock", "find", "accounts", "commit"}

Live(a) == {t \in Rows : txn[t].account = a /\ ~txn[t].deleted}
Deltas(a) == [t \in Rows |-> ManualBalanceDelta(a, txn[t].amount)]

\* Every balance is what its live transactions say, whichever requests ran at
\* once, were refused, repeated or cut off: no edit is applied to a balance or
\* an amount another request has changed meanwhile, and a card owes at least
\* nothing.
BalancesAddUp ==
  \A a \in Account :
    /\ account[a].balance = SumFunctionOnSet(Deltas(a), Live(a))
    /\ Normalized(a, account[a].balance)

\* However often a request is repeated, also while the first one still runs,
\* its key stands for one transaction, and every answer names that one.
OncePerKey ==
  /\ \A k \in Key : Cardinality(replies[k]) <= 1
  /\ Cardinality(UNION {replies[k] : k \in Key}) = Len(txn)

WaitsFor(c, d) ==
  \/ /\ req[c].at = "claim" /\ <<"key", req[c].key>> \in req[d].locks
  \/ /\ req[c].at = "find" /\ <<"txn", req[c].txn>> \in req[d].locks
  \/ /\ req[c].at = "accounts" /\ <<"account", NextAccount(c)>> \in req[d].locks
  \/ /\ req[c].at = "lock" /\ req[c].op = "create"
     /\ <<"account", req[c].body.account>> \in req[d].locks
  \/ /\ req[c].at = "lock" /\ req[c].op = "archive"
     /\ <<"account", req[c].account>> \in req[d].locks

\* Moves between two accounts in opposite directions never wait for each other.
NoLockCycle == \A c, d \in Client : c # d => ~(WaitsFor(c, d) /\ WaitsFor(d, c))

-----------------------------------------------------------------------------
\* Whatever locks they wait for, requests take effect one at a time and at
\* once, on what they then find, as AtomicLedger says.
Atomic == INSTANCE AtomicLedger WITH
  archived <- {a \in Account : account[a].archived}

\* What the manual ledger promises together: the sums, the keys, the locks, and
\* that its requests take effect one at a time.
LedgerIsExact ==
  /\ [](TypeOK /\ BalancesAddUp /\ OncePerKey /\ NoLockCycle)
  /\ Atomic!LSpec
=============================================================================
