---------------------------- MODULE AtomicLedger ----------------------------
(***************************************************************************)
(* What the manual ledger promises, without requests, locks or stored      *)
(* balances: transactions are created once per key, changed and deleted    *)
(* one at a time, each at once, and a balance is what they add up to.      *)
(***************************************************************************)
EXTENDS Integers, Sequences, FiniteSetsExt

CONSTANTS Account, Card, Amount, Key

VARIABLES
  txn,      \* the transactions ever created
  key,      \* what a key stands for
  archived  \* the accounts nothing may be booked on

lvars == <<txn, key, archived>>

LInit == txn = << >> /\ key = [k \in Key |-> << >>] /\ archived = {}

Body == [account : Account, amount : Amount]
Entered(body) == [account |-> body.account, amount |-> body.amount, deleted |-> FALSE]

Counted(a) == {t \in DOMAIN txn : txn[t].account = a /\ ~txn[t].deleted}
Effect(a) == [t \in DOMAIN txn |-> IF a \in Card THEN txn[t].amount ELSE -txn[t].amount]
Balance(a) == SumFunctionOnSet(Effect(a), Counted(a))

\* The accounts take bookings, and no card among them is left below zero.
Books(accounts) ==
  /\ accounts \cap archived = {}
  /\ \A a \in accounts \cap Card : Balance(a)' >= 0
  /\ UNCHANGED archived

Created(k, body) ==
  /\ key[k] = << >>
  /\ txn' = Append(txn, Entered(body))
  /\ key' = [key EXCEPT ![k] = [body |-> body, txn |-> Len(txn')]]
  /\ Books({body.account})

Changed(t, body) ==
  /\ ~txn[t].deleted
  /\ txn' = [txn EXCEPT ![t] = Entered(body)]
  /\ Books({txn[t].account, body.account})
  /\ UNCHANGED key

Deleted(t) ==
  /\ ~txn[t].deleted
  /\ txn' = [txn EXCEPT ![t].deleted = TRUE]
  /\ Books({txn[t].account})
  /\ UNCHANGED key

Archived(a) ==
  /\ archived' = IF a \in archived THEN archived \ {a} ELSE archived \cup {a}
  /\ UNCHANGED <<txn, key>>

LNext ==
  \/ \E k \in Key, body \in Body : Created(k, body)
  \/ \E t \in DOMAIN txn : Deleted(t) \/ \E body \in Body : Changed(t, body)
  \/ \E a \in Account : Archived(a)

LSpec == LInit /\ [][LNext]_lvars
=============================================================================
