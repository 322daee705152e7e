--------------------------- MODULE MCBillPayments ---------------------------
(* Two bills and three transactions: a pending debit (1), its posting (2)  *)
(* and a payment received on the card (3).                                 *)
EXTENDS BillPayments, TLC

MCReplaces == (1 :> 0) @@ (2 :> 1) @@ (3 :> 0)
MCFits == {1, 2} \X {1, 2} \cup {<<2, 3>>}
MCDistance == [o \in Occs |-> [t \in Txns |-> IF o = 1 THEN t ELSE 3]]
=============================================================================
