---------------------------- MODULE BillPayments ----------------------------
(***************************************************************************)
(* Bill occurrences and the bank transactions that pay them                *)
(* (bills.service.ts, bills.repository.ts, bill-occurrences.repository.ts):*)
(* the reconciliation job of the worker, which is one long transaction at  *)
(* READ COMMITTED, beside the user's short ones and the bank's changes.    *)
(*                                                                         *)
(* Every statement of the job reads what is committed when it runs and     *)
(* what the job wrote itself.  draft holds the rows it has written: nobody *)
(* sees them and whoever wants to write them waits until it ends.  A       *)
(* transaction of the user is one step, its locks are held for no other    *)
(* step.  due stands for the statuses upcoming and overdue.                *)
(***************************************************************************)
EXTENDS Naturals, FiniteSets

CONSTANTS
  Occs,          \* bill occurrences, numbered
  Income,        \* those that expect a deposit
  Txns,          \* bank transactions, numbered
  OnCard,        \* those that are payments received on a card
  Fits,          \* pairs <<o, t>> where t settles o by amount, date and payee
  Distance,      \* Distance[o][t]: days between the two dates
  Replaces,      \* Replaces[t]: the pending transaction t is the posting of
  NoTxn,
  MaxEdits,      \* bound: transactions of the user
  MaxRollbacks   \* bound: rolled back transactions of the job

ASSUME BillPaymentsAssumption ==
  /\ Occs \subseteq Nat /\ Txns \subseteq Nat /\ NoTxn \notin Txns
  /\ Income \subseteq Occs /\ OnCard \subseteq Txns /\ Fits \subseteq Occs \X Txns
  /\ Replaces \in [Txns -> Txns \cup {NoTxn}]
  /\ MaxEdits \in Nat /\ MaxRollbacks \in Nat

VARIABLES
  occ,       \* bill_occurrences
  event,     \* resolved_to_transaction_id of each occurrence's forecast event
  bank,      \* status of the transactions
  rejected,  \* bill_match_rejections
  job,       \* the transaction of the job
  edits,
  rollbacks

vars == <<occ, event, bank, rejected, job, edits, rollbacks>>

Open == {"due", "processing"}
Row == [status : Open \cup {"paid", "skipped"},
        linked : Txns \cup {NoTxn}, pending : Txns \cup {NoTxn}, marked : BOOLEAN]

\* Rows by occurrence, and what the job wrote of each.
Listed == UNION {[D -> Row] : D \in SUBSET Occs}
Draft == UNION {[D -> [row : Row, event : Txns \cup {NoTxn}]] : D \in SUBSET Occs}

\* rows: the occurrences as listed at the start; list: what the last query
\* returned; todo: the pairs still to be written, NoTxn for a link that is to
\* be given up; locks: advisory locks.
Job == [at : {"idle", "payments", "links", "settle", "confirm", "confirmCard", "hold"},
        rows : Listed, list : SUBSET Txns, todo : SUBSET (Occs \X (Txns \cup {NoTxn})),
        settled : SUBSET Occs, banned : SUBSET (Occs \X Txns),
        draft : Draft, locks : SUBSET Txns]

NoJob == [at |-> "idle", rows |-> << >>, list |-> {}, todo |-> {}, settled |-> {},
          banned |-> {}, draft |-> << >>, locks |-> {}]
Due == [status |-> "due", linked |-> NoTxn, pending |-> NoTxn, marked |-> FALSE]

Init ==
  /\ occ = [o \in Occs |-> Due]
  /\ event = [o \in Occs |-> NoTxn]
  /\ bank = [t \in Txns |-> "unseen"]
  /\ rejected = {}
  /\ job = NoJob
  /\ edits = 0
  /\ rollbacks = 0

-----------------------------------------------------------------------------
(* Statements of the repositories.                                         *)

\* The rows as the job sees them.
Seen(o) == IF o \in DOMAIN job.draft THEN job.draft[o] ELSE [row |-> occ[o], event |-> event[o]]
Written(o) == o \in DOMAIN job.draft

InJob == [o \in Occs |-> Seen(o).row]
LinkedTxns(rows) == {rows[o].linked : o \in Occs}
PendingTxns(rows) == {rows[o].pending : o \in Occs}

ListAutoConfirmationCandidates == [o \in {p \in Occs : occ[p].status \in Open} |-> occ[o]]

ListPaymentCandidates(status) ==
  {t \in Txns \ OnCard : /\ bank[t] = status
                         /\ t \notin (IF status = "posted" THEN LinkedTxns(InJob)
                                      ELSE PendingTxns(InJob))}

ListIncomeConfirmationTransactions ==
  {t \in Txns \ OnCard : bank[t] = "posted" /\ t \notin LinkedTxns(InJob)}

ListCardPaymentInflows(status) ==
  {t \in OnCard : bank[t] = status /\ t \notin LinkedTxns(InJob) \cup PendingTxns(InJob)}

\* Only payments leaving an account are found as replacements.
ListPostedReplacements(p) == {t \in Txns \ OnCard : Replaces[t] = p /\ bank[t] = "posted"}

ListLinkCandidates(o) ==
  {t \in Txns \ OnCard :
     /\ bank[t] = "posted"
     /\ \A q \in Occs \ {o} : t \notin {occ[q].linked, occ[q].pending}}

\* Mutant: the occurrences are looked at without the lock.
TryClaimUnlocked(t, rows, others, locks) ==
  \A o \in others : t \notin {rows[o].linked, rows[o].pending}

\* tryClaimAutoConfirmationTransaction: the advisory lock of the transaction,
\* then the occurrences that use it.
TryClaim(t, rows, others, locks) ==
  /\ t \notin locks
  /\ \A o \in others : t \notin {rows[o].linked, rows[o].pending}

\* The write happens when the row still has one of these statuses.
UpdatableIfStatus(row, statuses) == row.status \in statuses

ResolveBillForecastEvent(resolved, t) == IF resolved = NoTxn THEN t ELSE resolved

ReopenBillForecastEvent(resolved, t) == IF resolved = t THEN NoTxn ELSE resolved

Write(draft, o, row, resolved) ==
  [p \in DOMAIN draft \cup {o} |-> IF p = o THEN [row |-> row, event |-> resolved] ELSE draft[p]]

-----------------------------------------------------------------------------
(* The transactions of the user.  Whoever needs a row the job has written  *)
(* waits for its end.                                                      *)

Edit(o) == edits < MaxEdits /\ edits' = edits + 1 /\ ~Written(o)

MarkOccurrencePaid(o) ==
  /\ Edit(o)
  /\ o \notin Income
  /\ UpdatableIfStatus(occ[o], {"due"})
  /\ occ' = [occ EXCEPT ![o] = [@ EXCEPT !.status = "processing", !.marked = TRUE]]
  /\ UNCHANGED <<event, bank, rejected, job, rollbacks>>

SkipOccurrence(o) ==
  /\ Edit(o)
  /\ UpdatableIfStatus(occ[o], {"due"})
  /\ occ' = [occ EXCEPT ![o].status = "skipped"]
  /\ UNCHANGED <<event, bank, rejected, job, rollbacks>>

UnlinkOccurrence(o) ==
  LET t == IF occ[o].linked # NoTxn THEN occ[o].linked ELSE occ[o].pending
  IN /\ Edit(o)
     /\ t # NoTxn
     /\ UpdatableIfStatus(occ[o], {"paid", "processing"})
     /\ occ' = [occ EXCEPT ![o] = Due]
     /\ rejected' = rejected \cup {<<o, t>>}
     /\ event' = [event EXCEPT ![o] = ReopenBillForecastEvent(@, t)]
     /\ UNCHANGED <<bank, job, rollbacks>>

LinkOccurrence(o, t) ==
  LET previous == IF occ[o].linked # NoTxn THEN occ[o].linked ELSE occ[o].pending
      others == IF previous = NoTxn THEN {} ELSE {<<o, previous>>}
  IN /\ Edit(o)
     /\ o \notin Income
     /\ occ[o].status # "skipped"
     /\ occ[o].linked # t
     /\ t \in ListLinkCandidates(o)
     /\ TryClaim(t, occ, Occs \ {o}, job.locks)
     /\ occ' = [occ EXCEPT ![o] = [@ EXCEPT !.status = "paid", !.pending = NoTxn, !.linked = t]]
     /\ rejected' = (rejected \cup others) \ {<<o, t>>}
     /\ event' = [event EXCEPT ![o] =
                    ResolveBillForecastEvent(ReopenBillForecastEvent(@, previous), t)]
     /\ UNCHANGED <<bank, job, rollbacks>>

-----------------------------------------------------------------------------
(* The bank, as the synchronization stores it.                             *)

Appears(t) ==
  /\ bank[t] = "unseen"
  /\ Replaces[t] = NoTxn
  /\ \E status \in {"pending", "posted"} : bank' = [bank EXCEPT ![t] = status]
  /\ UNCHANGED <<occ, event, rejected, job, edits, rollbacks>>

\* A pending transaction posts under its own id, or is dropped.
Settles(t) ==
  /\ bank[t] = "pending"
  /\ \E status \in {"posted", "removed"} : bank' = [bank EXCEPT ![t] = status]
  /\ UNCHANGED <<occ, event, rejected, job, edits, rollbacks>>

PostsAs(t) ==
  /\ bank[t] = "unseen"
  /\ Replaces[t] # NoTxn
  /\ bank[Replaces[t]] = "pending"
  /\ bank' = [bank EXCEPT ![t] = "posted", ![Replaces[t]] = "removed"]
  /\ UNCHANGED <<occ, event, rejected, job, edits, rollbacks>>

-----------------------------------------------------------------------------
(* The job: resolveMaturedForecastEventsInMutation.                        *)

JobStep(at) == job.at = at /\ UNCHANGED <<bank, rejected, edits>>
Quiet == UNCHANGED <<occ, event, rollbacks>>

ListOccurrences ==
  /\ JobStep("idle")
  /\ LET rows == ListAutoConfirmationCandidates
     IN /\ DOMAIN rows # {}
        /\ job' = [job EXCEPT !.at = "payments", !.rows = rows]
  /\ Quiet

ListPayments ==
  /\ JobStep("payments")
  /\ job' = [job EXCEPT !.at = "links",
       !.list = ListPaymentCandidates("posted") \cup ListIncomeConfirmationTransactions]
  /\ Quiet

\* The pending links as they were listed, with what became of each.
PendingLinks == {o \in DOMAIN job.rows : job.rows[o].pending # NoTxn}
Posted(p) == (IF bank[p] = "posted" THEN {p} ELSE {}) \cup ListPostedReplacements(p)

\* Mutant: a dropped payment is left as it is.
OutcomePosted(o) ==
  LET p == job.rows[o].pending
  IN IF Cardinality(Posted(p)) = 1 THEN {o} \X Posted(p) ELSE {}

Outcome(o) ==
  LET p == job.rows[o].pending
  IN IF Cardinality(Posted(p)) = 1 THEN {o} \X Posted(p)
     ELSE IF Posted(p) = {} /\ bank[p] = "removed" THEN {<<o, NoTxn>>}
     ELSE {}

ListLinkStates ==
  /\ JobStep("links")
  /\ job' = [job EXCEPT !.at = "settle", !.todo = UNION {Outcome(o) : o \in PendingLinks}]
  /\ Quiet

Confirmable(o, t, others) ==
  /\ TryClaim(t, InJob, others, {})
  /\ UpdatableIfStatus(Seen(o).row, Open)

Confirm(o, t) ==
  Write(job.draft, o,
        [Seen(o).row EXCEPT !.status = "paid", !.pending = NoTxn, !.linked = t],
        ResolveBillForecastEvent(Seen(o).event, t))

\* The payment a bill was waiting for has posted.
SettlePendingLink(o, t) ==
  /\ JobStep("settle")
  /\ <<o, t>> \in job.todo /\ t # NoTxn
  /\ job' = IF Confirmable(o, t, Occs \ {o})
            THEN [job EXCEPT !.todo = @ \ {<<o, t>>}, !.locks = @ \cup {t},
                             !.settled = @ \cup {o}, !.draft = Confirm(o, t)]
            ELSE [job EXCEPT !.todo = @ \ {<<o, t>>}, !.locks = @ \cup {t}]
  /\ Quiet

\* It was dropped: the bill waits again, also for the rest of this run.
RestorePendingLink(o) ==
  LET row == [Seen(o).row EXCEPT !.status = "due", !.pending = NoTxn]
  IN /\ JobStep("settle")
     /\ <<o, NoTxn>> \in job.todo
     /\ job' = IF UpdatableIfStatus(Seen(o).row, {"processing"})
               THEN [job EXCEPT !.todo = @ \ {<<o, NoTxn>>}, !.rows[o] = row,
                                !.draft = Write(@, o, row, Seen(o).event)]
               ELSE [job EXCEPT !.todo = @ \ {<<o, NoTxn>>}]
     /\ Quiet

Waiting == DOMAIN job.rows \ job.settled

\* pairClosest of the pairs that qualify and that the user has not unmatched:
\* each the other's unique closest.  BillMatching has its steps.
Paired(occs, txns, banned) ==
  LET cands == (Fits \ banned) \cap (occs \X txns)
  IN {p \in cands : \A q \in cands \ {p} :
        (p[1] = q[1] \/ p[2] = q[2]) => Distance[p[1]][p[2]] < Distance[q[1]][q[2]]}

ListRejectedPairs ==
  /\ JobStep("settle")
  /\ job.todo = {}
  /\ job' = [job EXCEPT !.at = "confirm", !.banned = rejected \cap (Waiting \X Txns),
                        !.todo = Paired(Waiting, job.list, rejected)]
  /\ Quiet

\* confirmPaid of one pair, whose transaction no occurrence may use.
ConfirmPair(o, t) ==
  /\ job.at \in {"confirm", "confirmCard"}
  /\ <<o, t>> \in job.todo
  /\ job' = IF Confirmable(o, t, Occs)
            THEN [job EXCEPT !.todo = @ \ {<<o, t>>}, !.locks = @ \cup {t},
                             !.settled = @ \cup {o}, !.draft = Confirm(o, t)]
            ELSE [job EXCEPT !.todo = @ \ {<<o, t>>}, !.locks = @ \cup {t}]
  /\ UNCHANGED <<occ, event, bank, rejected, edits, rollbacks>>

AwaitingCard == {o \in Waiting \ Income : job.rows[o].pending = NoTxn}

ListCardInflows ==
  /\ JobStep("confirm")
  /\ job.todo = {}
  /\ job' = [job EXCEPT !.at = "confirmCard",
       !.todo = Paired(AwaitingCard, ListCardPaymentInflows("posted"), job.banned)]
  /\ Quiet

PendingOccurrences == {o \in AwaitingCard : job.rows[o].status = "due"}

\* A payment pending on the card counts when no pending debit qualifies.
ListPendingPayments ==
  /\ JobStep("confirmCard")
  /\ job.todo = {}
  /\ LET debits == ListPaymentCandidates("pending")
         direct == {p \in Fits : p[1] \in PendingOccurrences /\ p[2] \in debits}
         byCard == PendingOccurrences \ {p[1] : p \in direct}
         received == {p \in Fits : p[1] \in byCard /\ p[2] \in ListCardPaymentInflows("pending")}
         chosen == direct \cup received
     IN job' = [job EXCEPT !.at = "hold",
          !.todo = Paired({p[1] : p \in chosen}, {p[2] : p \in chosen},
                          job.banned \cup (Fits \ chosen))]
  /\ Quiet

HoldForPending(o, t) ==
  /\ JobStep("hold")
  /\ <<o, t>> \in job.todo
  /\ job' = IF TryClaim(t, InJob, Occs, {}) /\ UpdatableIfStatus(Seen(o).row, {"due"})
            THEN [job EXCEPT !.todo = @ \ {<<o, t>>}, !.locks = @ \cup {t},
                    !.draft = Write(@, o, [Seen(o).row EXCEPT !.status = "processing",
                                                              !.pending = t], Seen(o).event)]
            ELSE [job EXCEPT !.todo = @ \ {<<o, t>>}, !.locks = @ \cup {t}]
  /\ Quiet

Commit ==
  /\ JobStep("hold")
  /\ job.todo = {}
  /\ occ' = [o \in Occs |-> Seen(o).row]
  /\ event' = [o \in Occs |-> Seen(o).event]
  /\ job' = NoJob
  /\ UNCHANGED rollbacks

\* The process dies, a statement fails or the database ends a deadlock.
Rollback ==
  /\ job.at # "idle"
  /\ rollbacks < MaxRollbacks
  /\ rollbacks' = rollbacks + 1
  /\ job' = NoJob
  /\ UNCHANGED <<occ, event, bank, rejected, edits>>

-----------------------------------------------------------------------------
User == \E o \in Occs : \/ MarkOccurrencePaid(o) \/ SkipOccurrence(o) \/ UnlinkOccurrence(o)
                        \/ \E t \in Txns : LinkOccurrence(o, t)
Bank == \E t \in Txns : Appears(t) \/ Settles(t) \/ PostsAs(t)
JobStatement ==
  \/ ListOccurrences \/ ListPayments \/ ListLinkStates \/ ListRejectedPairs
  \/ ListCardInflows \/ ListPendingPayments
  \/ \E o \in Occs : \/ RestorePendingLink(o)
                     \/ \E t \in Txns : \/ SettlePendingLink(o, t) \/ ConfirmPair(o, t)
                                        \/ HoldForPending(o, t)
  \/ Commit

Next == User \/ Bank \/ JobStatement \/ Rollback

\* The worker runs the job again and again and its statements end.  Neither
\* the user nor the bank has to do anything.
Spec == Init /\ [][Next]_vars /\ WF_vars(JobStatement)

-----------------------------------------------------------------------------
TypeOK ==
  /\ occ \in [Occs -> Row]
  /\ event \in [Occs -> Txns \cup {NoTxn}]
  /\ bank \in [Txns -> {"unseen", "pending", "posted", "removed"}]
  /\ rejected \subseteq Occs \X Txns
  /\ job \in Job
  /\ edits \in 0..MaxEdits /\ rollbacks \in 0..MaxRollbacks

\* A bank transaction pays, or holds, one bill only, whoever matched it: the
\* job in any of its stages or the user while the job runs.  An occurrence is
\* paid exactly when a transaction is linked, and then the forecast event,
\* which lives in another table, is resolved to the same transaction;
\* otherwise the event is open and the forecast counts it.
PaymentsAgree ==
  /\ \A o, q \in Occs : o # q =>
       {occ[o].linked, occ[o].pending} \cap {occ[q].linked, occ[q].pending} \subseteq {NoTxn}
  /\ \A o \in Occs : /\ event[o] = occ[o].linked
                     /\ (occ[o].status = "paid") = (occ[o].linked # NoTxn)
                     /\ occ[o].pending # NoTxn => occ[o].status = "processing"

\* What was paid or skipped before the job commits stays as it is: the job
\* decided on rows it had read long before.
SettledStaysSettled ==
  Commit => \A o \in Occs : occ[o].status \notin Open => occ'[o] = occ[o]

\* Both, for what stands on either side of the job.
PaymentsStand == [](TypeOK /\ PaymentsAgree) /\ [][SettledStaysSettled]_vars

\* A bill that waits for a payment which the bank has settled does not wait
\* for ever: it is released, confirmed or held by a payment still pending,
\* unless the posting went to another bill meanwhile.
HeldBySettled(o) == occ[o].pending # NoTxn /\ bank[occ[o].pending] # "pending"

TakenElsewhere(o) ==
  \E t \in Txns : /\ Replaces[t] = occ[o].pending \/ t = occ[o].pending
                  /\ \E q \in Occs \ {o} : t \in {occ[q].linked, occ[q].pending}

HoldsEnd == \A o \in Occs : HeldBySettled(o) ~> (~HeldBySettled(o) \/ TakenElsewhere(o))

\* What the comment of the code says of the rejections: pairs the user
\* unmatched never come back on their own.
UnmatchedStaysUnmatched ==
  \A o \in Occs : {<<o, occ[o].linked>>, <<o, occ[o].pending>>} \cap rejected = {}
=============================================================================
