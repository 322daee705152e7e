------------------------- MODULE BillPaymentsProofs -------------------------
(***************************************************************************)
(* PaymentsStand holds of every instance of BillPayments.                  *)
(*                                                                         *)
(* There are two views of the occurrences: what is committed, and what the *)
(* job will commit.  The payments agree in both.  The user writes the      *)
(* first, and of the second only the rows the job has not written; the job *)
(* writes the second.  What keeps a payment from being used twice are the  *)
(* advisory locks: whatever the job has given a bill is locked until it    *)
(* ends.                                                                   *)
(***************************************************************************)
EXTENDS BillPayments, TLAPS

Txn0 == Txns \cup {NoTxn}
Uses(row) == {row.linked, row.pending}

\* An occurrence as PaymentsAgree wants it.
RowAgrees(row, resolved) ==
  /\ resolved = row.linked
  /\ (row.status = "paid") = (row.linked # NoTxn)
  /\ row.pending # NoTxn => row.status = "processing"

Agree(rows, resolved) ==
  /\ \A o, q \in Occs : o # q => Uses(rows[o]) \cap Uses(rows[q]) \subseteq {NoTxn}
  /\ \A o \in Occs : RowAgrees(rows[o], resolved[o])

InJobEvents == [o \in Occs |-> Seen(o).event]

\* What the job gave to a bill is locked.
DraftLocked == \A o \in DOMAIN job.draft : Uses(job.draft[o].row) \subseteq job.locks \cup {NoTxn}

\* What the job wrote was neither paid nor skipped, and nobody else writes it.
DraftWasOpen == \A o \in DOMAIN job.draft : occ[o].status \in Open

IInv ==
  /\ TypeOK
  /\ Agree(occ, event)
  /\ Agree(InJob, InJobEvents)
  /\ DraftLocked
  /\ DraftWasOpen
-----------------------------------------------------------------------------
(* The two views. *)

\* One row changes, and takes no transaction another one uses.
LEMMA AgreeMoves ==
  ASSUME NEW rows, NEW resolved, Agree(rows, resolved), NEW o \in Occs, NEW r, NEW e,
         RowAgrees(r, e), \A q \in Occs \ {o} : Uses(r) \cap Uses(rows[q]) \subseteq {NoTxn},
         NEW rows2, \A q \in Occs : rows2[q] = IF q = o THEN r ELSE rows[q],
         NEW resolved2, \A q \in Occs : resolved2[q] = IF q = o THEN e ELSE resolved[q]
  PROVE  Agree(rows2, resolved2)
<1>1. ASSUME NEW p \in Occs, NEW q \in Occs, p # q
      PROVE  Uses(rows2[p]) \cap Uses(rows2[q]) \subseteq {NoTxn}
  <2>1. Uses(rows[p]) \cap Uses(rows[q]) \subseteq {NoTxn}
    BY <1>1 DEF Agree
  <2> HIDE DEF Uses
  <2> QED BY <1>1, <2>1
<1>2. ASSUME NEW q \in Occs
      PROVE  RowAgrees(rows2[q], resolved2[q])
  BY DEF Agree
<1> QED BY <1>1, <1>2 DEF Agree

\* The empty draft.
LEMMA NothingWritten == << >> \in Draft /\ << >> \in Listed /\ DOMAIN << >> = {}
<1>1. DOMAIN << >> = {} /\ << >> = [x \in {} |-> 0]
  OBVIOUS
<1>2. << >> \in [{} -> Row] /\ << >> \in [{} -> [row : Row, event : Txns \cup {NoTxn}]]
  BY <1>1
<1> QED BY <1>1, <1>2 DEF Draft, Listed

\* The job as a record.
LEMMA JobIs ==
  ASSUME job \in Job
  PROVE  /\ job.rows \in Listed /\ job.list \subseteq Txns /\ job.todo \subseteq Occs \X Txn0
         /\ job.settled \subseteq Occs /\ job.banned \subseteq Occs \X Txns
         /\ job.draft \in Draft /\ job.locks \subseteq Txns
BY DEF Job, Txn0

\* What is written, by occurrence.
LEMMA DraftIs ==
  ASSUME NEW d \in Draft
  PROVE  /\ DOMAIN d \subseteq Occs
         /\ d = [o \in DOMAIN d |-> d[o]]
         /\ \A o \in DOMAIN d : d[o].row \in Row /\ d[o].event \in Txn0
BY DEF Draft, Txn0

\* An occurrence as the job sees it.
LEMMA SeenIs ==
  ASSUME IInv, NEW o \in Occs
  PROVE  /\ Seen(o).row \in Row /\ Seen(o).event \in Txn0
         /\ RowAgrees(Seen(o).row, Seen(o).event)
         /\ InJob[o] = Seen(o).row /\ InJobEvents[o] = Seen(o).event
         /\ o \notin DOMAIN job.draft => Seen(o).row = occ[o] /\ Seen(o).event = event[o]
<1>1. Seen(o).row \in Row /\ Seen(o).event \in Txn0
  <2>1. job.draft \in Draft /\ occ[o] \in Row /\ event[o] \in Txn0
    BY JobIs DEF IInv, TypeOK, Txn0
  <2> QED BY <2>1, DraftIs DEF Seen
<1>2. InJob[o] = Seen(o).row /\ InJobEvents[o] = Seen(o).event
  BY DEF InJob, InJobEvents
<1>3. RowAgrees(Seen(o).row, Seen(o).event)
  BY <1>2 DEF IInv, Agree
<1> QED BY <1>1, <1>2, <1>3 DEF Seen

\* A row as the draft has it once it is written.
LEMMA WriteIs ==
  ASSUME NEW d \in Draft, NEW o \in Occs, NEW r \in Row, NEW e \in Txn0
  PROVE  LET w == Write(d, o, r, e) IN
         /\ w \in Draft /\ DOMAIN w = DOMAIN d \cup {o}
         /\ w[o] = [row |-> r, event |-> e]
         /\ \A q \in DOMAIN d \ {o} : w[q] = d[q]
<1> DEFINE w == Write(d, o, r, e)
           V == [row : Row, event : Txns \cup {NoTxn}]
<1>1. /\ DOMAIN w = DOMAIN d \cup {o} /\ w[o] = [row |-> r, event |-> e]
      /\ \A q \in DOMAIN d \ {o} : w[q] = d[q]
  BY DEF Write
<1>2. w \in Draft
  <2>1. \E D \in SUBSET Occs : d \in [D -> V]
    BY DEF Draft
  <2>2. \A q \in DOMAIN d : d[q] \in V
    BY <2>1
  <2>3. [row |-> r, event |-> e] \in V
    BY DEF Txn0
  <2> HIDE DEF V
  <2>4. w \in [DOMAIN d \cup {o} -> V]
    BY <2>2, <2>3 DEF Write
  <2>5. DOMAIN d \cup {o} \in SUBSET Occs
    BY <2>1
  <2> QED BY <2>4, <2>5 DEF Draft, V
<1> QED BY <1>1, <1>2

-----------------------------------------------------------------------------
(* What each kind of step keeps. *)

\* The user writes a row the job has not written, with a transaction nobody
\* uses in either view.
LEMMA EditKeeps ==
  ASSUME IInv, NEW o \in Occs, o \notin DOMAIN job.draft,
         NEW r \in Row, occ' = [occ EXCEPT ![o] = r],
         NEW e \in Txn0, event' = [event EXCEPT ![o] = e],
         RowAgrees(r, e),
         \A q \in Occs \ {o} : Uses(r) \cap (Uses(occ[q]) \cup Uses(InJob[q])) \subseteq {NoTxn},
         UNCHANGED <<bank, job, rollbacks>>, rejected' \subseteq Occs \X Txns,
         edits' \in 0..MaxEdits
  PROVE  IInv'
<1>1. TypeOK'
  BY DEF IInv, TypeOK, Txn0
<1>2. /\ \A q \in Occs : occ'[q] = IF q = o THEN r ELSE occ[q]
      /\ \A q \in Occs : event'[q] = IF q = o THEN e ELSE event[q]
  BY DEF IInv, TypeOK
<1>3. Agree(occ, event)' /\ \A q \in Occs \ {o} : Uses(r) \cap Uses(occ[q]) \subseteq {NoTxn}
  <2>1. \A q \in Occs \ {o} : Uses(r) \cap Uses(occ[q]) \subseteq {NoTxn}
    OBVIOUS
  <2>2. Agree(occ, event)
    BY DEF IInv
  <2> DEFINE rows == [occ EXCEPT ![o] = r]
             resolved == [event EXCEPT ![o] = e]
  <2>3. /\ \A q \in Occs : rows[q] = IF q = o THEN r ELSE occ[q]
        /\ \A q \in Occs : resolved[q] = IF q = o THEN e ELSE event[q]
    BY <1>2
  <2> HIDE DEF rows, resolved
  <2>4. Agree(rows, resolved)
    BY <2>1, <2>2, <2>3, AgreeMoves
  <2> QED BY <2>1, <2>4 DEF rows, resolved
<1>4. Agree(InJob, InJobEvents)'
  <2>1. \A q \in Occs : Seen(q)' = IF q = o THEN [row |-> r, event |-> e] ELSE Seen(q)
    BY <1>2 DEF Seen
  <2>2. \A q \in Occs : InJob'[q] = IF q = o THEN r ELSE InJob[q]
    BY <2>1 DEF InJob
  <2>3. \A q \in Occs : InJobEvents'[q] = IF q = o THEN e ELSE InJobEvents[q]
    BY <2>1 DEF InJobEvents
  <2>4. Agree(InJob, InJobEvents)
    BY DEF IInv
  <2>5. \A q \in Occs \ {o} : Uses(r) \cap Uses(InJob[q]) \subseteq {NoTxn}
    OBVIOUS
  <2> QED BY <2>2, <2>3, <2>4, <2>5, AgreeMoves
<1>5. DraftLocked' /\ DraftWasOpen'
  <2>1. DOMAIN job.draft \subseteq Occs
    BY JobIs, DraftIs DEF IInv, TypeOK
  <2> QED BY <1>2, <2>1 DEF IInv, DraftLocked, DraftWasOpen
<1> QED BY <1>1, <1>3, <1>4, <1>5 DEF IInv

\* The bank, or a statement of the job that writes no occurrence.
LEMMA QuietKeeps ==
  ASSUME IInv, UNCHANGED <<occ, event, rejected, edits>>,
         job' \in Job, job'.draft = job.draft, job.locks \subseteq job'.locks,
         bank' \in [Txns -> {"unseen", "pending", "posted", "removed"}],
         rollbacks' \in 0..MaxRollbacks
  PROVE  IInv'
<1>1. TypeOK'
  BY DEF IInv, TypeOK
<1>2. Agree(occ, event)'
  BY DEF IInv, Agree
<1>3. Agree(InJob, InJobEvents)'
  <2>1. \A o : Seen(o)' = Seen(o)
    BY DEF Seen
  <2>2. InJob' = InJob /\ InJobEvents' = InJobEvents
    BY <2>1 DEF InJob, InJobEvents
  <2> QED BY <2>2 DEF IInv, Agree
<1>4. DraftLocked' /\ DraftWasOpen'
  BY DEF IInv, DraftLocked, DraftWasOpen
<1> QED BY <1>1, <1>2, <1>3, <1>4 DEF IInv

\* The job writes an occurrence that is open in its view.
LEMMA WriteKeeps ==
  ASSUME IInv, NEW o \in Occs, Seen(o).row.status \in Open,
         NEW r \in Row, NEW e \in Txn0, RowAgrees(r, e),
         job' \in Job, job'.draft = Write(job.draft, o, r, e), job.locks \subseteq job'.locks,
         Uses(r) \subseteq job'.locks \cup {NoTxn},
         \A q \in Occs \ {o} : Uses(r) \cap Uses(InJob[q]) \subseteq {NoTxn},
         UNCHANGED <<occ, event, bank, rejected, edits, rollbacks>>
  PROVE  IInv'
<1>1. TypeOK'
  BY DEF IInv, TypeOK
<1>2. Agree(occ, event)'
  BY DEF IInv, Agree
<1>3. /\ DOMAIN job'.draft = DOMAIN job.draft \cup {o}
      /\ job'.draft[o] = [row |-> r, event |-> e]
      /\ \A q \in DOMAIN job.draft \ {o} : job'.draft[q] = job.draft[q]
  BY DEF Write
<1>4. Agree(InJob, InJobEvents)'
  <2>1. \A q \in Occs : Seen(q)' = IF q = o THEN [row |-> r, event |-> e] ELSE Seen(q)
    BY <1>3 DEF Seen
  <2>2. \A q \in Occs : InJob'[q] = IF q = o THEN r ELSE InJob[q]
    BY <2>1 DEF InJob
  <2>3. \A q \in Occs : InJobEvents'[q] = IF q = o THEN e ELSE InJobEvents[q]
    BY <2>1 DEF InJobEvents
  <2>4. Agree(InJob, InJobEvents)
    BY DEF IInv
  <2> QED BY <2>2, <2>3, <2>4, AgreeMoves
<1>5. DraftLocked'
  <2> SUFFICES ASSUME NEW q \in DOMAIN job'.draft
               PROVE  Uses(job'.draft[q].row) \subseteq job'.locks \cup {NoTxn}
    BY DEF DraftLocked
  <2>1. CASE q = o
    BY <1>3, <2>1
  <2>2. CASE q # o
    <3>1. q \in DOMAIN job.draft /\ job'.draft[q] = job.draft[q]
      BY <1>3, <2>2
    <3>2. Uses(job.draft[q].row) \subseteq job.locks \cup {NoTxn}
      BY <3>1 DEF IInv, DraftLocked
    <3> HIDE DEF Uses
    <3> QED BY <3>1, <3>2
  <2> QED BY <2>1, <2>2
<1>6. DraftWasOpen'
  <2>1. o \notin DOMAIN job.draft => occ[o].status \in Open
    BY SeenIs
  <2> QED BY <1>3, <2>1 DEF IInv, DraftWasOpen
<1> QED BY <1>1, <1>2, <1>4, <1>5, <1>6 DEF IInv
-----------------------------------------------------------------------------
(* The user and the bank. *)

\* The transactions of the user.
LEMMA UserKeeps ==
  ASSUME IInv, User
  PROVE  IInv'
<1>1. PICK o \in Occs : \/ MarkOccurrencePaid(o) \/ SkipOccurrence(o) \/ UnlinkOccurrence(o)
                        \/ \E t \in Txns : LinkOccurrence(o, t)
  BY DEF User
<1>2. /\ o \notin DOMAIN job.draft /\ edits' \in 0..MaxEdits /\ UNCHANGED <<bank, job, rollbacks>>
  <2>1. Edit(o) => o \notin DOMAIN job.draft /\ edits' \in 0..MaxEdits
    BY BillPaymentsAssumption DEF Edit, Written, IInv, TypeOK
  <2>2. MarkOccurrencePaid(o) \/ SkipOccurrence(o) => Edit(o) /\ UNCHANGED <<bank, job, rollbacks>>
    BY DEF MarkOccurrencePaid, SkipOccurrence
  <2>3. UnlinkOccurrence(o) => Edit(o) /\ UNCHANGED <<bank, job, rollbacks>>
    BY DEF UnlinkOccurrence
  <2>4. \A t \in Txns : LinkOccurrence(o, t) => Edit(o) /\ UNCHANGED <<bank, job, rollbacks>>
    BY DEF LinkOccurrence
  <2> QED BY <1>1, <2>1, <2>2, <2>3, <2>4
<1>3. /\ occ \in [Occs -> Row] /\ occ[o] \in Row /\ event \in [Occs -> Txn0] /\ event[o] \in Txn0
      /\ rejected \subseteq Occs \X Txns /\ RowAgrees(occ[o], event[o]) /\ NoTxn \notin Txns
  BY BillPaymentsAssumption DEF IInv, TypeOK, Agree, Txn0
<1>4. ASSUME MarkOccurrencePaid(o) \/ SkipOccurrence(o)
      PROVE  IInv'
  <2>1. PICK r \in Row : /\ occ' = [occ EXCEPT ![o] = r] /\ r.linked = occ[o].linked
                         /\ r.pending = occ[o].pending /\ r.status \in {"processing", "skipped"}
    <3>1. CASE MarkOccurrencePaid(o)
      <4> DEFINE r == [occ[o] EXCEPT !.status = "processing", !.marked = TRUE]
      <4>1. r \in Row /\ r.linked = occ[o].linked /\ r.pending = occ[o].pending /\ r.status = "processing"
        BY <1>3 DEF Row, Open
      <4>2. occ' = [occ EXCEPT ![o] = r]
        BY <3>1 DEF MarkOccurrencePaid
      <4> QED BY <4>1, <4>2
    <3>2. CASE SkipOccurrence(o)
      <4> DEFINE r == [occ[o] EXCEPT !.status = "skipped"]
      <4>1. r \in Row /\ r.linked = occ[o].linked /\ r.pending = occ[o].pending /\ r.status = "skipped"
        BY <1>3 DEF Row, Open
      <4>2. occ' = [occ EXCEPT ![o] = r]
        BY <1>3, <3>2 DEF SkipOccurrence
      <4> QED BY <4>1, <4>2
    <3> QED BY <1>4, <3>1, <3>2
  <2>2. occ[o].status = "due" /\ event' = event /\ rejected' = rejected
    BY <1>4 DEF MarkOccurrencePaid, SkipOccurrence, UpdatableIfStatus
  <2>3. Uses(r) = {NoTxn} /\ RowAgrees(r, event[o]) /\ event' = [event EXCEPT ![o] = event[o]]
    BY <1>3, <2>1, <2>2 DEF Uses, RowAgrees
  <2> QED BY <1>2, <1>3, <2>1, <2>2, <2>3, EditKeeps
<1>5. ASSUME UnlinkOccurrence(o)
      PROVE  IInv'
  <2> DEFINE t == IF occ[o].linked # NoTxn THEN occ[o].linked ELSE occ[o].pending
  <2>1. /\ occ' = [occ EXCEPT ![o] = Due] /\ t # NoTxn /\ rejected' = rejected \cup {<<o, t>>}
        /\ event' = [event EXCEPT ![o] = ReopenBillForecastEvent(event[o], t)]
    BY <1>3, <1>5 DEF UnlinkOccurrence
  <2>2. Due \in Row /\ Uses(Due) = {NoTxn} /\ RowAgrees(Due, NoTxn)
    BY DEF Due, Row, Open, Uses, RowAgrees
  <2>3. ReopenBillForecastEvent(event[o], t) = NoTxn
    BY <1>3 DEF ReopenBillForecastEvent, RowAgrees
  <2>4. t \in Txns
    BY <1>3, <2>1 DEF Row
  <2> HIDE DEF t
  <2>5. rejected' \subseteq Occs \X Txns /\ NoTxn \in Txn0 /\ event' = [event EXCEPT ![o] = NoTxn]
    BY <1>3, <2>1, <2>3, <2>4 DEF Txn0
  <2> QED BY <1>2, <2>1, <2>2, <2>5, EditKeeps
<1>6. ASSUME NEW t \in Txns, LinkOccurrence(o, t)
      PROVE  IInv'
  <2> DEFINE r == [occ[o] EXCEPT !.status = "paid", !.pending = NoTxn, !.linked = t]
             previous == IF occ[o].linked # NoTxn THEN occ[o].linked ELSE occ[o].pending
  <2>1. /\ occ' = [occ EXCEPT ![o] = r] /\ t \in ListLinkCandidates(o)
        /\ TryClaim(t, occ, Occs \ {o}, job.locks)
        /\ rejected' \subseteq rejected \cup (IF previous = NoTxn THEN {} ELSE {<<o, previous>>})
        /\ event' = [event EXCEPT ![o] =
                       ResolveBillForecastEvent(ReopenBillForecastEvent(event[o], previous), t)]
    BY <1>3, <1>6 DEF LinkOccurrence
  <2>2. ResolveBillForecastEvent(ReopenBillForecastEvent(event[o], previous), t) = t
    BY <1>3 DEF ResolveBillForecastEvent, ReopenBillForecastEvent, RowAgrees
  <2>3. r \in Row /\ Uses(r) = {t, NoTxn} /\ RowAgrees(r, t)
    <3>1. r \in Row /\ r.linked = t /\ r.pending = NoTxn /\ r.status = "paid"
      BY <1>3 DEF Row
    <3> QED BY <1>3, <3>1 DEF Uses, RowAgrees
  <2>4. rejected' \subseteq Occs \X Txns
    <3>1. previous \in Txn0
      BY <1>3 DEF Row, Txn0
    <3> HIDE DEF previous
    <3> QED BY <1>3, <2>1, <3>1 DEF Txn0
  <2>5. \A q \in Occs \ {o} : t \notin Uses(occ[q]) \cup Uses(InJob[q])
    <3> TAKE q \in Occs \ {o}
    <3>1. t \notin Uses(occ[q]) /\ t \notin job.locks
      BY <2>1 DEF TryClaim, Uses
    <3>2. CASE q \in DOMAIN job.draft
      <4>1. InJob[q] = job.draft[q].row /\ Uses(job.draft[q].row) \subseteq job.locks \cup {NoTxn}
        BY <3>2 DEF InJob, Seen, IInv, DraftLocked
      <4> QED BY <1>3, <3>1, <4>1
    <3>3. CASE q \notin DOMAIN job.draft
      BY <3>1, <3>3, SeenIs
    <3> QED BY <3>2, <3>3
  <2>6. event' = [event EXCEPT ![o] = t] /\ t \in Txn0
    BY <2>1, <2>2 DEF Txn0
  <2> HIDE DEF r, previous
  <2>7. \A q \in Occs \ {o} : Uses(r) \cap (Uses(occ[q]) \cup Uses(InJob[q])) \subseteq {NoTxn}
    BY <2>3, <2>5
  <2> QED BY <1>2, <2>1, <2>3, <2>4, <2>6, <2>7, EditKeeps
<1> QED BY <1>1, <1>4, <1>5, <1>6

\* What the synchronization stores changes no bill.
LEMMA BankKeeps ==
  ASSUME IInv, Bank
  PROVE  IInv'
<1>1. UNCHANGED <<occ, event, rejected, job, edits, rollbacks>>
  BY DEF Bank, Appears, Settles, PostsAs
<1>2. bank' \in [Txns -> {"unseen", "pending", "posted", "removed"}]
  BY DEF Bank, Appears, Settles, PostsAs, IInv, TypeOK
<1>3. job \in Job /\ rollbacks \in 0..MaxRollbacks
  BY DEF IInv, TypeOK
<1> QED BY <1>1, <1>2, <1>3, QuietKeeps

-----------------------------------------------------------------------------
(* The job. *)

\* A pairing is a set of pairs that qualify.
LEMMA PairedIs ==
  ASSUME NEW occs, NEW txns, NEW banned
  PROVE  Paired(occs, txns, banned) \in SUBSET (Occs \X Txn0)
BY BillPaymentsAssumption DEF Paired, Txn0

\* What becomes of a pending link.
LEMMA OutcomeIs ==
  ASSUME IInv, NEW o \in PendingLinks
  PROVE  Outcome(o) \subseteq Occs \X Txn0
<1>1. job.rows \in Listed
  BY JobIs DEF IInv, TypeOK
<1>2. o \in Occs /\ job.rows[o].pending \in Txns
  BY <1>1 DEF Listed, PendingLinks, Row
<1> DEFINE p == job.rows[o].pending
<1>3. Posted(p) \subseteq Txn0 /\ NoTxn \in Txn0
  BY <1>2 DEF Posted, ListPostedReplacements, Txn0
<1> QED BY <1>2, <1>3 DEF Outcome

\* The statements that only read.
LEMMA ReadsAreQuiet ==
  ASSUME IInv,
         \/ ListOccurrences \/ ListPayments \/ ListLinkStates \/ ListRejectedPairs
         \/ ListCardInflows \/ ListPendingPayments
  PROVE  IInv'
<1>1. job \in Job /\ bank \in [Txns -> {"unseen", "pending", "posted", "removed"}]
      /\ rollbacks \in 0..MaxRollbacks
  BY DEF IInv, TypeOK
<1>2. ASSUME UNCHANGED <<occ, event, bank, rejected, edits, rollbacks>>,
             job' \in Job, job'.draft = job.draft, job'.locks = job.locks
      PROVE  IInv'
  BY <1>1, <1>2, QuietKeeps
<1>3. CASE ListOccurrences
  <2>1. ListAutoConfirmationCandidates \in Listed
    <3> DEFINE D == {p \in Occs : occ[p].status \in Open}
    <3>1. D \in SUBSET Occs /\ \A q \in D : occ[q] \in Row
      BY DEF IInv, TypeOK
    <3>2. ListAutoConfirmationCandidates = [q \in D |-> occ[q]]
      BY DEF ListAutoConfirmationCandidates
    <3> HIDE DEF D
    <3>3. ListAutoConfirmationCandidates \in [D -> Row]
      BY <3>1, <3>2
    <3> QED BY <3>1, <3>3 DEF Listed
  <2>2. job' = [job EXCEPT !.at = "payments", !.rows = ListAutoConfirmationCandidates]
    BY <1>3 DEF ListOccurrences
  <2>3. job' \in Job /\ job'.draft = job.draft /\ job'.locks = job.locks
    BY <1>1, <2>1, <2>2 DEF Job, Txn0
  <2> QED BY <1>2, <1>3, <2>3 DEF ListOccurrences, JobStep, Quiet
<1>4. CASE ListPayments
  <2> DEFINE list == ListPaymentCandidates("posted") \cup ListIncomeConfirmationTransactions
  <2>1. list \in SUBSET Txns
    BY DEF ListPaymentCandidates, ListIncomeConfirmationTransactions
  <2>2. job' = [job EXCEPT !.at = "links", !.list = list]
    BY <1>4 DEF ListPayments
  <2> HIDE DEF list
  <2>3. job' \in Job /\ job'.draft = job.draft /\ job'.locks = job.locks
    BY <1>1, <2>1, <2>2 DEF Job, Txn0
  <2> QED BY <1>2, <1>4, <2>3 DEF ListPayments, JobStep, Quiet
<1>5. CASE ListLinkStates
  <2> DEFINE todo == UNION {Outcome(o) : o \in PendingLinks}
  <2>1. todo \in SUBSET (Occs \X Txn0)
    BY OutcomeIs
  <2>2. job' = [job EXCEPT !.at = "settle", !.todo = todo]
    BY <1>5 DEF ListLinkStates
  <2> HIDE DEF todo
  <2>3. job' \in Job /\ job'.draft = job.draft /\ job'.locks = job.locks
    BY <1>1, <2>1, <2>2 DEF Job, Txn0
  <2> QED BY <1>2, <1>5, <2>3 DEF ListLinkStates, JobStep, Quiet
<1>6. CASE ListRejectedPairs
  <2> DEFINE todo == Paired(Waiting, job.list, rejected)
             banned == rejected \cap (Waiting \X Txns)
  <2>1. todo \in SUBSET (Occs \X Txn0)
    BY PairedIs
  <2>2. banned \in SUBSET (Occs \X Txns)
    BY DEF IInv, TypeOK
  <2>3. job' = [job EXCEPT !.at = "confirm", !.banned = banned, !.todo = todo]
    BY <1>6 DEF ListRejectedPairs
  <2> HIDE DEF todo, banned
  <2>4. job' \in Job /\ job'.draft = job.draft /\ job'.locks = job.locks
    BY <1>1, <2>1, <2>2, <2>3 DEF Job, Txn0
  <2> QED BY <1>2, <1>6, <2>4 DEF ListRejectedPairs, JobStep, Quiet
<1>7. CASE ListCardInflows
  <2> DEFINE todo == Paired(AwaitingCard, ListCardPaymentInflows("posted"), job.banned)
  <2>1. todo \in SUBSET (Occs \X Txn0)
    BY PairedIs
  <2>2. job' = [job EXCEPT !.at = "confirmCard", !.todo = todo]
    BY <1>7 DEF ListCardInflows
  <2> HIDE DEF todo
  <2>3. job' \in Job /\ job'.draft = job.draft /\ job'.locks = job.locks
    BY <1>1, <2>1, <2>2 DEF Job, Txn0
  <2> QED BY <1>2, <1>7, <2>3 DEF ListCardInflows, JobStep, Quiet
<1>8. CASE ListPendingPayments
  <2>1. PICK occs, txns, banned :
          job' = [job EXCEPT !.at = "hold", !.todo = Paired(occs, txns, banned)]
    BY <1>8 DEF ListPendingPayments
  <2>2. job' \in Job /\ job'.draft = job.draft /\ job'.locks = job.locks
    BY <1>1, <2>1, PairedIs DEF Job, Txn0
  <2> QED BY <1>2, <1>8, <2>2 DEF ListPendingPayments, JobStep, Quiet
<1> QED BY <1>3, <1>4, <1>5, <1>6, <1>7, <1>8

\* A bill is paid, or not, and the transaction stays locked either way.
LEMMA ConfirmKeeps ==
  ASSUME IInv, NEW o \in Occs, NEW t \in Txns, NEW others, Occs \ {o} \subseteq others,
         UNCHANGED <<occ, event, bank, rejected, edits, rollbacks>>,
         job' = IF Confirmable(o, t, others)
                THEN [job EXCEPT !.todo = job.todo \ {<<o, t>>}, !.locks = job.locks \cup {t},
                                 !.settled = job.settled \cup {o}, !.draft = Confirm(o, t)]
                ELSE [job EXCEPT !.todo = job.todo \ {<<o, t>>}, !.locks = job.locks \cup {t}]
  PROVE  IInv'
<1> DEFINE todo == job.todo \ {<<o, t>>}
           locks == job.locks \cup {t}
           settled == job.settled \cup {o}
           r == [Seen(o).row EXCEPT !.status = "paid", !.pending = NoTxn, !.linked = t]
           e == ResolveBillForecastEvent(Seen(o).event, t)
           d == Write(job.draft, o, r, e)
<1>1. job \in Job /\ job.draft \in Draft /\ locks \in SUBSET Txns
      /\ todo \in SUBSET (Occs \X Txn0) /\ settled \in SUBSET Occs
  BY JobIs DEF IInv, TypeOK
<1>2. CASE ~Confirmable(o, t, others)
  <2>1. job' = [job EXCEPT !.todo = todo, !.locks = locks]
    BY <1>2
  <2> HIDE DEF todo, locks
  <2>2. job' \in Job /\ job'.draft = job.draft /\ job'.locks = locks
    BY <1>1, <2>1 DEF Job, Txn0
  <2>3. job.locks \subseteq job'.locks
    BY <2>2 DEF locks
  <2> QED BY <2>2, <2>3, QuietKeeps DEF IInv, TypeOK
<1>3. CASE Confirmable(o, t, others)
  <2>1. job' = [job EXCEPT !.todo = todo, !.locks = locks, !.settled = settled, !.draft = d]
    BY <1>3 DEF Confirm
  <2>2. /\ Seen(o).row \in Row /\ RowAgrees(Seen(o).row, Seen(o).event)
        /\ Seen(o).row.status \in Open /\ NoTxn \notin Txns
    BY <1>3, SeenIs, BillPaymentsAssumption DEF Confirmable, UpdatableIfStatus
  <2>3. e = t
    BY <2>2 DEF ResolveBillForecastEvent, RowAgrees, Open
  <2>4. r \in Row /\ r.linked = t /\ r.pending = NoTxn /\ r.status = "paid"
    BY <2>2 DEF Row
  <2>5. t \in Txn0 /\ RowAgrees(r, t) /\ Uses(r) = {t, NoTxn}
    BY <2>2, <2>4 DEF RowAgrees, Uses, Txn0
  <2>6. \A q \in Occs \ {o} : t \notin Uses(InJob[q])
    BY <1>3 DEF Confirmable, TryClaim, Uses
  <2>7. \A q \in Occs \ {o} : Uses(r) \cap Uses(InJob[q]) \subseteq {NoTxn}
    BY <2>5, <2>6
  <2>8. d = Write(job.draft, o, r, t) /\ Uses(r) \subseteq locks \cup {NoTxn} /\ job.locks \subseteq locks
    BY <2>3, <2>5
  <2> HIDE DEF todo, locks, settled, r, e, d
  <2>9. d \in Draft
    BY <1>1, <2>4, <2>5, <2>8, WriteIs
  <2>10. job' \in Job /\ job'.draft = d /\ job'.locks = locks
    BY <1>1, <2>1, <2>9 DEF Job, Txn0
  <2> QED BY <2>2, <2>4, <2>5, <2>7, <2>8, <2>10, WriteKeeps
<1> QED BY <1>2, <1>3

\* A bill whose pending payment was dropped waits again.
LEMMA RestoreKeeps ==
  ASSUME IInv, NEW o \in Occs, RestorePendingLink(o)
  PROVE  IInv'
<1> DEFINE todo == job.todo \ {<<o, NoTxn>>}
           r == [Seen(o).row EXCEPT !.status = "due", !.pending = NoTxn]
           e == Seen(o).event
           rows == [job.rows EXCEPT ![o] = r]
           d == Write(job.draft, o, r, e)
<1>1. job \in Job /\ job.draft \in Draft /\ todo \in SUBSET (Occs \X Txn0) /\ job.rows \in Listed
  BY JobIs DEF IInv, TypeOK
<1>2. UNCHANGED <<occ, event, bank, rejected, edits, rollbacks>>
  BY DEF RestorePendingLink, JobStep, Quiet
<1>3. CASE Seen(o).row.status # "processing"
  <2>1. job' = [job EXCEPT !.todo = todo]
    BY <1>3 DEF RestorePendingLink, UpdatableIfStatus
  <2> HIDE DEF todo
  <2>2. job' \in Job /\ job'.draft = job.draft /\ job'.locks = job.locks
    BY <1>1, <2>1 DEF Job, Txn0
  <2> QED BY <1>2, <2>2, QuietKeeps DEF IInv, TypeOK
<1>4. CASE Seen(o).row.status = "processing"
  <2>1. job' = [job EXCEPT !.todo = todo, !.rows = rows, !.draft = d]
    BY <1>1, <1>4 DEF RestorePendingLink, UpdatableIfStatus, Job
  <2>2. Seen(o).row \in Row /\ e \in Txn0 /\ RowAgrees(Seen(o).row, e) /\ InJob[o] = Seen(o).row
    BY SeenIs
  <2>3. r \in Row /\ r.linked = Seen(o).row.linked /\ r.pending = NoTxn /\ r.status = "due"
    BY <2>2 DEF Row, Open
  <2>4. Seen(o).row.linked = NoTxn /\ RowAgrees(r, e) /\ Uses(r) = {NoTxn}
    BY <1>4, <2>2, <2>3 DEF RowAgrees, Uses
  <2>5. Uses(r) \subseteq job.locks \cup {NoTxn} /\ Seen(o).row.status \in Open
        /\ \A q \in Occs \ {o} : Uses(r) \cap Uses(InJob[q]) \subseteq {NoTxn}
    BY <1>4, <2>4 DEF Open
  <2> HIDE DEF todo, r, e
  <2>6. rows \in Listed
    BY <1>1, <2>3 DEF Listed
  <2> HIDE DEF rows
  <2>7. d \in Draft
    BY <1>1, <2>2, <2>3, WriteIs
  <2>8. d = Write(job.draft, o, r, e)
    OBVIOUS
  <2> HIDE DEF d
  <2>9. job' \in Job /\ job'.draft = d /\ job'.locks = job.locks
    BY <1>1, <2>1, <2>6, <2>7 DEF Job, Txn0
  <2> QED BY <1>2, <2>2, <2>3, <2>4, <2>5, <2>8, <2>9, WriteKeeps
<1> QED BY <1>3, <1>4

\* A bill is held for a payment that is still pending.
LEMMA HoldKeeps ==
  ASSUME IInv, NEW o \in Occs, NEW t \in Txns, HoldForPending(o, t)
  PROVE  IInv'
<1> DEFINE todo == job.todo \ {<<o, t>>}
           locks == job.locks \cup {t}
           r == [Seen(o).row EXCEPT !.status = "processing", !.pending = t]
           e == Seen(o).event
           d == Write(job.draft, o, r, e)
           chosen == TryClaim(t, InJob, Occs, {}) /\ Seen(o).row.status = "due"
<1>1. job \in Job /\ job.draft \in Draft /\ locks \in SUBSET Txns /\ todo \in SUBSET (Occs \X Txn0)
  BY JobIs DEF IInv, TypeOK
<1>2. UNCHANGED <<occ, event, bank, rejected, edits, rollbacks>>
  BY DEF HoldForPending, JobStep, Quiet
<1>3. CASE ~chosen
  <2>1. job' = [job EXCEPT !.todo = todo, !.locks = locks]
    BY <1>3 DEF HoldForPending, UpdatableIfStatus
  <2> HIDE DEF todo, locks
  <2>2. job' \in Job /\ job'.draft = job.draft /\ job'.locks = locks
    BY <1>1, <2>1 DEF Job, Txn0
  <2>3. job.locks \subseteq job'.locks
    BY <2>2 DEF locks
  <2> QED BY <1>2, <2>2, <2>3, QuietKeeps DEF IInv, TypeOK
<1>4. CASE chosen
  <2>1. job' = [job EXCEPT !.todo = todo, !.locks = locks, !.draft = d]
    BY <1>4 DEF HoldForPending, UpdatableIfStatus
  <2>2. Seen(o).row \in Row /\ e \in Txn0 /\ RowAgrees(Seen(o).row, e) /\ NoTxn \notin Txns
    BY SeenIs, BillPaymentsAssumption
  <2>3. r \in Row /\ r.linked = Seen(o).row.linked /\ r.pending = t /\ r.status = "processing"
    BY <2>2 DEF Row, Open
  <2>4. Seen(o).row.linked = NoTxn /\ RowAgrees(r, e) /\ Uses(r) = {t, NoTxn}
    BY <1>4, <2>2, <2>3 DEF RowAgrees, Uses
  <2>5. \A q \in Occs \ {o} : t \notin Uses(InJob[q])
    BY <1>4 DEF TryClaim, Uses
  <2>6. /\ \A q \in Occs \ {o} : Uses(r) \cap Uses(InJob[q]) \subseteq {NoTxn}
        /\ Seen(o).row.status \in Open
        /\ Uses(r) \subseteq locks \cup {NoTxn} /\ job.locks \subseteq locks
    BY <1>4, <2>4, <2>5 DEF Open
  <2> HIDE DEF todo, locks, r, e
  <2>7. d \in Draft
    BY <1>1, <2>2, <2>3, WriteIs
  <2>8. d = Write(job.draft, o, r, e)
    OBVIOUS
  <2> HIDE DEF d
  <2>9. job' \in Job /\ job'.draft = d /\ job'.locks = locks
    BY <1>1, <2>1, <2>7 DEF Job, Txn0
  <2> QED BY <1>2, <2>2, <2>3, <2>4, <2>6, <2>8, <2>9, WriteKeeps
<1> QED BY <1>3, <1>4

\* The end of the job: its view becomes what is committed, or is forgotten.
LEMMA NoJobIs == NoJob \in Job /\ NoJob.draft = << >>
<1>1. {} \in SUBSET Txns /\ {} \in SUBSET Occs /\ {} \in SUBSET (Occs \X Txns)
      /\ {} \in SUBSET (Occs \X (Txns \cup {NoTxn}))
  OBVIOUS
<1> QED BY <1>1, NothingWritten DEF NoJob, Job

\* The job ends, with its draft or without.
LEMMA EndsKeep ==
  ASSUME IInv, job' = NoJob, UNCHANGED <<bank, rejected, edits>>,
         rollbacks' \in 0..MaxRollbacks,
         \/ UNCHANGED <<occ, event>>
         \/ occ' = InJob /\ event' = InJobEvents
  PROVE  IInv'
<1>1. NoJob \in Job /\ DOMAIN NoJob.draft = {}
  BY NoJobIs, NothingWritten
<1>2. occ' \in [Occs -> Row] /\ event' \in [Occs -> Txns \cup {NoTxn}] /\ Agree(occ, event)'
  <2>1. CASE UNCHANGED <<occ, event>>
    BY <2>1 DEF IInv, TypeOK, Agree
  <2>2. CASE occ' = InJob /\ event' = InJobEvents
    <3>1. InJob \in [Occs -> Row] /\ InJobEvents \in [Occs -> Txns \cup {NoTxn}]
      BY SeenIs DEF InJob, InJobEvents, Txn0
    <3>2. Agree(InJob, InJobEvents)
      BY DEF IInv
    <3> QED BY <2>2, <3>1, <3>2 DEF Agree
  <2> QED BY <2>1, <2>2
<1>3. TypeOK'
  BY <1>1, <1>2 DEF IInv, TypeOK
<1>4. InJob' = occ' /\ InJobEvents' = event'
  BY <1>1, <1>2 DEF InJob, InJobEvents, Seen
<1>5. Agree(InJob, InJobEvents)'
  BY <1>2, <1>4 DEF Agree
<1>6. DraftLocked' /\ DraftWasOpen'
  BY <1>1 DEF DraftLocked, DraftWasOpen
<1> QED BY <1>2, <1>3, <1>5, <1>6 DEF IInv

-----------------------------------------------------------------------------
(* The theorems. *)

\* Before anything happens.
LEMMA InitSafe == Init => IInv
<1> SUFFICES ASSUME Init PROVE IInv
  OBVIOUS
<1>1. NoJob \in Job /\ DOMAIN NoJob.draft = {}
  BY NoJobIs, NothingWritten
<1>2. Due \in Row /\ Uses(Due) = {NoTxn} /\ RowAgrees(Due, NoTxn)
  BY DEF Due, Row, Open, Uses, RowAgrees
<1>3. TypeOK
  BY <1>1, <1>2, BillPaymentsAssumption DEF Init, TypeOK
<1>4. Agree(occ, event)
  BY <1>2 DEF Init, Agree
<1>5. InJob = occ /\ InJobEvents = event
  BY <1>1, <1>3 DEF Init, InJob, InJobEvents, Seen, TypeOK
<1>6. DraftLocked /\ DraftWasOpen
  BY <1>1 DEF Init, DraftLocked, DraftWasOpen
<1> QED BY <1>3, <1>4, <1>5, <1>6 DEF IInv

\* Every step keeps the two views in agreement.
LEMMA NextSafe == IInv /\ [Next]_vars => IInv'
<1> SUFFICES ASSUME IInv, [Next]_vars PROVE IInv'
  OBVIOUS
<1>1. CASE User
  BY <1>1, UserKeeps
<1>2. CASE Bank
  BY <1>2, BankKeeps
<1>3. CASE JobStatement
  <2>1. ASSUME \/ ListOccurrences \/ ListPayments \/ ListLinkStates \/ ListRejectedPairs
               \/ ListCardInflows \/ ListPendingPayments
        PROVE  IInv'
    BY <2>1, ReadsAreQuiet
  <2>2. ASSUME NEW o \in Occs, RestorePendingLink(o)
        PROVE  IInv'
    BY <2>2, RestoreKeeps
  <2>3. ASSUME NEW o \in Occs, NEW t \in Txns, SettlePendingLink(o, t)
        PROVE  IInv'
    <3>1. UNCHANGED <<occ, event, bank, rejected, edits, rollbacks>>
      BY <2>3 DEF SettlePendingLink, JobStep, Quiet
    <3>2. job' = IF Confirmable(o, t, Occs \ {o})
                 THEN [job EXCEPT !.todo = job.todo \ {<<o, t>>}, !.locks = job.locks \cup {t},
                                  !.settled = job.settled \cup {o}, !.draft = Confirm(o, t)]
                 ELSE [job EXCEPT !.todo = job.todo \ {<<o, t>>}, !.locks = job.locks \cup {t}]
      BY <2>3 DEF SettlePendingLink, IInv, TypeOK, Job
    <3> QED BY <3>1, <3>2, ConfirmKeeps
  <2>4. ASSUME NEW o \in Occs, NEW t \in Txns, ConfirmPair(o, t)
        PROVE  IInv'
    <3>1. UNCHANGED <<occ, event, bank, rejected, edits, rollbacks>> /\ Occs \ {o} \subseteq Occs
      BY <2>4 DEF ConfirmPair
    <3>2. job' = IF Confirmable(o, t, Occs)
                 THEN [job EXCEPT !.todo = job.todo \ {<<o, t>>}, !.locks = job.locks \cup {t},
                                  !.settled = job.settled \cup {o}, !.draft = Confirm(o, t)]
                 ELSE [job EXCEPT !.todo = job.todo \ {<<o, t>>}, !.locks = job.locks \cup {t}]
      BY <2>4 DEF ConfirmPair, IInv, TypeOK, Job
    <3> QED BY <3>1, <3>2, ConfirmKeeps
  <2>5. ASSUME NEW o \in Occs, NEW t \in Txns, HoldForPending(o, t)
        PROVE  IInv'
    BY <2>5, HoldKeeps
  <2>6. ASSUME Commit
        PROVE  IInv'
    <3>1. occ' = InJob /\ event' = InJobEvents /\ job' = NoJob
      BY <2>6 DEF Commit, InJob, InJobEvents
    <3> QED BY <2>6, <3>1, EndsKeep DEF Commit, JobStep, IInv, TypeOK
  <2> QED BY <1>3, <2>1, <2>2, <2>3, <2>4, <2>5, <2>6 DEF JobStatement
<1>4. CASE Rollback
  <2>1. rollbacks' \in 0..MaxRollbacks
    BY <1>4, BillPaymentsAssumption DEF Rollback, IInv, TypeOK
  <2> QED BY <1>4, <2>1, EndsKeep DEF Rollback
<1>5. CASE UNCHANGED vars
  BY <1>5, QuietKeeps DEF vars, IInv, TypeOK
<1> QED BY <1>1, <1>2, <1>3, <1>4, <1>5 DEF Next

\* In every reachable state the payments agree as committed and as the job
\* will commit them.
THEOREM InvariantHolds == Spec => []IInv
<1> QED BY InitSafe, NextSafe, PTL DEF Spec

\* What the job commits leaves the rows alone that are paid or skipped.
LEMMA CommitKeeps == IInv => SettledStaysSettled
<1> SUFFICES ASSUME IInv, Commit, NEW o \in Occs, occ[o].status \notin Open
             PROVE  occ'[o] = occ[o]
  BY DEF SettledStaysSettled
<1>1. o \notin DOMAIN job.draft
  BY DEF IInv, DraftWasOpen
<1>2. occ'[o] = Seen(o).row
  BY DEF Commit
<1> QED BY <1>1, <1>2 DEF Seen

\* PaymentsStand: a transaction pays one bill only, bill and forecast event
\* agree, and the job overwrites nothing that was settled while it ran.
THEOREM PaymentsHold == Spec => PaymentsStand
<1>1. IInv => TypeOK /\ PaymentsAgree
  BY DEF IInv, Agree, RowAgrees, Uses, PaymentsAgree
<1>2. IInv /\ [Next]_vars => [SettledStaysSettled]_vars
  BY CommitKeeps
<1> QED BY <1>1, <1>2, InvariantHolds, PTL DEF Spec, PaymentsStand
=============================================================================
