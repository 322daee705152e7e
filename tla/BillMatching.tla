---------------------------- MODULE BillMatching ----------------------------
(***************************************************************************)
(* The pure half of payment matching (merchant-match.ts,                   *)
(* paid-from-inference.ts): how names compare, which payment settles which *)
(* occurrence, and which account a bill is usually paid from.              *)
(*                                                                         *)
(* A word is a sequence of letters, a name a sequence of words; letters    *)
(* are numbers.  Bank filler is dropped before names reach this module.    *)
(***************************************************************************)
EXTENDS Integers, Sequences, FiniteSets, SequencesExt, FiniteSetsExt

CONSTANTS
  MinCompact,    \* MIN_COMPACT_LENGTH
  MinTruncated,  \* MIN_TRUNCATED_LENGTH
  MatchWindow,   \* MATCH_WINDOW_MS, in days
  ArrivalWindow  \* ARRIVAL_WINDOW_MS, in days

ASSUME MatchingAssumption ==
  /\ MinCompact \in Nat /\ MinTruncated \in Nat
  /\ MatchWindow \in Nat /\ ArrivalWindow \in Nat

-----------------------------------------------------------------------------
\* The next row of the edit-distance table: letter i of a against all of b.
NextRow(previous, a, i, b) ==
  LET cell[j \in 0..Len(b)] ==
        IF j = 0 THEN i
        ELSE Min({previous[j] + 1, cell[j - 1] + 1,
                  previous[j - 1] + (IF a[i] = b[j] THEN 0 ELSE 1)})
  IN cell

Levenshtein(a, b) ==
  LET row[i \in 0..Len(a)] ==
        IF i = 0 THEN [j \in 0..Len(b) |-> j] ELSE NextRow(row[i - 1], a, i, b)
  IN row[Len(a)][Len(b)]

Compact(name) == FlattenSeq(name)
FromWord(name, i) == Compact(SubSeq(name, i, Len(name)))
Size(ws) == Cardinality(Range(ws))

ContainsAtWordStart(outer, inner) ==
  /\ Len(inner) >= MinCompact
  /\ \E i \in DOMAIN outer : IsPrefix(inner, FromWord(outer, i))

\* 1 - distance / length >= SIMILARITY (0.8)
NearAtWordStart(outer, inner) ==
  /\ Len(inner) >= MinTruncated
  /\ \E i \in DOMAIN outer :
       LET rest == FromWord(outer, i)
           window == SubSeq(rest, 1, Min({Len(inner), Len(rest)}))
       IN 5 * Levenshtein(inner, window) <= Len(inner)

\* shared / shorter >= TOKEN_OVERLAP (0.6); of equal lengths the left is the
\* shorter one.
TokensOverlap(left, right) ==
  LET shorter == IF Len(left) <= Len(right) THEN left ELSE right
  IN 5 * Cardinality(Range(left) \cap Range(right)) >= 3 * Size(shorter)

NamesMatch(left, right) ==
  LET l == Compact(left)
      r == Compact(right)
  IN /\ left # << >> /\ right # << >>
     /\ \/ ContainsAtWordStart(right, l)
        \/ ContainsAtWordStart(left, r)
        \/ NearAtWordStart(right, l)
        \/ NearAtWordStart(left, r)
        \/ TokensOverlap(left, right)
        \/ /\ Len(l) >= MinCompact /\ Len(r) >= MinCompact
           /\ 5 * Levenshtein(l, r) <= Max({Len(l), Len(r)})

MerchantMatchesBill(billNames, transactionNames) ==
  \E b \in billNames, t \in transactionNames : NamesMatch(b, t)

-----------------------------------------------------------------------------
Apart(d, e) == IF d < e THEN e - d ELSE d - e

\* The account and merchant half of the rule.  An arrival is a payment seen
\* on the account the transfer goes to.
BillPayeeMismatch(setup, payment) ==
  IF payment.isCard /\ setup.transfer THEN "card_on_transfer"
  ELSE IF setup.account \notin {"none", payment.account} THEN "account"
  ELSE IF /\ setup.transfer
          /\ \E a \in setup.arrivals : /\ a.amount = payment.amount
                                       /\ Apart(a.date, payment.date) <= ArrivalWindow
       THEN "null"
  ELSE IF payment.name \notin setup.names THEN "merchant"
  ELSE "null"

BillPaymentMismatch(setup, occurrence, payment) ==
  IF payment.amount <= 0 \/ payment.amount # occurrence.amount THEN "amount"
  ELSE IF Apart(payment.date, occurrence.date) > MatchWindow THEN "date"
  ELSE BillPayeeMismatch(setup, payment)

-----------------------------------------------------------------------------
(* pairClosest.  A candidate is [occ, txn, distance]; slots maps the       *)
(* occurrences of split series to their group and slot.  Occurrences and   *)
(* transactions are numbers in the order of their ids.                     *)

GroupOf(slots, o) == IF o \in DOMAIN slots THEN slots[o].group ELSE <<o>>
SlotOf(slots, o) == IF o \in DOMAIN slots THEN slots[o].slot ELSE 0
Members(cands, slots, g) == {c.occ : c \in {d \in cands : GroupOf(slots, d.occ) = g}}

\* A payment counts for a group when it qualifies for every member, at the
\* distance of the farthest.
GroupCandidates(cands, slots) ==
  LET groups == {GroupOf(slots, c.occ) : c \in cands}
      of(g, t) == {c \in cands : GroupOf(slots, c.occ) = g /\ c.txn = t}
      all == {<<g, t>> \in groups \X {c.txn : c \in cands} :
                /\ of(g, t) # {}
                /\ Cardinality(of(g, t)) = Cardinality(Members(cands, slots, g))}
  IN {[group |-> p[1], txn |-> p[2],
       distance |-> Max({c.distance : c \in of(p[1], p[2])})] : p \in all}

\* Mutant: a tie at the cut-off is not noticed.
ChosenWithTies(mine, k) ==
  {c.txn : c \in {d \in mine : Cardinality({e \in mine : e.distance < d.distance}) < k}}

\* The k nearest of a group's candidates; a tie at the cut-off leaves none.
Chosen(mine, k) ==
  LET near == {c \in mine : Cardinality({d \in mine : d.distance <= c.distance}) <= k}
  IN IF Cardinality(near) < Min({k, Cardinality(mine)}) THEN {} ELSE {c.txn : c \in near}

\* The groups nearest to a payment: its closest one when there is only one.
ClosestGroups(grouped, t) ==
  LET mine == {c \in grouped : c.txn = t}
  IN {c.group : c \in {d \in mine : \A e \in mine : d.distance <= e.distance}}

PairClosest(cands, slots) ==
  LET grouped == GroupCandidates(cands, slots)
      groups == {GroupOf(slots, c.occ) : c \in cands}
      mutual(g) == {t \in Chosen({c \in grouped : c.group = g},
                                 Cardinality(Members(cands, slots, g))) :
                      ClosestGroups(grouped, t) = {g}}
      payments(g) == SetToSortSeq(mutual(g), <)
      ordered(g) == SetToSortSeq(Members(cands, slots, g),
                      LAMBDA a, b : \/ SlotOf(slots, a) < SlotOf(slots, b)
                                    \/ SlotOf(slots, a) = SlotOf(slots, b) /\ a < b)
  IN UNION {{<<ordered(g)[i], payments(g)[i]>> : i \in DOMAIN payments(g)} : g \in groups}

-----------------------------------------------------------------------------
(* inferBillAccount: which account a bill was paid from.                   *)

\* A unique plurality of the votes, or none.
MajorityAccount(votes) ==
  LET count(a) == Cardinality({i \in DOMAIN votes : votes[i] = a})
      leaders == {a \in Range(votes) : \A b \in Range(votes) : count(b) <= count(a)}
  IN IF Cardinality(leaders) = 1 THEN CHOOSE a \in leaders : TRUE ELSE "none"

\* For a card payment: the only depository account with an outflow of about
\* the amount (a dollar) within three days of each payment received.
TransferVotes(bill, payments) ==
  LET sources(p) == {q.account : q \in
                      {o \in Range(payments) :
                         /\ o.depository /\ o.amount > 0
                         /\ o.amount + p.amount \in -100..100
                         /\ Apart(o.date, p.date) <= 3}}
      received == SelectSeq(payments, LAMBDA p : /\ p.account = bill.toAccount /\ p.amount < 0
                                                 /\ Cardinality(sources(p)) = 1)
  IN [i \in DOMAIN received |-> CHOOSE a \in sources(received[i]) : TRUE]

PayeeVotes(bill, payments) ==
  LET mine == SelectSeq(payments, LAMBDA p :
        /\ p.amount # 0 /\ (p.amount < 0) = bill.isIncome
        /\ IF p.series # "none" THEN p.series = bill.id
           ELSE ~p.transfer /\ p.merchant \in bill.names)
  IN [i \in DOMAIN mine |-> mine[i].account]

InferBillAccount(bill, payments, credits) ==
  IF ~bill.transfer THEN MajorityAccount(PayeeVotes(bill, payments))
  ELSE IF bill.toAccount \in credits THEN MajorityAccount(TransferVotes(bill, payments))
  ELSE "none"
=============================================================================
