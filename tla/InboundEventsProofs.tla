------------------------ MODULE InboundEventsProofs ------------------------
(***************************************************************************)
(* OrderIsKept, DuplicatesApplyOnce, DeadAfterAllAttempts and              *)
(* StaleExecutionsAreHarmless hold of every instance of InboundEvents: any *)
(* number of deliveries, workers, attempts, replays and outages.           *)
(*                                                                         *)
(* Most actions are quiet: they reopen no event, draw no token and commit  *)
(* no effect.  What a quiet step may do to a row and to an execution is    *)
(* said once, and preserves the invariant; Insert, Replay, Claim and       *)
(* Commit have a proof of their own.                                       *)
(***************************************************************************)
EXTENDS InboundEvents, SequenceTheorems, TLAPS

\* A row carries the newest token while it is processed, and none otherwise; an
\* event that has not arrived was never claimed.
RowsFenced ==
  \A e \in Events :
    LET r == events[e] IN
    /\ r.status = "processing" => r.token = Len(execs[e]) /\ r.token > 0 /\ r.attempts > 0
    /\ r.status # "processing" => r.token = 0
    /\ r.status \in {"processing", "processed"} => r.due = 0
    /\ r.status # "processing" => r.lease = 0
    /\ r.status = "absent" => execs[e] = <<>>

\* An open event that a later one of its item has overtaken is known as late.
LateIfOvertaken ==
  \A e \in Events : events[e].status \in Open /\ Overtaken(e) => e \in late

\* Only claimed events have had an effect.
AppliedWereClaimed ==
  /\ \A e \in applied : execs[e] # <<>>
  /\ stale \subseteq applied

\* What keeps e's effect from being repeated by a duplicate that came later:
\* e is dead, or has not arrived, or is late.
OutOfTheWay(e) == events[e].status \in {"absent", "dead"} \/ e \in late

\* An execution that holds its claim handles an event only if no earlier
\* duplicate was processed when it looked, nor can be but late.
HandlesNoDuplicate ==
  \A f \in Events : \A t \in DOMAIN execs[f] :
    execs[f][t].at \in {"handling", "committing"} /\ Holds(f, t) =>
      \A e \in Events : e < f /\ SameItem(e, f) /\ Key[e] = Key[f] => OutOfTheWay(e)

\* The verdict "last" of a claim is still true of the row it holds, and burying
\* has one of its two reasons.
BurialsJustified ==
  \A e \in Events : \A t \in DOMAIN execs[e] :
    /\ execs[e][t].last /\ Holds(e, t) => Exhausted(events[e])
    /\ execs[e][t].at = "burying" => execs[e][t].last \/ e \in terminal

IInv ==
  /\ TypeOK
  /\ RowsFenced
  /\ LateIfOvertaken
  /\ AppliedWereClaimed
  /\ HandlesNoDuplicate
  /\ BurialsJustified
  /\ ItemShowsLatest
  /\ DuplicatesApplyOnce
  /\ DeadAfterAllAttempts
-----------------------------------------------------------------------------
(* Quiet steps. *)

\* What becomes of a row in a quiet step: it is not opened, its token and
\* attempts stay while it is processed, and it dies for a reason.
QuietRow(e, r, s) ==
  /\ s.status = "processing" =>
       r.status = "processing" /\ s.token = r.token /\ s.attempts = r.attempts
  /\ s.status # "processing" => s.token = 0 /\ s.lease = 0
  /\ s.status \in {"processing", "processed"} => s.due = 0
  /\ s.status = "absent" <=> r.status = "absent"
  /\ s.status \in Open => r.status \in Open
  /\ r.status = "dead" => s.status = "dead"
  /\ s.status = "dead" =>
       (r.status = "dead" /\ s.attempts = r.attempts) \/ Exhausted(s) \/ e \in terminal'

\* What becomes of an execution of e: it handles e only if it did before or saw
\* no processed duplicate.
QuietExec(e, x, y) ==
  /\ y.at \in {"handling", "committing"} =>
       x.at \in {"handling", "committing"} \/ ~ProcessedDuplicate(e)
  /\ y.last => x.last
  /\ y.at = "burying" => y.last \/ e \in terminal'

QuietTable ==
  /\ \A e \in Events : QuietRow(e, events[e], events'[e])
  /\ \A e \in Events : Len(execs'[e]) = Len(execs[e])
  /\ \A e \in Events : \A t \in DOMAIN execs[e] : QuietExec(e, execs[e][t], execs'[e][t])
  /\ late' = late
  /\ terminal \subseteq terminal'

\* The rows and executions a quiet step leaves behind satisfy their part of the
\* invariant.
LEMMA QuietKeepsTable ==
  ASSUME IInv, TypeOK', QuietTable
  PROVE  /\ RowsFenced' /\ LateIfOvertaken' /\ HandlesNoDuplicate'
         /\ BurialsJustified' /\ DeadAfterAllAttempts'
<1> USE DEF IInv
<1>1. \A e \in Events : /\ execs[e] \in Seq(Exec) /\ execs'[e] \in Seq(Exec)
                        /\ Len(execs'[e]) = Len(execs[e])
                        /\ DOMAIN execs'[e] = DOMAIN execs[e]
                        /\ execs'[e] = <<>> <=> execs[e] = <<>>
  BY DEF TypeOK, QuietTable
<1>2. \A e \in Events : QuietRow(e, events[e], events'[e])
  BY DEF QuietTable
<1>3. \A e \in Events : Overtaken(e)' <=> Overtaken(e)
  BY <1>1 DEF Overtaken
<1>4. ASSUME NEW e \in Events, NEW t, Holds(e, t)'
      PROVE  Holds(e, t) /\ events'[e].attempts = events[e].attempts
  BY <1>2, <1>4 DEF Holds, QuietRow
<1>5. RowsFenced'
  <2> SUFFICES ASSUME NEW e \in Events
               PROVE  LET r == events'[e] IN
                      /\ r.status = "processing" => r.token = Len(execs'[e]) /\ r.token > 0 /\ r.attempts > 0
                      /\ r.status # "processing" => r.token = 0
                      /\ r.status \in {"processing", "processed"} => r.due = 0
                      /\ r.status # "processing" => r.lease = 0
                      /\ r.status = "absent" => execs'[e] = <<>>
    BY DEF RowsFenced
  <2> QED BY <1>1, <1>2 DEF QuietRow, RowsFenced
<1>6. LateIfOvertaken'
  BY <1>2, <1>3 DEF LateIfOvertaken, QuietRow, QuietTable
<1>7. HandlesNoDuplicate'
  <2> SUFFICES ASSUME NEW f \in Events, NEW t \in DOMAIN execs[f],
                      execs'[f][t].at \in {"handling", "committing"}, Holds(f, t)',
                      NEW e \in Events, e < f, SameItem(e, f), Key[e] = Key[f]
               PROVE  OutOfTheWay(e)'
    BY <1>1 DEF HandlesNoDuplicate, SameItem
  <2>1. execs[f][t].at \in {"handling", "committing"} \/ ~ProcessedDuplicate(f)
    BY DEF QuietTable, QuietExec
  <2>2. CASE execs[f][t].at \in {"handling", "committing"}
    <3>1. OutOfTheWay(e)
      BY <1>4, <2>2 DEF HandlesNoDuplicate
    <3> QED BY <1>2, <3>1 DEF OutOfTheWay, QuietRow, QuietTable
  <2>3. CASE ~ProcessedDuplicate(f)
    <3>1. events[e].status # "processed"
      BY <2>3 DEF ProcessedDuplicate, Events
    <3>2. Overtaken(e)
      BY <1>1 DEF Overtaken
    <3>3. events[e].status \in {"absent", "dead"} \/ e \in late
      BY <3>1, <3>2 DEF LateIfOvertaken, TypeOK, Row, Open
    <3> QED BY <1>2, <3>3 DEF OutOfTheWay, QuietRow, QuietTable
  <2> QED BY <2>1, <2>2, <2>3
<1>8. BurialsJustified'
  <2> SUFFICES ASSUME NEW e \in Events, NEW t \in DOMAIN execs[e]
               PROVE  /\ execs'[e][t].last /\ Holds(e, t)' => Exhausted(events'[e])
                      /\ execs'[e][t].at = "burying" => execs'[e][t].last \/ e \in terminal'
    BY <1>1 DEF BurialsJustified
  <2>1. QuietExec(e, execs[e][t], execs'[e][t])
    BY DEF QuietTable
  <2> QED BY <1>4, <2>1 DEF QuietExec, BurialsJustified, Exhausted
<1>9. DeadAfterAllAttempts'
  BY <1>2 DEF QuietRow, QuietTable, DeadAfterAllAttempts, Exhausted
<1> QED BY <1>5, <1>6, <1>7, <1>8, <1>9

\* A step that commits nothing keeps what is known of the effects.
LEMMA QuietKeepsEffects ==
  ASSUME IInv, TypeOK', QuietTable, UNCHANGED <<latest, applied, stale>>
  PROVE  IInv'
<1> USE DEF IInv
<1>1. \A e \in Events : execs'[e] = <<>> <=> execs[e] = <<>>
  BY DEF TypeOK, QuietTable
<1>2. AppliedWereClaimed'
  BY <1>1 DEF AppliedWereClaimed, TypeOK
<1>3. ItemShowsLatest'
  BY DEF ItemShowsLatest, QuietTable
<1>4. DuplicatesApplyOnce'
  <2> SUFFICES ASSUME NEW e \in applied, NEW f \in applied,
                      e < f, SameItem(e, f), Key[e] = Key[f]
               PROVE  events'[e].status = "dead" \/ e \in late \cup stale \/ f \in stale
    BY DEF DuplicatesApplyOnce, QuietTable, SameItem
  <2>1. events[e].status = "dead" \/ e \in late \cup stale \/ f \in stale
    BY DEF DuplicatesApplyOnce
  <2> QED BY <2>1 DEF QuietTable, QuietRow, TypeOK
<1> QED BY QuietKeepsTable, <1>2, <1>3, <1>4
-----------------------------------------------------------------------------
(* Executions. *)

\* The places a step can put an execution.
Places == {"claimed", "releasing", "checking", "handling", "committing",
           "marking", "retrying", "burying", "ended"}

\* A sequence whose entries are replaced keeps its length.
LEMMA Reshaped ==
  ASSUME NEW S, NEW s \in Seq(S), NEW g \in [DOMAIN s -> S]
  PROVE  g \in Seq(S) /\ Len(g) = Len(s) /\ DOMAIN g = DOMAIN s
OBVIOUS

\* An execution stays well-formed wherever it goes.
LEMMA ExecTyping ==
  ASSUME TypeOK, NEW e \in Events, NEW t \in DOMAIN execs[e]
  PROVE  /\ execs[e][t] \in Exec
         /\ \A p \in Places : [execs[e][t] EXCEPT !.at = p] \in Exec
         /\ [execs[e][t] EXCEPT !.aborted = TRUE] \in Exec
         /\ Ended \in Exec
<1>1. execs[e][t] \in Exec
  BY DEF TypeOK
<1> QED BY <1>1 DEF Exec, Ended, Places

\* Ending an execution, telling it to abort or not awaiting it is quiet.
LEMMA ExecQuiet ==
  ASSUME IInv, NEW e \in Events, NEW t \in DOMAIN execs[e], terminal \subseteq terminal'
  PROVE  \A y \in {execs[e][t], Ended, [execs[e][t] EXCEPT !.awaited = FALSE]}
                  \cup {[execs[e][t] EXCEPT !.aborted = b] : b \in BOOLEAN} :
           y \in Exec /\ QuietExec(e, execs[e][t], y)
<1> DEFINE x == execs[e][t]
<1>1. x \in Exec /\ (x.at = "burying" => x.last \/ e \in terminal)
  BY ExecTyping DEF IInv, BurialsJustified
<1>2. Ended \in Exec /\ QuietExec(e, x, Ended)
  BY ExecTyping DEF IInv, QuietExec, Ended
<1>3. ASSUME NEW y \in Exec, y.at = x.at, y.last = x.last PROVE QuietExec(e, x, y)
  BY <1>1, <1>3 DEF QuietExec
<1>4. /\ [x EXCEPT !.awaited = FALSE] \in Exec
      /\ \A b \in BOOLEAN : [x EXCEPT !.aborted = b] \in Exec
  BY <1>1 DEF Exec
<1>5. /\ QuietExec(e, x, x)
      /\ QuietExec(e, x, [x EXCEPT !.awaited = FALSE])
      /\ \A b \in BOOLEAN : QuietExec(e, x, [x EXCEPT !.aborted = b])
  BY <1>1, <1>3, <1>4 DEF Exec
<1> QED BY <1>1, <1>2, <1>4, <1>5

\* SetExec changes one execution.
LEMMA SetExecKeeps ==
  ASSUME TypeOK, NEW e \in Events, NEW t \in DOMAIN execs[e], NEW y \in Exec, SetExec(e, t, y)
  PROVE  /\ execs' \in [Events -> Seq(Exec)]
         /\ \A f \in Events : Len(execs'[f]) = Len(execs[f])
         /\ \A f \in Events : \A u \in DOMAIN execs[f] :
              execs'[f][u] = IF f = e /\ u = t THEN y ELSE execs[f][u]
BY DEF SetExec, TypeOK

\* A row that stays as it is, is only extended, or ages, is quiet; so is one
\* whose claim ends with a retry, or with a reason.
LEMMA RowQuiet ==
  ASSUME IInv, NEW e \in Events, NEW s \in Row,
         terminal \subseteq terminal',
         \/ s = events[e]
         \/ /\ events[e].status = "processing"
            /\ s.status \in {"processed", "pending", "dead"}
            /\ s.token = 0 /\ s.lease = 0
            /\ s.status = "processed" => s.due = 0
            /\ s.status = "dead" => Exhausted(s) \/ e \in terminal
  PROVE  QuietRow(e, events[e], s)
BY DEF IInv, RowsFenced, QuietRow, TypeOK, Row, Open

\* A step of one execution that settles at most its own row.
LEMMA OneExecQuiet ==
  ASSUME IInv, NEW e \in Events, NEW t \in DOMAIN execs[e], NEW y \in Exec, SetExec(e, t, y),
         QuietExec(e, execs[e][t], y),
         NEW s \in Row, QuietRow(e, events[e], s),
         events' = [events EXCEPT ![e] = s],
         UNCHANGED <<mode, outages, replays, late>>,
         terminal \subseteq terminal', terminal' \subseteq Events
  PROVE  /\ UNCHANGED <<latest, applied, stale>> => TypeOK'
         /\ QuietTable
<1> USE DEF IInv
<1>1. \A f \in Events : QuietRow(f, events[f], events'[f])
  <2> TAKE f \in Events
  <2>1. CASE f = e
    BY <2>1 DEF TypeOK
  <2>2. CASE f # e
    BY <2>2, RowQuiet DEF TypeOK
  <2> QED BY <2>1, <2>2
<1>2. ASSUME NEW f \in Events, NEW u \in DOMAIN execs[f], f # e \/ u # t
      PROVE  QuietExec(f, execs[f][u], execs'[f][u])
  BY <1>2, SetExecKeeps DEF QuietExec, BurialsJustified
<1>3. QuietTable
  BY <1>1, <1>2, SetExecKeeps DEF QuietTable
<1>4. UNCHANGED <<latest, applied, stale>> => TypeOK'
  BY SetExecKeeps DEF TypeOK
<1> QED BY <1>3, <1>4

\* What a held claim may leave behind when it is settled.
LEMMA SettledRows ==
  ASSUME IInv, NEW e \in Events, NEW t \in DOMAIN execs[e]
  PROVE  /\ events[e] \in Row /\ Marked(e) \in Row
         /\ Unlocked("pending", events[e].attempts, RetryTicks) \in Row
         /\ Unlocked("dead", events[e].attempts, events[e].due) \in Row
         /\ Holds(e, t) => /\ Unlocked("pending", events[e].attempts - 1, 0) \in Row
                           /\ events[e].status = "processing"
                           /\ events[e].due = 0
         /\ \A r : Settled(e, t, r) = [events EXCEPT ![e] = IF Holds(e, t) THEN r ELSE events[e]]
<1>1. events[e] \in Row /\ events \in [Events -> Row]
  BY DEF IInv, TypeOK
<1>2. Holds(e, t) => events[e].attempts > 0 /\ events[e].status = "processing" /\ events[e].due = 0
  BY DEF IInv, RowsFenced, Holds
<1>3. \A r : Settled(e, t, r) = [events EXCEPT ![e] = IF Holds(e, t) THEN r ELSE events[e]]
  BY <1>1 DEF Settled
<1> QED BY <1>1, <1>2, <1>3, InboundAssumption DEF Marked, Unlocked, Row, Open

\* Every step of an execution but its commit is quiet.
LEMMA ExecStepQuiet ==
  ASSUME IInv, NEW e \in Events, NEW t \in DOMAIN execs[e], ExecNext(e, t), ~Commit(e, t)
  PROVE  TypeOK' /\ QuietTable /\ UNCHANGED <<latest, applied, stale>>
<1> DEFINE x == execs[e][t]
<1> USE DEF Places
<1>1. /\ x \in Exec
      /\ \A p \in Places : [x EXCEPT !.at = p] \in Exec
      /\ [x EXCEPT !.aborted = TRUE] \in Exec
      /\ Ended \in Exec
  BY ExecTyping DEF IInv
<1>2. QuietRow(e, events[e], events[e]) \/ ~(terminal \subseteq terminal')
  BY RowQuiet DEF IInv, TypeOK
<1>3. events \in [Events -> Row] /\ terminal \subseteq Events
  BY DEF IInv, TypeOK
\* An execution moves on, or ends when it is known to be aborted.
<1>4. ASSUME NEW p \in Places, OnUnlessAborted(e, t, p)
      PROVE  \E y \in Exec : SetExec(e, t, y) /\ y \in {Ended, [x EXCEPT !.at = p]}
  BY <1>1, <1>4 DEF OnUnlessAborted, End, Goto
<1>5. ASSUME NEW p \in {"claimed", "releasing", "checking", "marking", "retrying", "ended"}
      PROVE  QuietExec(e, x, [x EXCEPT !.at = p]) /\ QuietExec(e, x, Ended)
  BY <1>1, <1>5 DEF QuietExec, Exec, Ended
\* Steps that leave the table alone.
<1>6. ASSUME NEW y \in Exec, SetExec(e, t, y), QuietExec(e, x, y), UNCHANGED <<events, mode, outages, replays, history>>
      PROVE  TypeOK' /\ QuietTable /\ UNCHANGED <<latest, applied, stale>>
  <2>1. QuietRow(e, events[e], events[e]) /\ events' = [events EXCEPT ![e] = events[e]]
    BY <1>2, <1>3, <1>6 DEF history
  <2> QED BY <1>3, <1>6, <2>1, OneExecQuiet DEF history, IInv, TypeOK
<1>7. CASE Start(e, t) \/ ClaimReplyLost(e, t) \/ ReleaseFault(e, t)
  BY <1>1, <1>5, <1>6, <1>7 DEF Start, ClaimReplyLost, ReleaseFault, Goto, End
<1>8. CASE CheckDuplicate(e, t)
  <2>1. CASE ProcessedDuplicate(e)
    BY <1>4, <1>5, <1>6, <1>8, <2>1 DEF CheckDuplicate
  <2>2. CASE ~ProcessedDuplicate(e)
    <3>1. \A y \in {Ended, [x EXCEPT !.at = "handling"]} : QuietExec(e, x, y)
      BY <1>1, <2>2 DEF QuietExec, Exec, Ended
    <3> QED BY <1>4, <1>6, <1>8, <2>2, <3>1 DEF CheckDuplicate
  <2> QED BY <2>1, <2>2
<1>9. CASE HandlerIgnores(e, t)
  BY <1>4, <1>5, <1>6, <1>9 DEF HandlerIgnores
<1>10. CASE HandlerCommits(e, t)
  <2>1. \A y \in {Ended, [x EXCEPT !.at = "committing"]} : QuietExec(e, x, y)
    BY <1>1, <1>10 DEF HandlerCommits, At, QuietExec, Exec, Ended
  <2> QED BY <1>4, <1>6, <1>10, <2>1 DEF HandlerCommits
\* The catch clause has a reason to bury.
<1>11. ASSUME NEW i \in BOOLEAN, Caught(e, t, i), i => e \in terminal'
       PROVE  \E y \in Exec : SetExec(e, t, y) /\ QuietExec(e, x, y)
  <2>1. CASE i \/ x.last
    <3>1. \A y \in {Ended, [x EXCEPT !.at = "burying"]} : QuietExec(e, x, y)
      BY <1>1, <1>11, <2>1 DEF QuietExec, Exec, Ended
    <3> QED BY <1>4, <1>11, <2>1, <3>1 DEF Caught
  <2>2. CASE ~(i \/ x.last)
    BY <1>4, <1>5, <1>11, <2>2 DEF Caught
  <2> QED BY <2>1, <2>2
<1>12. ASSUME NEW i \in BOOLEAN, HandlerThrows(e, t, i)
       PROVE  TypeOK' /\ QuietTable /\ UNCHANGED <<latest, applied, stale>>
  <2>1. terminal \subseteq terminal' /\ terminal' \subseteq Events /\ (i => e \in terminal')
    BY <1>3, <1>12 DEF HandlerThrows
  <2>2. PICK y \in Exec : SetExec(e, t, y) /\ QuietExec(e, x, y)
    BY <1>11, <1>12, <2>1 DEF HandlerThrows
  <2>3. QuietRow(e, events[e], events[e]) /\ events' = [events EXCEPT ![e] = events[e]]
    BY <1>2, <1>3, <1>12, <2>1 DEF HandlerThrows
  <2> QED BY <1>3, <1>12, <2>1, <2>2, <2>3, OneExecQuiet DEF HandlerThrows
<1>12a. CASE \E i \in BOOLEAN : HandlerThrows(e, t, i)
  BY <1>12, <1>12a
\* Steps that settle the row if the claim is held.
<1>13. ASSUME NEW r, Holds(e, t) => r \in Row /\ QuietRow(e, events[e], r),
              events' \in {events, Settled(e, t, r)},
              NEW y \in Exec, SetExec(e, t, y), QuietExec(e, x, y),
              UNCHANGED <<mode, outages, replays, history>>
       PROVE  TypeOK' /\ QuietTable /\ UNCHANGED <<latest, applied, stale>>
  <2>1. PICK s \in Row : events' = [events EXCEPT ![e] = s] /\ QuietRow(e, events[e], s)
    BY <1>2, <1>3, <1>13, SettledRows DEF history
  <2> QED BY <1>3, <1>13, <2>1, OneExecQuiet DEF history
<1>14. ASSUME terminal' = terminal, Holds(e, t)
       PROVE  /\ QuietRow(e, events[e], Marked(e))
              /\ QuietRow(e, events[e], Unlocked("pending", events[e].attempts, RetryTicks))
              /\ QuietRow(e, events[e], Unlocked("pending", events[e].attempts - 1, 0))
              /\ x.at = "burying" => QuietRow(e, events[e], Unlocked("dead", events[e].attempts, events[e].due))
  <2>1. x.at = "burying" => Exhausted(events[e]) \/ e \in terminal
    BY <1>14 DEF IInv, BurialsJustified
  <2> QED BY <1>14, <2>1, SettledRows, RowQuiet DEF Marked, Unlocked, Exhausted
<1>15. CASE MarkProcessed(e, t)
  BY <1>1, <1>5, <1>13, <1>14, <1>15, SettledRows DEF MarkProcessed, End, history
<1>16. CASE MarkFault(e, t)
  BY <1>11, <1>13, <1>14, <1>16, SettledRows DEF MarkFault, history
<1>17. CASE ScheduleRetry(e, t)
  BY <1>1, <1>5, <1>13, <1>14, <1>17, SettledRows DEF ScheduleRetry, End, history
<1>18. CASE MarkDead(e, t)
  BY <1>1, <1>5, <1>13, <1>14, <1>18, SettledRows DEF MarkDead, At, End, history
<1>19. CASE Release(e, t)
  BY <1>1, <1>5, <1>13, <1>14, <1>19, SettledRows DEF Release, End, history
<1>20. CASE HeartbeatFault(e, t) \/ (HeartbeatTick(e, t) /\ ~Holds(e, t))
  <2>1. QuietExec(e, x, [x EXCEPT !.aborted = TRUE])
    BY <1>20, ExecQuiet DEF HeartbeatFault, HeartbeatTick, history
  <2> QED BY <1>1, <1>6, <1>20, <2>1 DEF HeartbeatFault, HeartbeatTick
<1>21. CASE HeartbeatTick(e, t) /\ Holds(e, t)
  <2> DEFINE s == [events[e] EXCEPT !.lease = LeaseTicks]
  <2>1. s \in Row /\ QuietRow(e, events[e], s)
    BY <1>3, <1>21, InboundAssumption DEF Row, QuietRow, Holds, IInv, RowsFenced, Open
  <2>2. events' = [events EXCEPT ![e] = s] /\ UNCHANGED <<execs, mode, outages, replays, history>>
    BY <1>3, <1>21 DEF HeartbeatTick
  <2>3. \A f \in Events : QuietRow(f, events[f], events'[f])
    BY <1>3, <2>1, <2>2, RowQuiet DEF history
  <2>4. \A f \in Events : \A u \in DOMAIN execs[f] : QuietExec(f, execs[f][u], execs[f][u])
    BY <2>2, ExecQuiet DEF history
  <2> QED BY <1>3, <2>1, <2>2, <2>3, <2>4 DEF QuietTable, IInv, TypeOK, history
\* The executions of one worker are no longer awaited.
<1>22. CASE CatchFault(e, t)
  <2>1. ASSUME NEW f \in Events
        PROVE  /\ execs'[f] \in Seq(Exec) /\ Len(execs'[f]) = Len(execs[f])
               /\ \A u \in DOMAIN execs[f] : QuietExec(f, execs[f][u], execs'[f][u])
    <3>1. execs[f] \in Seq(Exec)
      BY DEF IInv, TypeOK
    <3>2. ASSUME NEW u \in DOMAIN execs[f]
          PROVE  execs'[f][u] \in {Ended, [execs[f][u] EXCEPT !.awaited = FALSE], execs[f][u]}
      BY <1>22 DEF CatchFault
    <3>3. ASSUME NEW u \in DOMAIN execs[f]
          PROVE  execs'[f][u] \in Exec /\ QuietExec(f, execs[f][u], execs'[f][u])
      BY <3>2, <1>22, ExecQuiet DEF CatchFault, history
    <3>4. execs'[f] \in [DOMAIN execs[f] -> Exec]
      BY <1>22, <3>3 DEF CatchFault
    <3> QED BY <3>1, <3>3, <3>4, Reshaped
  <2>2. execs' \in [Events -> Seq(Exec)]
    BY <1>22, <2>1 DEF CatchFault
  <2>3. \A f \in Events : QuietRow(f, events[f], events'[f])
    BY <1>3, <1>22, RowQuiet DEF CatchFault, history
  <2> QED BY <1>22, <2>1, <2>2, <2>3 DEF CatchFault, QuietTable, IInv, TypeOK, history
<1> QED
  BY <1>7, <1>8, <1>9, <1>10, <1>12a, <1>15, <1>16, <1>17, <1>18, <1>19, <1>20, <1>21, <1>22
     DEF ExecNext, Progress

\* Stops, ends and deaths of processes, and the passage of time, are quiet.
LEMMA EnvironmentQuiet ==
  ASSUME IInv, \/ \E w \in Workers : Stop(w) \/ Exit(w) \/ Crash(w)
               \/ Tick
  PROVE  TypeOK' /\ QuietTable /\ UNCHANGED <<latest, applied, stale>>
<1> USE DEF IInv
<1>1. events \in [Events -> Row] /\ execs \in [Events -> Seq(Exec)]
  BY DEF TypeOK
<1>2. CASE \E w \in Workers : Stop(w) \/ Exit(w) \/ Crash(w)
  <2>1. PICK w \in Workers : Stop(w) \/ Exit(w) \/ Crash(w)
    BY <1>2
  <2>2. ASSUME NEW e \in Events, NEW t \in DOMAIN execs[e]
        PROVE  execs'[e][t] \in {execs[e][t], Ended} \cup {[execs[e][t] EXCEPT !.aborted = b] : b \in BOOLEAN}
    <3>1. CASE Stop(w)
      BY <1>1, <3>1 DEF Stop, EachOf
    <3>2. CASE Exit(w) \/ Crash(w)
      BY <3>2 DEF Exit, Crash, EachOf
    <3> QED BY <2>1, <3>1, <3>2
  <2>3. \A e \in Events : \A t \in DOMAIN execs[e] :
          execs'[e][t] \in Exec /\ QuietExec(e, execs[e][t], execs'[e][t])
    BY <2>1, <2>2, ExecQuiet DEF Stop, Exit, Crash, history
  <2>4. /\ execs' \in [Events -> Seq(Exec)]
        /\ \A e \in Events : Len(execs'[e]) = Len(execs[e])
    <3>1. execs' = [e \in Events |-> [t \in DOMAIN execs[e] |-> execs'[e][t]]]
      BY <2>1 DEF Stop, Exit, Crash, EachOf
    <3>2. \A e \in Events : execs'[e] \in [DOMAIN execs[e] -> Exec]
      BY <2>3, <3>1
    <3> QED BY <1>1, <3>1, <3>2, Reshaped
  <2>5. \A e \in Events : QuietRow(e, events[e], events'[e])
    BY <1>1, <2>1, RowQuiet DEF Stop, Exit, Crash, history
  <2>6. UNCHANGED <<events, replays, history>>
    BY <2>1 DEF Stop, Exit, Crash
  <2>7. mode' \in [Workers -> {"up", "stopping"}] /\ outages' \in 0..MaxOutages
    <3>1. mode \in [Workers -> {"up", "stopping"}] /\ outages \in 0..MaxOutages
      BY DEF TypeOK
    <3>2. CASE Stop(w)
      BY <3>1, <3>2, InboundAssumption DEF Stop
    <3>3. CASE Exit(w)
      BY <3>1, <3>3 DEF Exit
    <3>4. CASE Crash(w)
      BY <3>1, <3>4, InboundAssumption DEF Crash
    <3> QED BY <2>1, <3>2, <3>3, <3>4
  <2>8. TypeOK'
    BY <2>4, <2>6, <2>7 DEF TypeOK, history
  <2> QED BY <2>3, <2>4, <2>5, <2>6, <2>8 DEF QuietTable, history
<1>3. CASE Tick
  <2>1. ASSUME NEW e \in Events
        PROVE  events'[e] \in Row /\ QuietRow(e, events[e], events'[e])
    <3>1. events[e] \in Row /\ events'[e] = [events[e] EXCEPT !.due = Sooner(@), !.lease = Sooner(@)]
      BY <1>1, <1>3 DEF Tick
    <3>2. events'[e] \in Row
      <4>1. /\ \A n \in 0..RetryTicks : Sooner(n) \in 0..RetryTicks
            /\ \A n \in 0..LeaseTicks : Sooner(n) \in 0..LeaseTicks
        BY InboundAssumption DEF Sooner
      <4> QED BY <3>1, <4>1 DEF Row
    <3>3. terminal' = terminal
      BY <1>3 DEF Tick, history
    <3> QED BY <3>1, <3>2, <3>3
            DEF Row, QuietRow, Sooner, RowsFenced, DeadAfterAllAttempts, Exhausted, Open
  <2>2. \A e \in Events : \A t \in DOMAIN execs[e] : QuietExec(e, execs[e][t], execs'[e][t])
    BY <1>3, ExecQuiet DEF Tick, workers, history
  <2>3. events' \in [Events -> Row]
    BY <1>3, <2>1 DEF Tick
  <2> QED BY <1>3, <2>1, <2>2, <2>3 DEF Tick, QuietTable, TypeOK, workers, history
<1> QED BY <1>2, <1>3
-----------------------------------------------------------------------------
(* The steps that are not quiet. *)

\* An event that arrives, or is replayed, behind a later claim is late.
LEMMA BecomesPendingKeeps ==
  ASSUME IInv, NEW e \in Events, Insert(e) \/ Replay(e)
  PROVE  IInv'
<1> USE DEF IInv
<1>1. /\ events' = [events EXCEPT ![e] = Unlocked("pending", 0, 0)]
      /\ late' = IF Overtaken(e) THEN late \cup {e} ELSE late
      /\ UNCHANGED <<execs, mode, outages, latest, applied, stale, terminal>>
      /\ events[e].status \in {"absent", "dead"}
      /\ replays' \in 0..MaxReplays
  <2>1. CASE Insert(e)
    BY <2>1 DEF Insert, BecomesPending, workers, TypeOK
  <2>2. CASE Replay(e)
    BY <2>2, InboundAssumption DEF Replay, BecomesPending, workers, TypeOK
  <2> QED BY <2>1, <2>2
<1>2. /\ events \in [Events -> Row]
      /\ \A f \in Events : events'[f] = IF f = e THEN Unlocked("pending", 0, 0) ELSE events[f]
  BY <1>1 DEF TypeOK
<1>3. /\ late \subseteq late'
      /\ \A f \in Events : f > e /\ SameItem(e, f) /\ execs[f] # <<>> => e \in late'
      /\ \A f \in Events : f # e => (f \in late' <=> f \in late)
  BY <1>1 DEF Overtaken
<1>4. TypeOK'
  BY <1>1, InboundAssumption DEF TypeOK, Unlocked, Row, Open
<1>5. RowsFenced'
  BY <1>1, <1>2 DEF RowsFenced, Unlocked
<1>6. LateIfOvertaken'
  BY <1>1, <1>2, <1>3 DEF LateIfOvertaken, Overtaken, SameItem
<1>7. AppliedWereClaimed'
  BY <1>1 DEF AppliedWereClaimed
<1>8. \A f \in Events : \A t : Holds(f, t)' => f # e /\ Holds(f, t) /\ events'[f] = events[f]
  BY <1>2 DEF Holds, Unlocked
<1>9. HandlesNoDuplicate'
  <2> SUFFICES ASSUME NEW f \in Events, NEW t \in DOMAIN execs[f],
                      execs[f][t].at \in {"handling", "committing"}, Holds(f, t)',
                      NEW g \in Events, g < f, SameItem(g, f), Key[g] = Key[f]
               PROVE  OutOfTheWay(g)'
    BY <1>1 DEF HandlesNoDuplicate, SameItem
  <2>1. CASE g = e
    <3>1. execs[f] # <<>>
      BY DEF TypeOK
    <3> QED BY <1>3, <2>1, <3>1 DEF OutOfTheWay, Events
  <2>2. CASE g # e
    BY <1>2, <1>3, <1>8, <2>2 DEF HandlesNoDuplicate, OutOfTheWay
  <2> QED BY <2>1, <2>2
<1>10. BurialsJustified'
  BY <1>1, <1>8 DEF BurialsJustified, Exhausted
<1>11. ItemShowsLatest'
  BY <1>1, <1>3 DEF ItemShowsLatest
<1>12. DuplicatesApplyOnce'
  <2> SUFFICES ASSUME NEW g \in applied, NEW f \in applied,
                      g < f, SameItem(g, f), Key[g] = Key[f]
               PROVE  events'[g].status = "dead" \/ g \in late' \cup stale \/ f \in stale
    BY <1>1 DEF DuplicatesApplyOnce, SameItem
  <2>1. f \in Events /\ g \in Events /\ execs[f] # <<>>
    BY DEF AppliedWereClaimed, TypeOK
  <2>2. CASE g = e
    BY <1>3, <2>1, <2>2 DEF Events
  <2>3. CASE g # e
    BY <1>2, <1>3, <2>1, <2>3 DEF DuplicatesApplyOnce
  <2> QED BY <2>2, <2>3
<1>13. DeadAfterAllAttempts'
  BY <1>1, <1>2 DEF DeadAfterAllAttempts, Unlocked, Exhausted
<1> QED BY <1>4, <1>5, <1>6, <1>7, <1>9, <1>10, <1>11, <1>12, <1>13

\* What one claim does to each event: it is claimed, buried or left alone.
Taken(e) ==
  /\ events[e].status \in Open /\ events[e].due = 0
  /\ events'[e] = Claimed(events[e], Len(execs[e]) + 1)
  /\ \E x \in Exec : /\ execs'[e] = Append(execs[e], x)
                     /\ x.at = "claimed"
                     /\ x.last <=> Exhausted(events'[e])

Buried(e) ==
  /\ events[e].status \in Open /\ Exhausted(events[e])
  /\ events'[e] = Unlocked("dead", events[e].attempts, events[e].due)
  /\ execs'[e] = execs[e]

LeftAlone(e) == events'[e] = events[e] /\ execs'[e] = execs[e]

\* What the claim's statement leaves of the rows and executions.
LEMMA ClaimEffect ==
  ASSUME IInv, NEW w \in Workers,
         NEW D \in SUBSET {e \in Events : Buriable(e)},
         NEW S \in SUBSET {e \in Events : Claimable(e)},
         Claim(w, D, S)
  PROVE  \A e \in Events : /\ e \in S => Taken(e)
                           /\ e \notin S => Buried(e) \/ LeftAlone(e)
<1> TAKE e \in Events
<1>1. CASE e \in S
  <2>1. events[e].status \in Open /\ events[e].due = 0
    BY <1>1 DEF Claimable, LeaseOver, Open, IInv, RowsFenced
  <2>2. events'[e] = Claimed(events[e], Len(execs[e]) + 1)
    BY <1>1 DEF Claim, Token
  <2> DEFINE x == [at |-> "claimed", by |-> w, aborted |-> FALSE,
                   awaited |-> TRUE, last |-> Exhausted(events'[e])]
  <2>3. x \in Exec /\ execs'[e] = Append(execs[e], x)
    BY <1>1 DEF Claim, Exec, Exhausted
  <2> QED BY <1>1, <2>1, <2>2, <2>3 DEF Taken
<1>2. CASE e \notin S /\ e \in D
  BY <1>2 DEF Claim, Buriable, LeaseOver, Open, Buried
<1>3. CASE e \notin S /\ e \notin D
  BY <1>3 DEF Claim, LeftAlone
<1> QED BY <1>1, <1>2, <1>3

\* The claim of an event takes it only when no earlier one of its item is open,
\* so that what opens later is late.
LEMMA ClaimKeeps ==
  ASSUME IInv, NEW w \in Workers,
         NEW D \in SUBSET {e \in Events : Buriable(e)},
         NEW S \in SUBSET {e \in Events : Claimable(e)},
         Claim(w, D, S)
  PROVE  IInv'
<1> USE DEF IInv
<1>0. \A e \in Events : /\ e \in S => Taken(e)
                        /\ e \notin S => Buried(e) \/ LeftAlone(e)
  BY ClaimEffect
<1>a. ASSUME NEW e \in Events, Taken(e)
      PROVE  /\ events[e].status \in Open /\ events[e].due = 0
             /\ events'[e].status = "processing" /\ events'[e].due = 0
             /\ events'[e].attempts = events[e].attempts + 1
             /\ events'[e].token = Len(execs[e]) + 1
  BY <1>a DEF Taken, Claimed
<1>b. ASSUME NEW e \in Events, Buried(e)
      PROVE  /\ events[e].status \in Open /\ Exhausted(events[e])
             /\ events'[e].status = "dead" /\ events'[e].attempts = events[e].attempts
             /\ events'[e].token = 0 /\ events'[e].lease = 0
             /\ execs'[e] = execs[e]
  BY <1>b DEF Buried, Unlocked
<1>c. ASSUME NEW e \in Events, LeftAlone(e)
      PROVE  events'[e] = events[e] /\ execs'[e] = execs[e]
  BY <1>c DEF LeftAlone
<1>1. ASSUME NEW e \in Events
      PROVE  /\ events[e] \in Row /\ execs[e] \in Seq(Exec)
             /\ events'[e] \in Row /\ execs'[e] \in Seq(Exec)
  <2>1. events[e] \in Row /\ execs[e] \in Seq(Exec)
    BY DEF TypeOK
  <2>2. CASE e \in S
    <3>1. events[e].attempts < MaxAttempts
      BY <2>1, <2>2, InboundAssumption DEF Claimable, Exhausted, Row
    <3>2. Claimed(events[e], Len(execs[e]) + 1) \in Row
      BY <2>1, <3>1, InboundAssumption DEF Claimed, Row, Open
    <3>3. \A x \in Exec : Append(execs[e], x) \in Seq(Exec)
      BY <2>1
    <3> QED BY <1>0, <2>1, <2>2, <3>2, <3>3 DEF Taken
  <2>3. CASE Buried(e)
    <3>1. Unlocked("dead", events[e].attempts, events[e].due) \in Row
      BY <2>1, InboundAssumption DEF Unlocked, Row
    <3> QED BY <2>1, <2>3, <3>1 DEF Buried
  <2>4. CASE LeftAlone(e)
    BY <2>1, <2>4 DEF LeftAlone
  <2> QED BY <1>0, <2>1, <2>2, <2>3, <2>4
<1>2. UNCHANGED <<mode, outages, replays, latest, applied, stale, late, terminal>>
  BY DEF Claim, history
<1>3. TypeOK'
  <2>1. events' \in [Events -> Row] /\ execs' \in [Events -> Seq(Exec)]
    BY <1>1 DEF Claim
  <2> QED BY <1>2, <2>1 DEF TypeOK
<1>4. \A e \in Events :
        /\ e \in S => /\ Len(execs'[e]) = Len(execs[e]) + 1
                      /\ \A t \in DOMAIN execs[e] : execs'[e][t] = execs[e][t]
                      /\ execs'[e][Len(execs[e]) + 1].at = "claimed"
                      /\ execs'[e][Len(execs[e]) + 1].last <=> Exhausted(events'[e])
                      /\ DOMAIN execs'[e] = DOMAIN execs[e] \cup {Len(execs[e]) + 1}
        /\ e \notin S => execs'[e] = execs[e]
        /\ execs[e] # <<>> => execs'[e] # <<>>
  BY <1>0, <1>1 DEF Taken, Buried, LeftAlone
<1>5. RowsFenced'
  <2> SUFFICES ASSUME NEW e \in Events
               PROVE  LET r == events'[e] IN
                      /\ r.status = "processing" => r.token = Len(execs'[e]) /\ r.token > 0 /\ r.attempts > 0
                      /\ r.status # "processing" => r.token = 0
                      /\ r.status \in {"processing", "processed"} => r.due = 0
                      /\ r.status # "processing" => r.lease = 0
                      /\ r.status = "absent" => execs'[e] = <<>>
    BY DEF RowsFenced
  <2>1. CASE e \in S
    <3>1. Len(execs[e]) \in Nat /\ events[e].attempts \in Nat
      BY <1>1, InboundAssumption DEF Row
    <3>2. Taken(e) /\ Len(execs'[e]) = Len(execs[e]) + 1
      BY <1>0, <1>4, <2>1
    <3> QED BY <1>a, <3>1, <3>2
  <2>2. CASE Buried(e)
    BY <1>b, <2>2
  <2>3. CASE LeftAlone(e)
    BY <1>c, <2>3 DEF RowsFenced
  <2> QED BY <1>0, <2>1, <2>2, <2>3
<1>6. LateIfOvertaken'
  <2> SUFFICES ASSUME NEW e \in Events, events'[e].status \in Open,
                      NEW f \in Events, f > e, SameItem(e, f), execs'[f] # <<>>
               PROVE  e \in late
    BY <1>2 DEF LateIfOvertaken, Overtaken, SameItem
  <2>1. events[e].status \in Open
    BY <1>0 DEF Unlocked, Open, Taken, Buried, LeftAlone
  <2>2. f \notin S
    <3>1. HeldBack(f) <=> \E g \in Events : g < f /\ SameItem(g, f) /\ events[g].status \in Open
      BY DEF HeldBack, SameItem
    <3>2. e < f
      BY DEF Events
    <3> QED BY <2>1, <3>1, <3>2 DEF Claimable
  <2>3. execs[f] # <<>>
    BY <1>4, <2>2
  <2> QED BY <2>1, <2>3 DEF LateIfOvertaken, Overtaken
<1>7. AppliedWereClaimed'
  BY <1>2, <1>4 DEF AppliedWereClaimed, TypeOK
<1>8. ASSUME NEW e \in Events, NEW t \in DOMAIN execs[e], Holds(e, t)'
      PROVE  events'[e] = events[e] /\ Holds(e, t) /\ execs'[e] = execs[e]
  <2>1. t \in 1..Len(execs[e])
    BY <1>1
  <2>2. e \notin S
    <3>1. e \in S => events'[e].token = Len(execs[e]) + 1
      BY <1>0, <1>a
    <3> QED BY <1>1, <1>8, <2>1, <3>1 DEF Holds
  <2>3. LeftAlone(e)
    BY <1>0, <1>8, <1>b, <2>2 DEF Holds
  <2> QED BY <1>8, <2>3 DEF Holds, LeftAlone
<1>9. HandlesNoDuplicate'
  <2> SUFFICES ASSUME NEW f \in Events, NEW t \in DOMAIN execs'[f],
                      execs'[f][t].at \in {"handling", "committing"}, Holds(f, t)',
                      NEW e \in Events, e < f, SameItem(e, f), Key[e] = Key[f]
               PROVE  OutOfTheWay(e)'
    BY DEF HandlesNoDuplicate, SameItem
  <2>1. t \in DOMAIN execs[f]
    BY <1>4
  <2>2. OutOfTheWay(e)
    BY <1>8, <2>1 DEF HandlesNoDuplicate
  <2>3. events[e].status \in {"absent", "dead"} => events'[e] = events[e]
    BY <1>0 DEF Open, Taken, Buried, LeftAlone
  <2> QED BY <1>2, <2>2, <2>3 DEF OutOfTheWay
<1>10. BurialsJustified'
  <2> SUFFICES ASSUME NEW e \in Events, NEW t \in DOMAIN execs'[e]
               PROVE  /\ execs'[e][t].last /\ Holds(e, t)' => Exhausted(events'[e])
                      /\ execs'[e][t].at = "burying" => execs'[e][t].last \/ e \in terminal
    BY <1>2 DEF BurialsJustified
  <2>1. CASE t \in DOMAIN execs[e]
    <3>1. execs'[e][t] = execs[e][t]
      BY <1>4, <2>1
    <3> QED BY <1>8, <2>1, <3>1 DEF BurialsJustified, Exhausted
  <2>2. CASE t \notin DOMAIN execs[e]
    BY <1>4, <2>2
  <2> QED BY <2>1, <2>2
<1>11. ItemShowsLatest'
  BY <1>2 DEF ItemShowsLatest
<1>12. DuplicatesApplyOnce'
  <2> SUFFICES ASSUME NEW e \in applied, NEW f \in applied,
                      e < f, SameItem(e, f), Key[e] = Key[f]
               PROVE  events'[e].status = "dead" \/ e \in late \cup stale \/ f \in stale
    BY <1>2 DEF DuplicatesApplyOnce, SameItem
  <2>1. events[e].status = "dead" => events'[e].status = "dead"
    BY <1>0 DEF Open, Taken, Buried, LeftAlone, TypeOK
  <2> QED BY <2>1 DEF DuplicatesApplyOnce
<1>13. DeadAfterAllAttempts'
  <2> SUFFICES ASSUME NEW e \in Events, events'[e].status = "dead"
               PROVE  Exhausted(events'[e]) \/ e \in terminal
    BY <1>2 DEF DeadAfterAllAttempts
  <2>1. CASE Buried(e)
    BY <1>b, <2>1 DEF Exhausted
  <2>2. CASE LeftAlone(e)
    BY <1>c, <2>2 DEF DeadAfterAllAttempts
  <2> QED BY <1>0, <1>a, <2>1, <2>2
<1> QED BY <1>3, <1>5, <1>6, <1>7, <1>9, <1>10, <1>11, <1>12, <1>13

\* A commit under a held claim shows the latest event of its item and repeats no
\* duplicate; any other is known as stale.
LEMMA CommitKeeps ==
  ASSUME IInv, NEW e \in Events, NEW t \in DOMAIN execs[e], Commit(e, t)
  PROVE  IInv'
<1> USE DEF IInv
<1>1. /\ latest' = [latest EXCEPT ![Item[e]] = e]
      /\ applied' = applied \cup {e}
      /\ stale' = IF Holds(e, t) THEN stale ELSE stale \cup {e}
      /\ UNCHANGED <<events, mode, outages, replays, late, terminal>>
      /\ execs[e][t].at = "committing"
  BY DEF Commit, At
<1>2. PICK y \in Exec : SetExec(e, t, y) /\ QuietExec(e, execs[e][t], y)
  <2>1. [execs[e][t] EXCEPT !.at = "marking"] \in Exec /\ Ended \in Exec
    BY ExecTyping DEF Places
  <2>2. \A y \in {[execs[e][t] EXCEPT !.at = "marking"], Ended} : QuietExec(e, execs[e][t], y)
    BY <2>1, ExecTyping DEF QuietExec, Ended, Exec
  <2> QED BY <2>1, <2>2 DEF Commit, OnUnlessAborted, End, Goto
<1>3. QuietTable /\ execs' \in [Events -> Seq(Exec)]
  <2>1. events[e] \in Row /\ events' = [events EXCEPT ![e] = events[e]]
    BY <1>1 DEF TypeOK
  <2>2. QuietRow(e, events[e], events[e])
    BY <1>1, <2>1, RowQuiet
  <2> QED BY <1>1, <1>2, <2>1, <2>2, OneExecQuiet, SetExecKeeps DEF TypeOK
<1>4. TypeOK'
  <2>1. Item[e] \in {Item[f] : f \in Events} /\ e \in 0..N
    BY InboundAssumption DEF Events
  <2> QED BY <1>1, <1>3, <2>1 DEF TypeOK
<1>5. execs[e] # <<>> /\ \A f \in Events : execs'[f] = <<>> <=> execs[f] = <<>>
  BY <1>3 DEF TypeOK, QuietTable
<1>6. AppliedWereClaimed'
  BY <1>1, <1>5 DEF AppliedWereClaimed, TypeOK
\* Who commits behind a later effect of its item is late or stale.
<1>7. ASSUME NEW f \in applied, f > e, SameItem(e, f)
      PROVE  e \in late \/ e \in stale'
  <2>1. f \in Events /\ execs[f] # <<>>
    BY DEF AppliedWereClaimed, TypeOK
  <2>2. CASE Holds(e, t)
    BY <1>7, <2>1, <2>2 DEF Holds, Open, Overtaken, LateIfOvertaken
  <2> QED BY <1>1, <2>2
<1>8. ItemShowsLatest'
  <2> SUFFICES ASSUME NEW f \in applied', Item[f] # NoItem, f > latest'[Item[f]]
               PROVE  latest'[Item[f]] \in late' \cup stale'
    BY DEF ItemShowsLatest
  <2>1. f \in Events /\ latest \in [{Item[g] : g \in Events} -> 0..N]
    BY <1>1 DEF TypeOK
  <2>2. CASE Item[f] = Item[e]
    <3>1. latest'[Item[f]] = e
      BY <1>1, <2>1, <2>2
    <3>2. f # e /\ f \in applied
      BY <1>1, <3>1 DEF Events
    <3> QED BY <1>1, <1>7, <2>2, <3>1, <3>2 DEF SameItem
  <2>3. CASE Item[f] # Item[e]
    <3>1. latest'[Item[f]] = latest[Item[f]] /\ f \in applied
      BY <1>1, <2>1, <2>3
    <3> QED BY <1>1, <3>1 DEF ItemShowsLatest
  <2> QED BY <2>2, <2>3
<1>9. DuplicatesApplyOnce'
  <2> SUFFICES ASSUME NEW g \in applied', NEW f \in applied',
                      g < f, SameItem(g, f), Key[g] = Key[f]
               PROVE  events[g].status = "dead" \/ g \in late \cup stale' \/ f \in stale'
    BY <1>1 DEF DuplicatesApplyOnce, SameItem
  <2>1. g \in Events /\ f \in Events /\ stale \subseteq stale'
    BY <1>1 DEF TypeOK
  <2>2. CASE g \in applied /\ f \in applied
    BY <2>1, <2>2 DEF DuplicatesApplyOnce
  <2>3. CASE g = e
    <3>1. f \in applied /\ f > e
      BY <1>1, <2>1, <2>3 DEF Events
    <3> QED BY <1>7, <2>3, <3>1
  <2>4. CASE f = e /\ g \in applied /\ Holds(e, t)
    <3>1. OutOfTheWay(g)
      BY <1>1, <2>1, <2>4 DEF HandlesNoDuplicate
    <3>2. events[g].status # "absent"
      BY <2>1, <2>4 DEF AppliedWereClaimed, RowsFenced
    <3> QED BY <3>1, <3>2 DEF OutOfTheWay
  <2>5. CASE f = e /\ ~Holds(e, t)
    BY <1>1, <2>5
  <2> QED BY <1>1, <2>2, <2>3, <2>4, <2>5
<1> QED BY <1>3, <1>4, <1>6, <1>8, <1>9, QuietKeepsTable
-----------------------------------------------------------------------------
(* The theorems. *)

\* The empty table satisfies the invariant.
LEMMA InitSafe == Init => IInv
<1> SUFFICES ASSUME Init PROVE IInv
  OBVIOUS
<1> USE InboundAssumption
<1>1. Unlocked("absent", 0, 0) \in Row
  BY DEF Unlocked, Row
<1>2. TypeOK
  BY <1>1 DEF Init, TypeOK
<1>3. RowsFenced /\ LateIfOvertaken /\ DeadAfterAllAttempts
  BY DEF Init, RowsFenced, LateIfOvertaken, DeadAfterAllAttempts, Unlocked, Open
<1>4. AppliedWereClaimed /\ ItemShowsLatest /\ DuplicatesApplyOnce
  BY DEF Init, AppliedWereClaimed, ItemShowsLatest, DuplicatesApplyOnce
<1>5. HandlesNoDuplicate /\ BurialsJustified
  BY DEF Init, HandlesNoDuplicate, BurialsJustified
<1> QED BY <1>2, <1>3, <1>4, <1>5 DEF IInv

\* Every step preserves the invariant.
LEMMA InvNext ==
  ASSUME IInv, [Next]_vars
  PROVE  IInv'
<1>1. CASE UNCHANGED vars
  BY <1>1 DEF vars, workers, history, IInv, TypeOK, RowsFenced, LateIfOvertaken, Overtaken,
     AppliedWereClaimed, HandlesNoDuplicate, OutOfTheWay, Holds, BurialsJustified, Exhausted,
     ItemShowsLatest, DuplicatesApplyOnce, DeadAfterAllAttempts
<1>2. ASSUME NEW e \in Events, Insert(e) \/ Replay(e)
      PROVE  IInv'
  BY <1>2, BecomesPendingKeeps
<1>3. ASSUME NEW e \in Events, NEW t \in DOMAIN execs[e], ExecNext(e, t)
      PROVE  IInv'
  BY <1>3, CommitKeeps, ExecStepQuiet, QuietKeepsEffects
<1>4. ASSUME NEW w \in Workers, ClaimSome(w)
      PROVE  IInv'
  BY <1>4, ClaimKeeps DEF ClaimSome
<1>5. CASE Tick \/ \E w \in Workers : Stop(w) \/ Exit(w) \/ Crash(w)
  BY <1>5, EnvironmentQuiet, QuietKeepsEffects
<1> QED BY <1>1, <1>2, <1>3, <1>4, <1>5 DEF Next

\* The invariant holds throughout.
THEOREM InvariantHolds == Spec => []IInv
BY InitSafe, InvNext, PTL DEF Spec

\* Deliveries of one item take effect in the order they came: the later of two
\* claimed events proves the earlier one overtaken, hence late.
THEOREM OrderHolds == Spec => []OrderIsKept
<1>1. IInv => OrderIsKept
  <2> SUFFICES ASSUME IInv PROVE OrderIsKept
    OBVIOUS
  <2>1. ASSUME NEW e \in Events, NEW f \in Events, e < f, SameItem(e, f),
               events[e].status = "processing", events[f].status = "processing"
        PROVE  e \in late
    <3>1. execs[f] # <<>>
      BY <2>1 DEF IInv, RowsFenced, TypeOK
    <3>2. Overtaken(e)
      BY <2>1, <3>1 DEF Overtaken, Events
    <3> QED BY <2>1, <3>2 DEF IInv, LateIfOvertaken, Open
  <2> QED BY <2>1 DEF IInv, OrderIsKept, SerialPerItem
<1> QED BY <1>1, InvariantHolds, PTL

\* Duplicates of one item have their effect once.
THEOREM DuplicatesHold == Spec => []DuplicatesApplyOnce
<1>1. IInv => DuplicatesApplyOnce
  BY DEF IInv
<1> QED BY <1>1, InvariantHolds, PTL

\* An event is given up only after all its attempts, or for an incurable error.
THEOREM DeadHolds == Spec => []DeadAfterAllAttempts
<1>1. IInv => DeadAfterAllAttempts
  BY DEF IInv
<1> QED BY <1>1, InvariantHolds, PTL

\* A step of an execution writes no row but its own, and that only while it
\* holds its claim; then it changes no other execution.
LEMMA ExecWritesHeldRow ==
  ASSUME TypeOK, NEW e \in Events, NEW t \in DOMAIN execs[e], ExecNext(e, t)
  PROVE  \/ events' = events
         \/ /\ Holds(e, t)
            /\ \A f \in Events \ {e} : events'[f] = events[f]
            /\ \A f \in Events : \A u \in DOMAIN execs[f] :
                 f # e \/ u # t => execs'[f][u] = execs[f][u]
<1>1. events \in [Events -> Row] /\ execs \in [Events -> Seq(Exec)]
  BY DEF TypeOK
<1>2. ASSUME NEW r, events' = Settled(e, t, r)
      PROVE  \/ events' = events
             \/ Holds(e, t) /\ \A f \in Events \ {e} : events'[f] = events[f]
  BY <1>1, <1>2 DEF Settled
<1>3. ASSUME NEW y, SetExec(e, t, y)
      PROVE  \A f \in Events : \A u \in DOMAIN execs[f] :
               f # e \/ u # t => execs'[f][u] = execs[f][u]
  BY <1>1, <1>3 DEF SetExec
<1>4. CASE MarkProcessed(e, t) \/ ScheduleRetry(e, t) \/ MarkDead(e, t) \/ Release(e, t)
  BY <1>2, <1>3, <1>4 DEF MarkProcessed, ScheduleRetry, MarkDead, Release, End
<1>5. CASE MarkFault(e, t)
  <2>1. \E y : SetExec(e, t, y)
    BY <1>5 DEF MarkFault, Caught, OnUnlessAborted, End, Goto
  <2>2. events' = events \/ events' = Settled(e, t, Marked(e))
    BY <1>5 DEF MarkFault
  <2> QED BY <1>2, <1>3, <2>1, <2>2
<1>6. CASE HeartbeatTick(e, t)
  BY <1>1, <1>6 DEF HeartbeatTick
<1>7. CASE \/ Start(e, t) \/ ClaimReplyLost(e, t) \/ CheckDuplicate(e, t)
           \/ HandlerIgnores(e, t) \/ HandlerCommits(e, t) \/ Commit(e, t)
           \/ ReleaseFault(e, t) \/ CatchFault(e, t) \/ HeartbeatFault(e, t)
  BY <1>7 DEF Start, ClaimReplyLost, CheckDuplicate, HandlerIgnores, HandlerCommits,
     Commit, ReleaseFault, CatchFault, HeartbeatFault
<1>8. CASE \E incurable \in BOOLEAN : HandlerThrows(e, t, incurable)
  BY <1>8 DEF HandlerThrows
<1> QED BY <1>4, <1>5, <1>6, <1>7, <1>8 DEF ExecNext, Progress

\* A settled event stays settled, and a superseded execution changes no row.
THEOREM StaleExecutionsHarmless == Spec => StaleExecutionsAreHarmless
<1> DEFINE RowKept(e) ==
             /\ events[e].status = "processed" => events'[e] = events[e]
             /\ events[e].status = "dead" => events'[e].status \in {"dead", "pending"}
           Fenced(e) ==
             \A t \in DOMAIN execs[e] :
               ~Holds(e, t) /\ execs'[e][t] # execs[e][t] => events'[e] = events[e]
<1>1. ASSUME IInv, [Next]_vars
      PROVE  \A e \in Events : RowKept(e) /\ Fenced(e)
  <2> USE <1>1 DEF IInv
  <2>1. events \in [Events -> Row] /\ execs \in [Events -> Seq(Exec)]
    BY DEF TypeOK
  <2>2. CASE UNCHANGED events
    BY <2>2
  <2>3. ASSUME NEW f \in Events, Insert(f) \/ Replay(f)
        PROVE  \A e \in Events : RowKept(e) /\ Fenced(e)
    BY <2>1, <2>3 DEF Insert, Replay, BecomesPending, Unlocked, workers
  <2>4. ASSUME NEW f \in Events, NEW u \in DOMAIN execs[f], ExecNext(f, u)
        PROVE  \A e \in Events : RowKept(e) /\ Fenced(e)
    <3>1. CASE events' = events
      BY <3>1, <2>2
    <3>2. CASE events' # events
      BY <2>4, <3>2, ExecWritesHeldRow DEF Holds
    <3> QED BY <3>1, <3>2
  <2>5. ASSUME NEW w \in Workers, ClaimSome(w)
        PROVE  \A e \in Events : RowKept(e) /\ Fenced(e)
    <3>1. PICK D \in SUBSET {e \in Events : Buriable(e)}, S \in SUBSET {e \in Events : Claimable(e)} :
            Claim(w, D, S)
      BY <2>5 DEF ClaimSome
    <3>2. \A e \in Events : Taken(e) \/ Buried(e) \/ LeftAlone(e)
      BY <3>1, ClaimEffect
    <3> TAKE e \in Events
    <3>3. RowKept(e)
      BY <3>2 DEF Taken, Buried, LeftAlone, Open
    <3>4. \A t \in DOMAIN execs[e] : execs'[e][t] = execs[e][t]
      <4>1. CASE Taken(e)
        <5>1. PICK x \in Exec : execs'[e] = Append(execs[e], x)
          BY <4>1 DEF Taken
        <5> QED BY <2>1, <5>1
      <4>2. CASE Buried(e) \/ LeftAlone(e)
        BY <4>2 DEF Buried, LeftAlone
      <4> QED BY <3>2, <4>1, <4>2
    <3> QED BY <3>3, <3>4
  <2>6. CASE Tick
    <3> TAKE e \in Events
    <3>1. events'[e] = [events[e] EXCEPT !.due = Sooner(@), !.lease = Sooner(@)]
      BY <2>1, <2>6 DEF Tick
    <3>2. events[e].status = "processed" => events[e].due = 0 /\ events[e].lease = 0
      BY DEF RowsFenced
    <3>3. RowKept(e)
      <4>1. events'[e].status = events[e].status
        BY <2>1, <3>1 DEF Row
      <4>2. CASE events[e].status = "processed"
        <5>1. events'[e] = [events[e] EXCEPT !.due = 0, !.lease = 0]
          <6>1. Sooner(events[e].due) = 0 /\ Sooner(events[e].lease) = 0
            BY <3>2, <4>2 DEF Sooner
          <6> QED BY <3>1, <6>1
        <5>2. \A r \in Row : r.due = 0 /\ r.lease = 0 => [r EXCEPT !.due = 0, !.lease = 0] = r
          BY DEF Row
        <5> QED BY <2>1, <3>2, <4>2, <5>1, <5>2
      <4> QED BY <4>1, <4>2
    <3> QED BY <2>6, <3>3 DEF Tick, workers
  <2>7. CASE \E w \in Workers : Stop(w) \/ Exit(w) \/ Crash(w)
    BY <2>2, <2>7 DEF Stop, Exit, Crash
  <2>8. CASE UNCHANGED vars
    BY <2>2, <2>8 DEF vars
  <2> QED BY <2>3, <2>4, <2>5, <2>6, <2>7, <2>8 DEF Next
<1>2. IInv /\ [Next]_vars
        => [/\ \A e \in Events : RowKept(e)
            /\ \A e \in Events : Fenced(e)]_vars
  BY <1>1
<1> QED BY <1>2, InvariantHolds, PTL DEF Spec, StaleExecutionsAreHarmless
=============================================================================
