----------------------------- MODULE LeasedWork -----------------------------
(***************************************************************************)
(* What a leased work queue promises, without rows, workers or time: work  *)
(* is granted to one holder after another, each grant supersedes those     *)
(* before it, and only the newest holder decides the outcome.              *)
(***************************************************************************)
EXTENDS Naturals

CONSTANTS
  Work,       \* pieces of work
  Limit,      \* executions of one piece of work at most
  Hopeless    \* work that may be given up without being tried

VARIABLES
  phase,      \* "none", "waiting", "granted", "done" or "dead"
  grants,     \* grants so far: the number of the newest one
  begun,      \* executions begun so far
  succeeded   \* grants whose execution ended well

avars == <<phase, grants, begun, succeeded>>

AInit ==
  /\ phase = [k \in Work |-> "none"]
  /\ grants = [k \in Work |-> 0]
  /\ begun = [k \in Work |-> 0]
  /\ succeeded = [k \in Work |-> {}]

\* Who holds the work and what has been tried stays as it is.
HistoryKept(k) == begun'[k] = begun[k] /\ succeeded'[k] = succeeded[k]
GrantKept(k) == phase'[k] = phase[k] /\ grants'[k] = grants[k]

Submit(k) ==
  /\ phase[k] = "none"
  /\ phase'[k] = "waiting"
  /\ grants'[k] = grants[k]
  /\ HistoryKept(k)

\* A grant of waiting work, or of work whose holder let it lapse.
Grant(k) ==
  /\ phase[k] \in {"waiting", "granted"}
  /\ phase'[k] = "granted"
  /\ grants'[k] = grants[k] + 1
  /\ HistoryKept(k)

\* Any holder, superseded or not, may begin an execution within the limit.
Begin(k) ==
  /\ begun[k] < Limit
  /\ begun'[k] = begun[k] + 1
  /\ succeeded'[k] = succeeded[k]
  /\ GrantKept(k)

Succeed(k) ==
  /\ \E g \in 1..grants[k] : succeeded'[k] = succeeded[k] \cup {g}
  /\ begun'[k] = begun[k]
  /\ GrantKept(k)

\* The grant lapses, is given back, or is to be tried again later.
Return(k) ==
  /\ phase[k] = "granted"
  /\ phase'[k] = "waiting"
  /\ grants'[k] = grants[k]
  /\ HistoryKept(k)

\* Done only when the execution under the newest grant ended well.
Finish(k) ==
  /\ phase[k] = "granted"
  /\ grants[k] \in succeeded[k]
  /\ phase'[k] = "done"
  /\ grants'[k] = grants[k]
  /\ HistoryKept(k)

\* Given up while granted, after as many grants as executions are allowed.
GiveUp(k) ==
  /\ phase[k] = "granted"
  /\ k \in Hopeless \/ grants[k] >= Limit
  /\ phase'[k] = "dead"
  /\ grants'[k] = grants[k]
  /\ HistoryKept(k)

Keep(k) == GrantKept(k) /\ HistoryKept(k)

Step(k) == \/ Submit(k) \/ Grant(k) \/ Begin(k) \/ Succeed(k)
           \/ Return(k) \/ Finish(k) \/ GiveUp(k) \/ Keep(k)

\* Statements of the queue may touch several pieces of work at once.
ANext == \A k \in Work : Step(k)

LeasedWorkSpec == AInit /\ [][ANext]_avars
=============================================================================
