--------------------------- MODULE InboundEvents ---------------------------
(***************************************************************************)
(* The inbound_webhook_events table: deliveries inserted by the ingress    *)
(* (Centsy), claimed, handled and settled by worker processes              *)
(* (inbound-events.repository.ts, inbound-events-poller.ts and             *)
(* inbound-event-handler.ts), and replayed by an operator once dead.       *)
(*                                                                         *)
(* Events are numbered in the order of (received_at, id).  The order in    *)
(* which the ingress' transactions commit may differ.  due and lease count *)
(* down the ticks to available_at and lease_expires_at.                    *)
(*                                                                         *)
(* An execution is what one claim of one event leads to inside a worker.   *)
(* It is known by the event and the number of the claim, which is also its *)
(* lease token.  The fence of the code compares attempts, locked_by and    *)
(* lease_token; the token alone determines the other two.                  *)
(***************************************************************************)
EXTENDS Naturals, Sequences, FiniteSets

CONSTANTS
  N,             \* number of deliveries
  Workers,       \* worker processes
  Item,          \* provider_item_id of each delivery, NoItem for NULL
  NoItem,
  Key,           \* dedupe_key of each delivery
  MaxAttempts,   \* INBOUND_EVENT_MAX_ATTEMPTS
  LeaseTicks,    \* INBOUND_EVENT_LEASE_MS, in ticks
  RetryTicks,    \* delay of nextRetryAt, in ticks
  MaxReplays,    \* bound: commands of the operator
  MaxOutages     \* bound: stops and deaths of worker processes

Events == 1..N

ASSUME InboundAssumption ==
  /\ N \in Nat /\ MaxAttempts \in Nat \ {0} /\ LeaseTicks \in Nat \ {0}
  /\ RetryTicks \in Nat /\ MaxReplays \in Nat /\ MaxOutages \in Nat
  /\ DOMAIN Item = Events /\ DOMAIN Key = Events

VARIABLES
  events,    \* the rows
  execs,     \* execs[e][t]: the execution of claim t of event e
  mode,      \* "up" or "stopping" for each worker process
  outages,   \* stops and deaths so far
  replays,   \* replays so far
  latest,    \* for each item the event whose effect was committed last, or 0
  applied,   \* events whose effect was committed
  stale,     \* events whose effect was committed by a superseded execution
  late,      \* events that became claimable after a later one of their item was
  terminal   \* events whose handler threw an error no retry can cure

history == <<latest, applied, stale, late, terminal>>
workers == <<execs, mode, outages>>
vars == <<events, workers, replays, history>>

Open == {"pending", "processing"}
Row == [status : {"absent", "processed", "dead"} \cup Open,
        attempts : 0..MaxAttempts, due : 0..RetryTicks,
        token : Nat, lease : 0..LeaseTicks]

Unlocked(s, n, d) == [status |-> s, attempts |-> n, due |-> d, token |-> 0, lease |-> 0]

\* awaited says that the Promise.all of a batch waits for the execution, and
\* last that the claim used up the attempts.
Exec == [at : {"claimed", "releasing", "checking", "handling", "committing",
               "marking", "retrying", "burying", "ended"},
         by : Workers \cup {"none"}, aborted : BOOLEAN, awaited : BOOLEAN, last : BOOLEAN]

TypeOK ==
  /\ events \in [Events -> Row]
  /\ execs \in [Events -> Seq(Exec)]
  /\ mode \in [Workers -> {"up", "stopping"}]
  /\ outages \in 0..MaxOutages
  /\ replays \in 0..MaxReplays
  /\ latest \in [{Item[e] : e \in Events} -> 0..N]
  /\ applied \subseteq Events
  /\ stale \subseteq applied
  /\ late \subseteq Events
  /\ terminal \subseteq Events

Init ==
  /\ events = [e \in Events |-> Unlocked("absent", 0, 0)]
  /\ execs = [e \in Events |-> <<>>]
  /\ mode = [w \in Workers |-> "up"]
  /\ outages = 0
  /\ replays = 0
  /\ latest = [i \in {Item[e] : e \in Events} |-> 0]
  /\ applied = {}
  /\ stale = {}
  /\ late = {}
  /\ terminal = {}
-----------------------------------------------------------------------------
(* Arrival and replay. *)

SameItem(e, f) == Item[e] # NoItem /\ Item[e] = Item[f]

\* A later event of the same item has already been claimed.
Overtaken(e) == \E f \in Events : f > e /\ SameItem(e, f) /\ execs[f] # <<>>

BecomesPending(e) ==
  /\ events' = [events EXCEPT ![e] = Unlocked("pending", 0, 0)]
  /\ late' = IF Overtaken(e) THEN late \cup {e} ELSE late
  /\ UNCHANGED <<workers, latest, applied, stale, terminal>>

Insert(e) ==
  /\ events[e].status = "absent"
  /\ BecomesPending(e)
  /\ UNCHANGED replays

\* The operator's command resets the attempts of a dead event.
Replay(e) ==
  /\ events[e].status = "dead"
  /\ replays < MaxReplays
  /\ replays' = replays + 1
  /\ BecomesPending(e)
-----------------------------------------------------------------------------
(* claimInboundEvents: one statement that buries what is exhausted and claims *)
(* what is due and first of its item, both judged on the table as it was.     *)

Exhausted(r) == r.attempts >= MaxAttempts
LeaseOver(r) == r.status = "processing" /\ r.lease = 0

\* Mutants: an expired lease buries at once; exhausted events whose lease ran
\* out are left as they are.
BuriableOnExpiry(e) == LeaseOver(events[e])
BuriableIfPending(e) == Exhausted(events[e]) /\ events[e].status = "pending"

Buriable(e) ==
  Exhausted(events[e]) /\ (events[e].status = "pending" \/ LeaseOver(events[e]))

\* Mutants: no order within an item; only events being processed hold back others.
NeverHeldBack(e) == FALSE
HeldBackByProcessing(e) ==
  \E f \in Events : f < e /\ SameItem(e, f) /\ events[f].status = "processing"

HeldBack(e) == \E f \in Events : f < e /\ SameItem(e, f) /\ events[f].status \in Open

Claimable(e) ==
  /\ \/ events[e].status = "pending" /\ events[e].due = 0
     \/ LeaseOver(events[e])
  /\ ~Exhausted(events[e])
  /\ ~HeldBack(e)

Claimed(r, t) == [status |-> "processing", attempts |-> r.attempts + 1, due |-> r.due,
                  token |-> t, lease |-> LeaseTicks]

Token(e) == Len(execs[e])
Awaiting(w) == \E e \in Events : \E t \in DOMAIN execs[e] :
                 execs[e][t].by = w /\ execs[e][t].awaited

\* LIMIT and SKIP LOCKED may leave out any of the rows: D is what is buried and
\* S what is claimed.
Claim(w, D, S) ==
  /\ mode[w] = "up"
  /\ ~Awaiting(w)
  /\ D \cup S # {}
  /\ events' = [e \in Events |->
       IF e \in S THEN Claimed(events[e], Token(e) + 1)
       ELSE IF e \in D THEN Unlocked("dead", events[e].attempts, events[e].due)
       ELSE events[e]]
  /\ execs' = [e \in Events |->
       IF e \in S
       THEN Append(execs[e], [at |-> "claimed", by |-> w, aborted |-> FALSE,
                              awaited |-> TRUE, last |-> Exhausted(events'[e])])
       ELSE execs[e]]
  /\ UNCHANGED <<mode, outages, replays, history>>

ClaimSome(w) ==
  \E D \in SUBSET {e \in Events : Buriable(e)}, S \in SUBSET {e \in Events : Claimable(e)} :
    Claim(w, D, S)
-----------------------------------------------------------------------------
(* One execution: runEvent and the handler. *)

Holds(e, t) == events[e].status = "processing" /\ events[e].token = t
By(e, t) == execs[e][t].by
At(e, t, place) == execs[e][t].at = place

SetExec(e, t, x) == execs' = [execs EXCEPT ![e][t] = x]
Goto(e, t, place) == SetExec(e, t, [execs[e][t] EXCEPT !.at = place])
Ended == [at |-> "ended", by |-> "none", aborted |-> TRUE, awaited |-> FALSE, last |-> FALSE]
End(e, t) == SetExec(e, t, Ended)

\* The claim's reply arrives, or is lost: a worker told to stop meanwhile
\* releases the event.
Start(e, t) ==
  /\ At(e, t, "claimed")
  /\ Goto(e, t, IF mode[By(e, t)] = "stopping" THEN "releasing" ELSE "checking")
  /\ UNCHANGED <<events, mode, outages, replays, history>>

ClaimReplyLost(e, t) ==
  /\ At(e, t, "claimed")
  /\ End(e, t)
  /\ UNCHANGED <<events, mode, outages, replays, history>>

\* Mutant: looks for the wrong terminal status.
DeadDuplicate(e) ==
  \E f \in Events \ {e} : Key[f] = Key[e] /\ events[f].status = "dead"

\* hasProcessedDuplicate.
ProcessedDuplicate(e) ==
  \E f \in Events \ {e} : Key[f] = Key[e] /\ events[f].status = "processed"

\* Neither markProcessed nor the catch clause writes once the lease is known to
\* be lost or the worker is stopping.
OnUnlessAborted(e, t, place) ==
  IF execs[e][t].aborted THEN End(e, t) ELSE Goto(e, t, place)

CheckDuplicate(e, t) ==
  /\ At(e, t, "checking")
  /\ IF ProcessedDuplicate(e) THEN OnUnlessAborted(e, t, "marking")
                              ELSE OnUnlessAborted(e, t, "handling")
  /\ UNCHANGED <<events, mode, outages, replays, history>>

\* The item is unknown or deleted, or the code means nothing: "ignored".
HandlerIgnores(e, t) ==
  /\ At(e, t, "handling")
  /\ OnUnlessAborted(e, t, "marking")
  /\ UNCHANGED <<events, mode, outages, replays, history>>

\* The last checkCancelled before the transaction commits.
HandlerCommits(e, t) ==
  /\ At(e, t, "handling")
  /\ OnUnlessAborted(e, t, "committing")
  /\ UNCHANGED <<events, mode, outages, replays, history>>

\* The commit takes effect: a pipeline run or a new status of the item.
Commit(e, t) ==
  /\ At(e, t, "committing")
  /\ latest' = [latest EXCEPT ![Item[e]] = e]
  /\ applied' = applied \cup {e}
  /\ stale' = IF Holds(e, t) THEN stale ELSE stale \cup {e}
  /\ OnUnlessAborted(e, t, "marking")
  /\ UNCHANGED <<events, mode, outages, replays, late, terminal>>

\* The catch clause.
Caught(e, t, incurable) ==
  OnUnlessAborted(e, t, IF incurable \/ execs[e][t].last THEN "burying" ELSE "retrying")

HandlerThrows(e, t, incurable) ==
  /\ \/ At(e, t, "checking") /\ ~incurable
     \/ At(e, t, "handling") \/ At(e, t, "committing")
  /\ terminal' = IF incurable THEN terminal \cup {e} ELSE terminal
  /\ Caught(e, t, incurable)
  /\ UNCHANGED <<events, mode, outages, replays, latest, applied, stale, late>>

\* Mutant: any processing event is settled, whoever holds it.
SettledUnfenced(e, t, r) ==
  [events EXCEPT ![e] = IF events[e].status = "processing" THEN r ELSE @]

\* The statements that end a claim match no row when the fence is not met.
Settled(e, t, r) == [events EXCEPT ![e] = IF Holds(e, t) THEN r ELSE @]

Marked(e) == Unlocked("processed", events[e].attempts, events[e].due)

MarkProcessed(e, t) ==
  /\ At(e, t, "marking")
  /\ events' = Settled(e, t, Marked(e))
  /\ End(e, t)
  /\ UNCHANGED <<mode, outages, replays, history>>

\* markProcessed throws, with the row written or not, inside the try.
MarkFault(e, t) ==
  /\ At(e, t, "marking")
  /\ events' \in {events, Settled(e, t, Marked(e))}
  /\ Caught(e, t, FALSE)
  /\ UNCHANGED <<mode, outages, replays, history>>

ScheduleRetry(e, t) ==
  /\ At(e, t, "retrying")
  /\ events' = Settled(e, t, Unlocked("pending", events[e].attempts, RetryTicks))
  /\ End(e, t)
  /\ UNCHANGED <<mode, outages, replays, history>>

MarkDead(e, t) ==
  /\ At(e, t, "burying")
  /\ events' = Settled(e, t, Unlocked("dead", events[e].attempts, events[e].due))
  /\ End(e, t)
  /\ UNCHANGED <<mode, outages, replays, history>>

Release(e, t) ==
  /\ At(e, t, "releasing")
  /\ events' = Settled(e, t, Unlocked("pending", events[e].attempts - 1, 0))
  /\ End(e, t)
  /\ UNCHANGED <<mode, outages, replays, history>>

ReleaseFault(e, t) ==
  /\ At(e, t, "releasing")
  /\ End(e, t)
  /\ UNCHANGED <<events, mode, outages, replays, history>>

\* scheduleRetry or markDead throws inside the catch clause: the batch's
\* Promise.all rejects, and the worker claims again although other executions
\* of the batch go on.
CatchFault(e, t) ==
  /\ At(e, t, "retrying") \/ At(e, t, "burying")
  /\ execs' = [f \in Events |-> [u \in DOMAIN execs[f] |->
       IF f = e /\ u = t THEN Ended
       ELSE IF By(f, u) = By(e, t) THEN [execs[f][u] EXCEPT !.awaited = FALSE]
       ELSE execs[f][u]]]
  /\ UNCHANGED <<events, mode, outages, replays, history>>

\* heartbeatInboundEvent, which runs from the check to the end.
Beats(e, t) ==
  /\ execs[e][t].at \notin {"claimed", "releasing", "ended"}
  /\ ~execs[e][t].aborted

HeartbeatTick(e, t) ==
  /\ Beats(e, t)
  /\ IF Holds(e, t)
     THEN events' = [events EXCEPT ![e].lease = LeaseTicks] /\ UNCHANGED execs
     ELSE SetExec(e, t, [execs[e][t] EXCEPT !.aborted = TRUE]) /\ UNCHANGED events
  /\ UNCHANGED <<mode, outages, replays, history>>

HeartbeatFault(e, t) ==
  /\ Beats(e, t)
  /\ SetExec(e, t, [execs[e][t] EXCEPT !.aborted = TRUE])
  /\ UNCHANGED <<events, mode, outages, replays, history>>
-----------------------------------------------------------------------------
(* Processes and time. *)

\* The executions of worker w become what F makes of them.
EachOf(w, F(_)) ==
  execs' = [e \in Events |-> [t \in DOMAIN execs[e] |->
              IF By(e, t) = w THEN F(execs[e][t]) ELSE execs[e][t]]]

Stop(w) ==
  /\ mode[w] = "up"
  /\ outages < MaxOutages
  /\ outages' = outages + 1
  /\ mode' = [mode EXCEPT ![w] = "stopping"]
  /\ EachOf(w, LAMBDA x : [x EXCEPT !.aborted = @ \/ x.at \notin {"claimed", "releasing"}])
  /\ UNCHANGED <<events, replays, history>>

\* The process ends, after a stop or by a crash, and is started again.
Exit(w) ==
  /\ mode[w] = "stopping"
  /\ mode' = [mode EXCEPT ![w] = "up"]
  /\ EachOf(w, LAMBDA x : Ended)
  /\ UNCHANGED <<events, outages, replays, history>>

Crash(w) ==
  /\ mode[w] = "up"
  /\ outages < MaxOutages
  /\ outages' = outages + 1
  /\ EachOf(w, LAMBDA x : Ended)
  /\ UNCHANGED <<events, mode, replays, history>>

Sooner(n) == IF n > 0 THEN n - 1 ELSE 0

Tick ==
  /\ events' = [e \in Events |-> [events[e] EXCEPT !.due = Sooner(@), !.lease = Sooner(@)]]
  /\ events' # events
  /\ UNCHANGED <<workers, replays, history>>
-----------------------------------------------------------------------------
Progress(e, t) ==
  \/ Start(e, t) \/ ClaimReplyLost(e, t) \/ CheckDuplicate(e, t)
  \/ HandlerIgnores(e, t) \/ HandlerCommits(e, t) \/ Commit(e, t)
  \/ (\E incurable \in BOOLEAN : HandlerThrows(e, t, incurable))
  \/ MarkProcessed(e, t) \/ MarkFault(e, t) \/ ScheduleRetry(e, t) \/ MarkDead(e, t)
  \/ Release(e, t) \/ ReleaseFault(e, t) \/ CatchFault(e, t)

ExecNext(e, t) == Progress(e, t) \/ HeartbeatTick(e, t) \/ HeartbeatFault(e, t)

Next ==
  \/ \E e \in Events : Insert(e) \/ Replay(e) \/ \E t \in DOMAIN execs[e] : ExecNext(e, t)
  \/ \E w \in Workers : ClaimSome(w) \/ Stop(w) \/ Exit(w) \/ Crash(w)
  \/ Tick

Spec == Init /\ [][Next]_vars

\* Time passes, executions go on, stopped processes exit, and the sweeps reach
\* every row: claims are ordered by available_at and id, so LIMIT passes over a
\* row only as long as there are older ones.
Fairness ==
  /\ WF_vars(Tick)
  /\ \A w \in Workers : WF_vars(Exit(w))
  /\ \A e \in Events :
       /\ WF_vars(\E t \in DOMAIN execs[e] : Progress(e, t))
       /\ SF_vars(\E w \in Workers : \E D, S \in SUBSET Events :
                    /\ \A f \in D : Buriable(f)
                    /\ \A f \in S : Claimable(f)
                    /\ e \in D \cup S
                    /\ Claim(w, D, S))

FairSpec == Spec /\ Fairness
-----------------------------------------------------------------------------
(* What the table promises. *)

\* Two events of one item are claimed at the same time only if the earlier one
\* became claimable after the later one had been claimed: it was committed late
\* by the ingress, or replayed.
SerialPerItem ==
  /\ TypeOK
  /\ \A e, f \in Events :
       /\ e < f
       /\ SameItem(e, f)
       /\ events[e].status = "processing"
       /\ events[f].status = "processing"
       => e \in late

\* The status of an item is that of its latest event, through retries, crashes
\* and expiries, unless the event shown was late or was applied by an execution
\* whose lease had been taken over.
ItemShowsLatest ==
  \A e \in applied :
    LET shown == latest[Item[e]] IN
    Item[e] # NoItem /\ e > shown => shown \in late \cup stale

\* Both: deliveries of an item take effect in the order they came.
OrderIsKept == SerialPerItem /\ ItemShowsLatest

\* Duplicates of one item have their effect once, unless the first died after
\* it had its effect, or one of them is late or stale.
DuplicatesApplyOnce ==
  \A e, f \in applied :
    e < f /\ SameItem(e, f) /\ Key[e] = Key[f]
    => events[e].status = "dead" \/ e \in late \cup stale \/ f \in stale

\* An event is given up only after MaxAttempts claims, or an error no retry
\* can cure.
DeadAfterAllAttempts ==
  \A e \in Events : events[e].status = "dead" => Exhausted(events[e]) \/ e \in terminal

\* A processed event stays processed and a dead one dead until it is replayed,
\* and an execution whose claim was superseded changes no row.
StaleExecutionsAreHarmless ==
  [][/\ \A e \in Events :
          /\ events[e].status = "processed" => events'[e] = events[e]
          /\ events[e].status = "dead" => events'[e].status \in {"dead", "pending"}
     /\ \A e \in Events : \A t \in DOMAIN execs[e] :
          ~Holds(e, t) /\ execs'[e][t] # execs[e][t] => events'[e] = events[e]]_vars

\* Every delivery is eventually processed or dead.
EveryEventSettles ==
  \A e \in Events : (events[e].status \in Open) ~> (events[e].status \in {"processed", "dead"})

\* "serializes handlers for the same Plaid item": no two workers handle
\* different events of one item at the same time under claims they both hold.
HandlersSerialized ==
  \A e, f \in Events : \A t \in DOMAIN execs[e], u \in DOMAIN execs[f] :
    /\ e # f
    /\ SameItem(e, f)
    /\ At(e, t, "handling") /\ Holds(e, t)
    /\ At(f, u, "handling")
    => ~Holds(f, u)
=============================================================================
