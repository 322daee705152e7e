-------------------------- MODULE SyncHealthAlerts --------------------------
(***************************************************************************)
(* Alerts about connections that stopped working                           *)
(* (sync-health-alerts.service.ts, sync-health-alerts.repository.ts,       *)
(* plaid-health.ts).  A run belongs to a status change, to the daily sweep *)
(* or to the end of quiet hours; nothing keeps two runs for one user       *)
(* apart, and each statement of a run is a transaction of its own.         *)
(***************************************************************************)
EXTENDS Integers, FiniteSets

CONSTANTS
  Items,      \* connections of the user
  Runners,    \* jobs that may run at once
  MaxEvents   \* bound: status changes, commands of the user and crashes

VARIABLES
  health,     \* of each connection: "ok", "bad" or "gone"
  alerts,     \* notifications of type sync_health
  prefs,      \* syncAlertsEnabled, pushToken, and whether it is quiet now
  run,        \* the executions of runForUser
  episodes,   \* history: unhealthy episodes of each connection
  pushes,     \* history: pushes that arrived for each connection
  unmarked,   \* history: pushes whose execution ended before markPushSent
  overlapped, \* history: two executions were active at once
  events

history == <<episodes, pushes, unmarked, overlapped>>
vars == <<health, alerts, prefs, run, history, events>>

Alert == [n : Nat, item : Items, sent : BOOLEAN, open : BOOLEAN]
Idle == [at |-> "idle", token |-> FALSE, items |-> {}, seen |-> [i \in Items |-> "unread"],
         open |-> {}, todo |-> Items, pending |-> {}]

Init ==
  /\ health = [i \in Items |-> "ok"]
  /\ alerts = {}
  /\ prefs = [on |-> TRUE, token |-> TRUE, quiet |-> FALSE]
  /\ run = [w \in Runners |-> Idle]
  /\ episodes = [i \in Items |-> 0] /\ pushes = [i \in Items |-> 0]
  /\ unmarked = [i \in Items |-> 0] /\ overlapped = FALSE
  /\ events = 0

-----------------------------------------------------------------------------
(* runForUser. *)

OpenAlerts == {a \in alerts : a.open}
Go(w, e) == run' = [run EXCEPT ![w] = e]

\* The preferences are read first: with alerts off nothing is reconciled.
Start(w) ==
  /\ run[w].at = "idle"
  /\ prefs.on
  /\ Go(w, [Idle EXCEPT !.at = "reading", !.token = prefs.token])
  /\ overlapped' = (overlapped \/ \E v \in Runners \ {w} : run[v].at # "idle")
  /\ UNCHANGED <<health, alerts, prefs, episodes, pushes, unmarked, events>>

\* listItems and listOpenAlerts are sent together; either may come first.
ListItems(w) ==
  /\ run[w].at \in {"reading", "items"}
  /\ Go(w, [run[w] EXCEPT !.at = IF @ = "items" THEN "reconciling" ELSE "alerts", !.seen = health])
  /\ UNCHANGED <<health, alerts, prefs, history, events>>

ListOpenAlerts(w) ==
  /\ run[w].at \in {"reading", "alerts"}
  /\ Go(w, [run[w] EXCEPT !.at = IF @ = "alerts" THEN "reconciling" ELSE "items",
              !.open = OpenAlerts, !.pending = {a.n : a \in {b \in OpenAlerts : ~b.sent}}])
  /\ UNCHANGED <<health, alerts, prefs, history, events>>

HasOpen(e, i) == \E a \in e.open : a.item = i
Done(e, i) == [e EXCEPT !.todo = @ \ {i}]

\* Every open alert of the connection, also those this execution never saw.
ResolveAlerts(i) == {IF a.item = i THEN [a EXCEPT !.open = FALSE] ELSE a : a \in alerts}

Reconcile(w, i) ==
  LET e == run[w]
      new == [n |-> Cardinality(alerts) + 1, item |-> i, sent |-> FALSE, open |-> TRUE]
  IN /\ e.at = "reconciling" /\ i \in e.todo
     /\ \A j \in e.todo : i <= j
     /\ \/ /\ e.seen[i] = "ok" /\ HasOpen(e, i)
           /\ alerts' = ResolveAlerts(i)
           /\ Go(w, Done(e, i))
        \/ /\ e.seen[i] = "bad" /\ ~HasOpen(e, i)
           /\ alerts' = alerts \cup {new}
           /\ Go(w, [Done(e, i) EXCEPT !.pending = @ \cup {new.n}])
        \/ /\ e.seen[i] = "gone" \/ (e.seen[i] = "bad") = HasOpen(e, i)
           /\ UNCHANGED alerts
           /\ Go(w, Done(e, i))
  /\ UNCHANGED <<health, prefs, history, events>>

\* Alerts of connections that were read as healthy or unlinked are dropped.
\* Quiet hours end the run; it is queued again for their end.
ToPush(e) == {n \in e.pending : \E a \in alerts : a.n = n /\ e.seen[a.item] = "bad"}

Decide(w) ==
  LET e == run[w] IN
  /\ e.at = "reconciling" /\ e.todo = {}
  /\ Go(w, IF ToPush(e) = {} \/ ~e.token \/ prefs.quiet THEN Idle
           ELSE [e EXCEPT !.at = "pushing", !.pending = ToPush(e)])
  /\ UNCHANGED <<health, alerts, prefs, history, events>>

\* The next alert is pushed, or refused for the moment, or the token is
\* invalid: then it is cleared and the rest is left.
Oldest(e) == CHOOSE a \in alerts : a.n \in e.pending /\ \A m \in e.pending : a.n <= m
Left(e) == LET rest == [e EXCEPT !.pending = @ \ {Oldest(e).n}]
           IN IF rest.pending = {} THEN Idle ELSE rest

Push(w) ==
  LET e == run[w] IN
  /\ e.at = "pushing"
  /\ prefs.token
  /\ pushes' = [pushes EXCEPT ![Oldest(e).item] = @ + 1]
  /\ Go(w, [e EXCEPT !.at = "marking"])
  /\ UNCHANGED <<health, alerts, prefs, episodes, unmarked, overlapped, events>>

\* Mutant: the alert is not marked after its push.
Unmarked(a) == a

Marked(a) == [a EXCEPT !.sent = TRUE]

MarkPushSent(w) ==
  LET e == run[w] IN
  /\ e.at = "marking"
  /\ alerts' = {IF a.n = Oldest(e).n THEN Marked(a) ELSE a : a \in alerts}
  /\ Go(w, IF Left(e) = Idle THEN Idle ELSE [Left(e) EXCEPT !.at = "pushing"])
  /\ UNCHANGED <<health, prefs, history, events>>

Counted == events < MaxEvents /\ events' = events + 1

PushRefused(w) ==
  /\ run[w].at = "pushing"
  /\ \/ prefs.token /\ Counted /\ Go(w, Left(run[w])) /\ UNCHANGED prefs
     \/ ~prefs.token /\ Go(w, Idle) /\ UNCHANGED <<prefs, events>>
     \/ prefs.token /\ Counted /\ prefs' = [prefs EXCEPT !.token = FALSE] /\ Go(w, Idle)
  /\ UNCHANGED <<health, alerts, history>>

\* A statement or the process fails; the next run starts afresh.
Crash(w) ==
  /\ run[w].at # "idle"
  /\ Counted
  /\ unmarked' = IF run[w].at # "marking" THEN unmarked
                 ELSE [unmarked EXCEPT ![Oldest(run[w]).item] = @ + 1]
  /\ Go(w, Idle)
  /\ UNCHANGED <<health, alerts, prefs, episodes, pushes, overlapped>>

-----------------------------------------------------------------------------
(* Synchronization and the user. *)

HealthChanges(i, h) ==
  /\ Counted
  /\ health[i] # h /\ health[i] # "gone"
  /\ health' = [health EXCEPT ![i] = h]
  /\ episodes' = IF h = "bad" THEN [episodes EXCEPT ![i] = @ + 1] ELSE episodes
  /\ UNCHANGED <<alerts, prefs, run, pushes, unmarked, overlapped>>

\* Settings change, the device registers, quiet hours begin or end.
PreferencesChange ==
  /\ Counted
  /\ prefs' \in [on : BOOLEAN, token : {prefs.token, TRUE}, quiet : BOOLEAN] \ {prefs}
  /\ UNCHANGED <<health, alerts, run, history>>

Work(w) ==
  \/ ListItems(w) \/ ListOpenAlerts(w) \/ (\E i \in Items : Reconcile(w, i)) \/ Decide(w)
  \/ Push(w) \/ MarkPushSent(w) \/ PushRefused(w)

Next ==
  \/ \E w \in Runners : Start(w) \/ Work(w) \/ Crash(w)
  \/ \E i \in Items, h \in {"ok", "bad", "gone"} : HealthChanges(i, h)
  \/ PreferencesChange

\* The sweep of every day starts a run, and runs go on.
Spec ==
  /\ Init /\ [][Next]_vars
  /\ \A w \in Runners : WF_vars(Work(w))
  /\ WF_vars(\E w \in Runners : Start(w))

-----------------------------------------------------------------------------
TypeOK ==
  /\ health \in [Items -> {"ok", "bad", "gone"}]
  /\ alerts \subseteq Alert
  /\ prefs \in [on : BOOLEAN, token : BOOLEAN, quiet : BOOLEAN]
  /\ events \in 0..MaxEvents

\* "One alert per connection per unhealthy episode", as far as it goes: no
\* more rows and pushes than episodes, except for executions that overlapped
\* or ended between the push and its mark.
NoExtraAlerts ==
  \A i \in Items :
    ~overlapped => /\ Cardinality({a \in alerts : a.item = i}) <= episodes[i]
                   /\ pushes[i] <= episodes[i] + unmarked[i]

Alerted(i) == \E a \in OpenAlerts : a.item = i /\ a.sent
Reachable == prefs.on /\ prefs.token /\ ~prefs.quiet

\* What the alerts are for: a connection that stays broken is pushed, and one
\* that works again has no open alert left to hide its next episode.
OneAlertPerEpisode ==
  /\ [](TypeOK /\ NoExtraAlerts)
  /\ \A i \in Items :
       /\ <>[](health[i] = "bad" /\ Reachable) => <>[]Alerted(i)
       /\ <>[](health[i] = "ok" /\ prefs.on) => <>[](\A a \in OpenAlerts : a.item # i)
=============================================================================
