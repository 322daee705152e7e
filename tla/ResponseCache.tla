--------------------------- MODULE ResponseCache ---------------------------
(***************************************************************************)
(* The private response cache of one API process (response-cache.ts) and   *)
(* the user revisions that guard it (user-revisions.repository.ts).        *)
(*                                                                         *)
(* A request reads the user's revision, and with it asks the cache.  From  *)
(* there to the registration of its computation getOrCompute runs without  *)
(* an await, so that part is one step.  Writes commit with a revision      *)
(* increment in this process or in another (an API process, the worker);   *)
(* the eviction that follows is a call in this process or a notification,  *)
(* and notifications can be late or lost.                                  *)
(*                                                                         *)
(* The payload of a response is the revision of the data it was computed   *)
(* from.  A request that computes is the name of its computation (flight). *)
(***************************************************************************)
EXTENDS Naturals, FiniteSets

CONSTANTS
  Requests,     \* GET requests
  Users,
  Routes,       \* normalized route, query, date and the rest of the key
  Asks,         \* the user and the route of each request
  Capacity,     \* maxEntries of the LRU cache
  TtlTicks,     \* ttlMs, in ticks
  MaxWrites     \* bound: mutations per user

ASSUME CacheAssumption ==
  /\ Asks \in [Requests -> [user : Users, route : Routes]]
  /\ Capacity \in Nat \ {0}
  /\ TtlTicks \in Nat \ {0}
  /\ MaxWrites \in Nat

VARIABLES
  revision,   \* user_data_versions: the committed revision of each user
  notified,   \* users whose eviction is on its way to this process
  cache,      \* the state of the cache object, see Cache
  flight,     \* the computation of each request that made one
  request     \* progress of each request

database == <<revision, notified>>
vars == <<database, cache, flight, request>>

Revisions == 0..MaxWrites
Keys == [user : Users, route : Routes, revision : Revisions]

\* epoch is the invalidation epoch in which the value's computation started.
Entry == [key : Keys, version : Revisions, left : 0..TtlTicks, epoch : Nat]

\* lru holds the entries, and older the pairs of keys the first of which was used
\* less recently; observed holds at most one revision per user; inFlight at most
\* one flight per key.
Cache == [lru : SUBSET Entry, older : SUBSET (Keys \X Keys), userKeys : [Users -> SUBSET Keys],
          observed : [Users -> SUBSET Revisions], epoch : [Users -> Nat],
          inFlight : [Keys -> SUBSET Requests]]

Flight == [at : {"none", "querying", "computed", "resolved", "rejected"},
           version : Revisions, epoch : Nat]

\* floor is the revision committed when the request arrived, asked the epoch in
\* which it asked the cache, of the flight it waits for, answer the version it
\* was given and source the epoch in which the computation of that started.
Request == [at : {"new", "looking", "waiting", "answered", "refused"},
            key : Keys, floor : Revisions, asked : Nat, of : Requests,
            answer : Revisions, source : Nat]

TypeOK ==
  /\ revision \in [Users -> Revisions]
  /\ notified \subseteq Users
  /\ cache \in Cache
  /\ Cardinality(cache.lru) <= Capacity
  /\ flight \in [Requests -> Flight]
  /\ request \in [Requests -> Request]

NoFlight == [at |-> "none", version |-> 0, epoch |-> 0]

Init ==
  /\ revision = [u \in Users |-> 0]
  /\ notified = {}
  /\ cache = [lru |-> {}, older |-> {}, userKeys |-> [u \in Users |-> {}],
              observed |-> [u \in Users |-> {}], epoch |-> [u \in Users |-> 0],
              inFlight |-> [k \in Keys |-> {}]]
  /\ flight = [r \in Requests |-> NoFlight]
  /\ request = [r \in Requests |->
       [at |-> "new", key |-> CHOOSE k \in Keys : TRUE, floor |-> 0, asked |-> 0,
        of |-> r, answer |-> 0, source |-> 0]]
-----------------------------------------------------------------------------
(* The synchronous operations of the cache, as functions of its state. *)

EntriesOf(c, k) == {x \in c.lru : x.key = k}
Live(c, k) == {x \in EntriesOf(c, k) : x.left > 0}
Held(c) == {x.key : x \in c.lru}

Without(c, dead) ==
  [c EXCEPT !.lru = {x \in @ : x.key \notin dead},
            !.older = {p \in @ : p[1] \notin dead /\ p[2] \notin dead}]

\* k becomes the most recently used key.
UsedLast(c, k) ==
  [c EXCEPT !.older = {p \in @ : p[1] # k /\ p[2] # k} \cup {<<j, k>> : j \in Held(c) \ {k}}]

FlightsLeft(c, u) == [k \in Keys |-> IF k.user = u THEN {} ELSE c.inFlight[k]]

\* invalidateUser removes what the user's index names.
Invalidated(c, u) ==
  [Without(c, c.userKeys[u]) EXCEPT !.epoch[u] = @ + 1,
                                    !.userKeys[u] = {},
                                    !.inFlight = FlightsLeft(c, u)]

\* recordObservedRevision: a revision other than the last one seen evicts.
Observed(c, k) ==
  LET d == IF c.observed[k.user] \subseteq {k.revision} THEN c ELSE Invalidated(c, k.user)
  IN [d EXCEPT !.observed[k.user] = {k.revision}]

\* Mutant: an evicted entry stays in its user's index.
RemovedFromLru(c, dead) == Without(c, dead)

\* Entries leave with their place in the index (disposeAfter).
Removed(c, dead) ==
  [Without(c, dead) EXCEPT !.userKeys = [u \in Users |-> @[u] \ dead]]

\* lru.get makes the entry the most recently used one.
Touched(c, x) == UsedLast(c, x.key)

\* tryStore, after the entries of the keys D were evicted for room: nothing is
\* stored once the epoch has moved on.
Stored(c, k, f, D) ==
  IF f.epoch # c.epoch[k.user] THEN c
  ELSE [UsedLast(Removed(c, D), k) EXCEPT
          !.lru = @ \cup {[key |-> k, version |-> f.version, left |-> TtlTicks,
                           epoch |-> f.epoch]},
          !.userKeys[k.user] = @ \cup {k}]
-----------------------------------------------------------------------------
(* Writes: withUserMutation, in whichever process. *)

\* The change and the revision commit together; the eviction is still to come.
Write(u) ==
  /\ revision[u] < MaxWrites
  /\ revision' = [revision EXCEPT ![u] = @ + 1]
  /\ notified' = notified \cup {u}
  /\ UNCHANGED <<cache, flight, request>>

\* pg_notify fails, the LISTEN connection is down, or the writer died.
NotificationLost(u) ==
  /\ u \in notified
  /\ notified' = notified \ {u}
  /\ UNCHANGED <<revision, cache, flight, request>>

\* The call after the commit, or the listener's.
Evict(u) ==
  /\ u \in notified
  /\ notified' = notified \ {u}
  /\ cache' = Invalidated(cache, u)
  /\ UNCHANGED <<revision, flight, request>>
-----------------------------------------------------------------------------
(* Requests. *)

\* Mutant: a revision seen before saves the query.
RevisionSeen(u) ==
  IF cache.observed[u] # {} THEN CHOOSE n \in cache.observed[u] : TRUE ELSE revision[u]

RevisionRead(u) == revision[u]

Arrive(r) ==
  LET u == Asks[r].user IN
  /\ request[r].at = "new"
  /\ request' = [request EXCEPT
       ![r].at = "looking",
       ![r].key = [user |-> u, route |-> Asks[r].route, revision |-> RevisionRead(u)],
       ![r].floor = revision[u]]
  /\ UNCHANGED <<database, cache, flight>>

Answer(r, version, source) ==
  [request EXCEPT ![r].at = "answered", ![r].answer = version, ![r].source = source]

\* getOrCompute finds a live entry.
Hit(r) ==
  LET k == request[r].key
      c == Observed(cache, k)
  IN
  /\ request[r].at = "looking"
  /\ \E x \in Live(c, k) :
       /\ cache' = Touched(c, x)
       /\ request' = [Answer(r, x.version, x.epoch) EXCEPT ![r].asked = c.epoch[k.user]]
  /\ UNCHANGED <<database, flight>>

Joins(c, k) == c.inFlight[k]

\* getOrCompute finds none: an expired entry is removed, and the request joins
\* the flight registered under its key or starts one.
Miss(r) ==
  LET k == request[r].key
      c == Removed(Observed(cache, k), {k})
      now == c.epoch[k.user]
  IN
  /\ request[r].at = "looking"
  /\ Live(Observed(cache, k), k) = {}
  /\ \/ \E f \in Joins(c, k) :
          /\ cache' = c
          /\ request' = [request EXCEPT ![r].at = "waiting", ![r].asked = now, ![r].of = f]
          /\ UNCHANGED flight
     \/ /\ Joins(c, k) = {}
        /\ cache' = [c EXCEPT !.inFlight[k] = {r}]
        /\ flight' = [flight EXCEPT ![r].at = "querying", ![r].epoch = now]
        /\ request' = [request EXCEPT ![r].at = "waiting", ![r].asked = now]
  /\ UNCHANGED database

\* The computation reads the user's data, or fails to.
Query(r) ==
  /\ flight[r].at = "querying"
  /\ flight' = [flight EXCEPT ![r].at = "computed",
                  ![r].version = revision[request[r].key.user]]
  /\ UNCHANGED <<database, cache, request>>

\* Mutant: an error thrown before the first await rejects nothing.
QueryFailsSilently(r) ==
  /\ flight[r].at = "querying"
  /\ flight' = [flight EXCEPT ![r].at = "none"]
  /\ UNCHANGED <<database, cache, request>>

QueryFails(r) ==
  /\ flight[r].at = "querying"
  /\ flight' = [flight EXCEPT ![r].at = "rejected"]
  /\ UNCHANGED <<database, cache, request>>

\* The entries of the keys D leave before any that was used more recently, and
\* leave room for one more.
Oldest(D) == \A p \in cache.older : p[2] \in D => p[1] \in D
RoomAfter(D) == Cardinality(Without(cache, D).lru) < Capacity

\* The computation's then-callback.  The capacity, or the byte budget, decides
\* how many entries go; a value that is too large or cannot be serialized stays
\* out (stored = FALSE).
Resolve(r, D, stored) ==
  /\ flight[r].at = "computed"
  /\ Oldest(D)
  /\ RoomAfter(D)
  /\ cache' = IF stored THEN Stored(cache, request[r].key, flight[r], D) ELSE cache
  /\ flight' = [flight EXCEPT ![r].at = "resolved"]
  /\ UNCHANGED <<database, request>>

\* waitForFlight: the result reaches a request, which unregisters the flight if
\* it still is the one registered under the key.
Deliver(r) ==
  LET q == request[r] IN
  /\ q.at = "waiting"
  /\ flight[q.of].at \in {"resolved", "rejected"}
  /\ cache' = [cache EXCEPT !.inFlight[q.key] = @ \ {q.of}]
  /\ request' = IF flight[q.of].at = "resolved"
                THEN Answer(r, flight[q.of].version, flight[q.of].epoch)
                ELSE [request EXCEPT ![r].at = "refused"]
  /\ UNCHANGED <<database, flight>>
-----------------------------------------------------------------------------
(* Time. *)

Sooner(x) == [x EXCEPT !.left = IF @ > 0 THEN @ - 1 ELSE 0]

Tick ==
  /\ \E x \in cache.lru : x.left > 0
  /\ cache' = [cache EXCEPT !.lru = {Sooner(x) : x \in @}]
  /\ UNCHANGED <<database, flight, request>>

PurgeExpired ==
  LET over == {x.key : x \in {y \in cache.lru : y.left = 0}} IN
  /\ over # {}
  /\ cache' = Removed(cache, over)
  /\ UNCHANGED <<database, flight, request>>
-----------------------------------------------------------------------------
Step(r) ==
  \/ Hit(r) \/ Miss(r) \/ Query(r) \/ QueryFails(r)
  \/ (\E D \in SUBSET Held(cache), stored \in BOOLEAN : Resolve(r, D, stored))
  \/ Deliver(r)

Next ==
  \/ \E u \in Users : Write(u) \/ NotificationLost(u) \/ Evict(u)
  \/ \E r \in Requests : Arrive(r) \/ Step(r)
  \/ Tick
  \/ PurgeExpired

Spec == Init /\ [][Next]_vars
FairSpec == Spec /\ \A r \in Requests : WF_vars(Step(r))
-----------------------------------------------------------------------------
(* What the cache promises. *)

\* "If notification delivery is interrupted, revision checking prevents a stale
\* hit": whatever is lost or late, no request is given data older than what was
\* committed when it read the user's revision.
NoStaleAnswer ==
  \A r \in Requests : request[r].at = "answered" => request[r].answer >= request[r].floor

\* A request that asks after an eviction is never given what was computed from
\* before it, neither from the LRU nor by joining a flight.
NothingFromBeforeEviction ==
  \A r \in Requests : request[r].at = "answered" => request[r].source >= request[r].asked

\* Both: an answer is as new as its request may expect.
AnswersAreCurrent == NoStaleAnswer /\ NothingFromBeforeEviction

\* No computation overtaken by an eviction leaves its value behind.
EntriesAreOfThisEpoch == \A x \in cache.lru : x.epoch = cache.epoch[x.key.user]

\* The index evictions go by names the entries of each user, no more (it would
\* grow for ever) and no less (they would survive an eviction).
IndexIsExact ==
  \A u \in Users : cache.userKeys[u] = {k \in Held(cache) : k.user = u}

\* Concurrent misses for one key share one computation, unless an eviction came
\* between them.
OneComputationPerKey ==
  \A q, r \in Requests :
    /\ q # r
    /\ flight[q].at \in {"querying", "computed"}
    /\ flight[r].at \in {"querying", "computed"}
    /\ request[q].key = request[r].key
    => flight[q].epoch # flight[r].epoch

\* The TTL is absolute: no step extends the life of an entry.
TtlIsAbsolute ==
  [][\A x \in cache.lru : \A y \in EntriesOf(cache', x.key) : y.left <= x.left]_vars

\* The three tables of the cache agree, entries, index and flights in progress,
\* and no entry outlives its time.
TablesAgree ==
  /\ [](TypeOK /\ EntriesAreOfThisEpoch /\ IndexIsExact /\ OneComputationPerKey)
  /\ TtlIsAbsolute

\* Every request that asked is answered or refused, also when the computation
\* it joined fails or is evicted from the table of flights.
EveryRequestEnds ==
  \A r \in Requests : (request[r].at \in {"looking", "waiting"})
                      ~> (request[r].at \in {"answered", "refused"})
=============================================================================
