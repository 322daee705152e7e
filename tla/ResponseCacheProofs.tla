------------------------ MODULE ResponseCacheProofs ------------------------
(***************************************************************************)
(* AnswersAreCurrent and TablesAgree hold of every instance of             *)
(* ResponseCache: any number of requests, users, routes and writes, any    *)
(* capacity and any time to live.                                          *)
(*                                                                         *)
(* The tables of the cache are a record, and its operations functions of   *)
(* it: what each keeps is proved of any record, and the actions combine    *)
(* them.                                                                   *)
(***************************************************************************)
EXTENDS ResponseCache, FiniteSetTheorems, TLAPS

\* The entries of c: few, one per key, of the present epoch of their user, named
\* by the index and nothing else, and no older than their key says.
TablesSound(c) ==
  /\ IsFiniteSet(c.lru) /\ Cardinality(c.lru) <= Capacity
  /\ \A x, y \in c.lru : x.key = y.key => x = y
  /\ \A x \in c.lru : x.epoch = c.epoch[x.key.user]
  /\ \A u \in Users : c.userKeys[u] = {k \in Held(c) : k.user = u}
  /\ \A x \in c.lru : x.version >= x.key.revision

Running == {"querying", "computed"}

\* The flights of c: whoever is registered runs, or ran, for its key in the
\* present epoch; whoever runs in the present epoch is registered, and no entry
\* has its key.
FlightsSound(c, fl, rq) ==
  /\ \A k \in Keys : \A f, g \in c.inFlight[k] : f = g
  /\ \A k \in Keys : \A f \in c.inFlight[k] :
       fl[f].at # "none" /\ rq[f].key = k /\ fl[f].epoch = c.epoch[k.user]
  /\ \A f \in Requests :
       fl[f].at \in Running /\ fl[f].epoch = c.epoch[rq[f].key.user] =>
         f \in c.inFlight[rq[f].key] /\ \A x \in c.lru : x.key # rq[f].key
  /\ \A f \in Requests : fl[f].at # "none" => fl[f].epoch <= c.epoch[rq[f].key.user]

\* A computation that read the data read none older than its key says.
FlightsCurrent ==
  \A f \in Requests :
    /\ flight[f].at # "none" => request[f].at \notin {"new", "looking"}
    /\ flight[f].at \in {"computed", "resolved"} => flight[f].version >= request[f].key.revision

\* A request waits for a flight of its own key, no older than the epoch it asked
\* in; before it has asked, the only flight it can come to wait for is its own.
RequestsSound ==
  \A r \in Requests :
    /\ request[r].at \in {"new", "looking"} => request[r].of = r
    /\ request[r].at # "new" =>
         /\ request[r].floor = request[r].key.revision
         /\ request[r].key.revision <= revision[request[r].key.user]
    /\ request[r].at = "waiting" =>
         /\ flight[request[r].of].at # "none"
         /\ request[request[r].of].key = request[r].key
         /\ flight[request[r].of].epoch >= request[r].asked

IInv ==
  /\ TypeOK
  /\ TablesSound(cache)
  /\ FlightsSound(cache, flight, request)
  /\ FlightsCurrent
  /\ RequestsSound
  /\ OneComputationPerKey
  /\ AnswersAreCurrent

\* Names for the parts of the types.
LEMMA KeyTypes ==
  /\ \A k \in Keys : k.user \in Users /\ k.revision \in Nat
  /\ \A x \in Entry : x.key \in Keys /\ x.version \in Nat /\ x.left \in Nat /\ x.epoch \in Nat
BY CacheAssumption DEF Keys, Entry, Revisions
-----------------------------------------------------------------------------
(* The operations on the tables. *)

\* Without(c, dead) touches nothing but the entries and their order.
LEMMA WithoutIs ==
  ASSUME NEW c \in Cache, NEW dead
  PROVE  LET d == Without(c, dead) IN
         /\ d \in Cache
         /\ d.lru = {x \in c.lru : x.key \notin dead}
         /\ d.userKeys = c.userKeys /\ d.observed = c.observed
         /\ d.epoch = c.epoch /\ d.inFlight = c.inFlight
BY DEF Without, Cache

\* Removed takes the entries out of table and index, and nothing else.
LEMMA RemovedIs ==
  ASSUME NEW c \in Cache, NEW dead
  PROVE  LET d == Removed(c, dead) IN
         /\ d \in Cache
         /\ d.lru = {x \in c.lru : x.key \notin dead}
         /\ \A u \in Users : d.userKeys[u] = c.userKeys[u] \ dead
         /\ d.observed = c.observed /\ d.epoch = c.epoch /\ d.inFlight = c.inFlight
<1> DEFINE w == Without(c, dead)
<1>1. /\ w \in Cache /\ w.lru = {x \in c.lru : x.key \notin dead} /\ w.userKeys = c.userKeys
      /\ w.observed = c.observed /\ w.epoch = c.epoch /\ w.inFlight = c.inFlight
  BY WithoutIs
<1> HIDE DEF w
<1>2. Removed(c, dead) = [w EXCEPT !.userKeys = [u \in Users |-> w.userKeys[u] \ dead]]
  BY <1>1 DEF Removed, w
<1> QED BY <1>1, <1>2 DEF Cache

\* Invalidated takes one user's entries, index and flights, and moves the epoch.
LEMMA InvalidatedIs ==
  ASSUME NEW c \in Cache, NEW u \in Users
  PROVE  LET d == Invalidated(c, u) IN
         /\ d \in Cache
         /\ d.lru = {x \in c.lru : x.key \notin c.userKeys[u]}
         /\ \A v \in Users : d.userKeys[v] = IF v = u THEN {} ELSE c.userKeys[v]
         /\ \A v \in Users : d.epoch[v] = IF v = u THEN c.epoch[u] + 1 ELSE c.epoch[v]
         /\ \A k \in Keys : d.inFlight[k] = IF k.user = u THEN {} ELSE c.inFlight[k]
         /\ d.observed = c.observed
<1> DEFINE w == Without(c, c.userKeys[u])
           left == FlightsLeft(c, u)
<1>1. /\ w \in Cache /\ w.lru = {x \in c.lru : x.key \notin c.userKeys[u]}
      /\ w.userKeys = c.userKeys /\ w.epoch = c.epoch /\ w.observed = c.observed
  BY WithoutIs
<1>2. /\ left \in [Keys -> SUBSET Requests]
      /\ \A k \in Keys : left[k] = IF k.user = u THEN {} ELSE c.inFlight[k]
  BY DEF FlightsLeft, Cache
<1> DEFINE epoch == [w.epoch EXCEPT ![u] = w.epoch[u] + 1]
           index == [w.userKeys EXCEPT ![u] = {}]
<1> HIDE DEF w, left
<1>3. /\ epoch \in [Users -> Nat]
      /\ \A v \in Users : epoch[v] = IF v = u THEN c.epoch[u] + 1 ELSE c.epoch[v]
  BY <1>1 DEF Cache
<1>4. /\ index \in [Users -> SUBSET Keys]
      /\ \A v \in Users : index[v] = IF v = u THEN {} ELSE c.userKeys[v]
  BY <1>1 DEF Cache
<1>5. Invalidated(c, u) = [w EXCEPT !.epoch = epoch, !.userKeys = index, !.inFlight = left]
  BY <1>1 DEF Invalidated, w, left, Cache
<1> HIDE DEF epoch, index
<1>6. /\ Invalidated(c, u) \in Cache
      /\ Invalidated(c, u).lru = w.lru /\ Invalidated(c, u).epoch = epoch
      /\ Invalidated(c, u).userKeys = index /\ Invalidated(c, u).inFlight = left
      /\ Invalidated(c, u).observed = w.observed
  BY <1>1, <1>2, <1>3, <1>4, <1>5 DEF Cache
<1> QED BY <1>1, <1>2, <1>3, <1>4, <1>6

\* Entries may leave, with their keys.
LEMMA RemovedTables ==
  ASSUME NEW c \in Cache, NEW dead, TablesSound(c)
  PROVE  TablesSound(Removed(c, dead))
<1> DEFINE d == Removed(c, dead)
<1>1. /\ d \in Cache /\ d.lru = {x \in c.lru : x.key \notin dead} /\ d.epoch = c.epoch
      /\ \A u \in Users : d.userKeys[u] = c.userKeys[u] \ dead
  BY RemovedIs
<1> HIDE DEF d
<1>2. d.lru \subseteq c.lru
  BY <1>1
<1>3. IsFiniteSet(d.lru) /\ Cardinality(d.lru) <= Cardinality(c.lru)
  BY <1>2, FS_Subset DEF TablesSound
<1>4. Cardinality(d.lru) \in Nat /\ Cardinality(c.lru) \in Nat
  BY <1>3, FS_CardinalityType DEF TablesSound
<1>5. \A u \in Users : d.userKeys[u] = {k \in Held(d) : k.user = u}
  BY <1>1 DEF TablesSound, Held
<1> QED BY <1>1, <1>2, <1>3, <1>4, <1>5, CacheAssumption DEF TablesSound, d

\* An eviction removes all entries of the user, for the index names them all.
LEMMA InvalidatedTables ==
  ASSUME NEW c \in Cache, NEW u \in Users, TablesSound(c)
  PROVE  TablesSound(Invalidated(c, u))
<1> DEFINE d == Invalidated(c, u)
<1>1. /\ d \in Cache /\ d.lru = {x \in c.lru : x.key \notin c.userKeys[u]}
      /\ \A v \in Users : d.userKeys[v] = IF v = u THEN {} ELSE c.userKeys[v]
      /\ \A v \in Users : d.epoch[v] = IF v = u THEN c.epoch[u] + 1 ELSE c.epoch[v]
  BY InvalidatedIs
<1> HIDE DEF d
<1>2. c.lru \subseteq Entry
  BY DEF Cache
<1>3. d.lru = {x \in c.lru : x.key.user # u}
  BY <1>1 DEF TablesSound, Held
<1>4. IsFiniteSet(d.lru) /\ Cardinality(d.lru) <= Cardinality(c.lru)
  BY <1>3, FS_Subset DEF TablesSound
<1>5. Cardinality(d.lru) \in Nat /\ Cardinality(c.lru) \in Nat
  BY <1>4, FS_CardinalityType DEF TablesSound
<1>6. \A v \in Users : d.userKeys[v] = {k \in Held(d) : k.user = v}
  BY <1>1, <1>3 DEF TablesSound, Held
<1>7. \A x \in d.lru : x.epoch = d.epoch[x.key.user]
  BY <1>1, <1>2, <1>3, KeyTypes DEF TablesSound
<1> QED BY <1>3, <1>4, <1>5, <1>6, <1>7, CacheAssumption DEF TablesSound, d

\* An eviction strikes the flights of its user off, and they are of an epoch past.
LEMMA InvalidatedFlights ==
  ASSUME NEW c \in Cache, NEW u \in Users,
         NEW fl \in [Requests -> Flight], NEW rq \in [Requests -> Request],
         FlightsSound(c, fl, rq)
  PROVE  FlightsSound(Invalidated(c, u), fl, rq)
<1> DEFINE d == Invalidated(c, u)
<1>1. /\ d.lru \subseteq c.lru
      /\ \A v \in Users : d.epoch[v] = IF v = u THEN c.epoch[u] + 1 ELSE c.epoch[v]
      /\ \A k \in Keys : d.inFlight[k] = IF k.user = u THEN {} ELSE c.inFlight[k]
  BY InvalidatedIs
<1> HIDE DEF d
<1>2. /\ \A f \in Requests : fl[f].epoch \in Nat /\ rq[f].key \in Keys
      /\ \A v \in Users : c.epoch[v] \in Nat
      /\ \A k \in Keys : c.inFlight[k] \subseteq Requests
  BY DEF Flight, Request, Cache
<1>3. \A k \in Keys : \A f, g \in d.inFlight[k] : f = g
  BY <1>1 DEF FlightsSound
<1>4. \A k \in Keys : \A f \in d.inFlight[k] :
        fl[f].at # "none" /\ rq[f].key = k /\ fl[f].epoch = d.epoch[k.user]
  BY <1>1, KeyTypes DEF FlightsSound
<1>5. ASSUME NEW f \in Requests, fl[f].at # "none"
      PROVE  /\ fl[f].epoch <= d.epoch[rq[f].key.user]
             /\ fl[f].epoch = d.epoch[rq[f].key.user] =>
                  rq[f].key.user # u /\ fl[f].epoch = c.epoch[rq[f].key.user]
  BY <1>1, <1>2, <1>5, KeyTypes DEF FlightsSound
<1>6. ASSUME NEW f \in Requests, fl[f].at \in Running, fl[f].epoch = d.epoch[rq[f].key.user]
      PROVE  f \in d.inFlight[rq[f].key] /\ \A x \in d.lru : x.key # rq[f].key
  BY <1>1, <1>2, <1>5, <1>6 DEF FlightsSound, Running
<1> QED BY <1>3, <1>4, <1>5, <1>6 DEF FlightsSound, d

\* Entries that leave take no flight along.
LEMMA RemovedFlights ==
  ASSUME NEW c \in Cache, NEW dead, NEW fl, NEW rq, FlightsSound(c, fl, rq)
  PROVE  FlightsSound(Removed(c, dead), fl, rq)
<1> DEFINE d == Removed(c, dead)
<1>1. d.lru \subseteq c.lru /\ d.epoch = c.epoch /\ d.inFlight = c.inFlight
  BY RemovedIs
<1> HIDE DEF d
<1> QED BY <1>1 DEF FlightsSound, d

\* recordObservedRevision evicts or does not, and keeps all that is sound.
LEMMA ObservedKeeps ==
  ASSUME NEW c \in Cache, NEW k \in Keys,
         NEW fl \in [Requests -> Flight], NEW rq \in [Requests -> Request],
         TablesSound(c), FlightsSound(c, fl, rq)
  PROVE  LET d == Observed(c, k) IN
         d \in Cache /\ d.lru \subseteq c.lru /\ TablesSound(d) /\ FlightsSound(d, fl, rq)
<1> DEFINE e == IF c.observed[k.user] \subseteq {k.revision} THEN c ELSE Invalidated(c, k.user)
<1>1. k.user \in Users /\ k.revision \in Revisions
  BY DEF Keys
<1>2. e \in Cache /\ e.lru \subseteq c.lru /\ TablesSound(e) /\ FlightsSound(e, fl, rq)
  BY <1>1, InvalidatedIs, InvalidatedTables, InvalidatedFlights
<1> HIDE DEF e
<1>3. Observed(c, k) = [e EXCEPT !.observed[k.user] = {k.revision}]
  BY DEF Observed, e
<1> DEFINE d == Observed(c, k)
<1>4. /\ d \in Cache /\ d.lru = e.lru /\ d.userKeys = e.userKeys /\ d.epoch = e.epoch
      /\ d.inFlight = e.inFlight
  BY <1>1, <1>2, <1>3 DEF Cache
<1> HIDE DEF d
<1>5. TablesSound(d)
  BY <1>2, <1>4 DEF TablesSound, Held
<1>6. FlightsSound(d, fl, rq)
  BY <1>2, <1>4 DEF FlightsSound
<1> QED BY <1>2, <1>4, <1>5, <1>6 DEF d

\* The order of the entries is nobody's concern but the eviction's.
LEMMA UsedLastIs ==
  ASSUME NEW c \in Cache, NEW k \in Keys
  PROVE  LET d == UsedLast(c, k) IN
         /\ d \in Cache /\ d.lru = c.lru /\ d.userKeys = c.userKeys /\ d.epoch = c.epoch
         /\ d.inFlight = c.inFlight /\ d.observed = c.observed
<1>1. Held(c) \subseteq Keys
  BY KeyTypes DEF Held, Cache
<1> DEFINE o == {p \in c.older : p[1] # k /\ p[2] # k} \cup {<<j, k>> : j \in Held(c) \ {k}}
<1>2. o \in SUBSET (Keys \X Keys)
  BY <1>1 DEF Cache
<1> HIDE DEF o
<1>3. UsedLast(c, k) = [c EXCEPT !.older = o]
  BY DEF UsedLast, o
<1> QED BY <1>2, <1>3 DEF Cache

\* A flight of the present epoch stores the one entry of its key.
LEMMA StoredIs ==
  ASSUME NEW c \in Cache, NEW k \in Keys, NEW f \in Flight, NEW D, f.epoch = c.epoch[k.user]
  PROVE  LET d == Stored(c, k, f, D)
             x == [key |-> k, version |-> f.version, left |-> TtlTicks, epoch |-> f.epoch]
         IN
         /\ d \in Cache /\ x \in Entry
         /\ d.lru = {y \in c.lru : y.key \notin D} \cup {x}
         /\ \A u \in Users : d.userKeys[u] = (c.userKeys[u] \ D) \cup (IF u = k.user THEN {k} ELSE {})
         /\ d.epoch = c.epoch /\ d.inFlight = c.inFlight
<1> DEFINE x == [key |-> k, version |-> f.version, left |-> TtlTicks, epoch |-> f.epoch]
           r == Removed(c, D)
           w == UsedLast(r, k)
<1>1. x \in Entry
  BY CacheAssumption DEF Entry, Flight
<1>2. /\ w \in Cache /\ w.lru = {y \in c.lru : y.key \notin D}
      /\ \A u \in Users : w.userKeys[u] = c.userKeys[u] \ D
      /\ w.epoch = c.epoch /\ w.inFlight = c.inFlight
  BY RemovedIs, UsedLastIs
<1>3. Stored(c, k, f, D) = [w EXCEPT !.lru = w.lru \cup {x},
                                     !.userKeys[k.user] = w.userKeys[k.user] \cup {k}]
  BY <1>2 DEF Stored, Cache
<1> HIDE DEF x, r, w
<1>4. k.user \in Users
  BY KeyTypes
<1> DEFINE index == [w.userKeys EXCEPT ![k.user] = w.userKeys[k.user] \cup {k}]
<1>5. /\ index \in [Users -> SUBSET Keys]
      /\ \A u \in Users : index[u] = w.userKeys[u] \cup (IF u = k.user THEN {k} ELSE {})
  BY <1>2, <1>4 DEF Cache
<1>6. Stored(c, k, f, D) = [w EXCEPT !.lru = w.lru \cup {x}, !.userKeys = index]
  BY <1>2, <1>3 DEF Cache, index
<1> HIDE DEF index
<1>7. \A l \in SUBSET Entry :
         LET d == [w EXCEPT !.lru = l, !.userKeys = index] IN
         /\ d \in Cache /\ d.lru = l /\ d.userKeys = index
         /\ d.epoch = w.epoch /\ d.inFlight = w.inFlight
  BY <1>2, <1>5 DEF Cache
<1>8. w.lru \cup {x} \in SUBSET Entry
  BY <1>1, <1>2 DEF Cache
<1>9. /\ Stored(c, k, f, D) \in Cache
      /\ Stored(c, k, f, D).lru = w.lru \cup {x} /\ Stored(c, k, f, D).userKeys = index
      /\ Stored(c, k, f, D).epoch = w.epoch /\ Stored(c, k, f, D).inFlight = w.inFlight
  BY <1>6, <1>7, <1>8
<1>10. /\ Stored(c, k, f, D).lru = {y \in c.lru : y.key \notin D} \cup {x}
      /\ Stored(c, k, f, D).epoch = c.epoch /\ Stored(c, k, f, D).inFlight = c.inFlight
  BY <1>2, <1>9
<1>11. \A u \in Users : Stored(c, k, f, D).userKeys[u]
                        = (c.userKeys[u] \ D) \cup (IF u = k.user THEN {k} ELSE {})
  BY <1>2, <1>5, <1>9
<1> QED BY <1>1, <1>9, <1>10, <1>11 DEF x

\* The stored entry has room, and is of the present epoch and in the index.
LEMMA StoredTables ==
  ASSUME NEW c \in Cache, NEW k \in Keys, NEW f \in Flight, NEW D, f.epoch = c.epoch[k.user],
         TablesSound(c), \A x \in c.lru : x.key # k, f.version >= k.revision,
         Cardinality(Without(c, D).lru) < Capacity
  PROVE  TablesSound(Stored(c, k, f, D))
<1> DEFINE d == Stored(c, k, f, D)
           x == [key |-> k, version |-> f.version, left |-> TtlTicks, epoch |-> f.epoch]
           kept == {y \in c.lru : y.key \notin D}
<1>1. /\ d.lru = kept \cup {x} /\ d.epoch = c.epoch /\ x \in Entry
      /\ \A u \in Users : d.userKeys[u] = (c.userKeys[u] \ D) \cup (IF u = k.user THEN {k} ELSE {})
  BY StoredIs
<1>2. x.key = k /\ x.epoch = c.epoch[k.user] /\ x.version >= k.revision
  OBVIOUS
<1>3. IsFiniteSet(kept) /\ Cardinality(kept) \in Nat /\ Cardinality(kept) < Capacity
  <2>1. kept \in SUBSET c.lru /\ kept = Without(c, D).lru
    BY WithoutIs
  <2> QED BY <2>1, FS_Subset, FS_CardinalityType DEF TablesSound
<1> HIDE DEF d, x, kept
<1>4. IsFiniteSet(d.lru) /\ Cardinality(d.lru) <= Capacity
  <2>1. /\ IsFiniteSet(d.lru)
        /\ Cardinality(d.lru) = IF x \in kept THEN Cardinality(kept) ELSE Cardinality(kept) + 1
    BY <1>1, <1>3, FS_AddElement
  <2> QED BY <1>3, <2>1, CacheAssumption
<1>5. kept \subseteq c.lru /\ \A y \in kept : y.key \notin D /\ y.key # k
  BY DEF kept
<1>6. \A y, z \in d.lru : y.key = z.key => y = z
  BY <1>1, <1>2, <1>5 DEF TablesSound
<1>7. \A y \in d.lru : y.epoch = d.epoch[y.key.user] /\ y.version >= y.key.revision
  BY <1>1, <1>2, <1>5 DEF TablesSound
<1>8. \A u \in Users : d.userKeys[u] = {j \in Held(d) : j.user = u}
  <2>1. Held(d) = (Held(c) \ D) \cup {k}
    BY <1>1, <1>2 DEF Held, kept
  <2> QED BY <1>1, <2>1 DEF TablesSound
<1> QED BY <1>4, <1>6, <1>7, <1>8 DEF TablesSound, d

\* What is stored brings no other key along.
LEMMA StoredBrings ==
  ASSUME NEW c \in Cache, NEW k \in Keys, NEW f \in Flight, NEW D, f.epoch = c.epoch[k.user]
  PROVE  LET d == Stored(c, k, f, D) IN
         /\ d \in Cache /\ d.epoch = c.epoch /\ d.inFlight = c.inFlight
         /\ \A x \in d.lru : x \in c.lru \/ x.key = k
<1> DEFINE d == Stored(c, k, f, D)
           x == [key |-> k, version |-> f.version, left |-> TtlTicks, epoch |-> f.epoch]
<1>1. /\ d \in Cache /\ x \in Entry
      /\ d.lru = {y \in c.lru : y.key \notin D} \cup {x}
      /\ \A u \in Users : d.userKeys[u] = (c.userKeys[u] \ D) \cup (IF u = k.user THEN {k} ELSE {})
      /\ d.epoch = c.epoch /\ d.inFlight = c.inFlight
  BY StoredIs
<1>2. x.key = k
  OBVIOUS
<1> HIDE DEF d, x
<1> QED BY <1>1, <1>2 DEF d

\* Its flight is done; no other runs for the key in this epoch.
LEMMA StoredFlights ==
  ASSUME NEW c \in Cache, NEW fl \in [Requests -> Flight], NEW rq \in [Requests -> Request],
         NEW r \in Requests, NEW D, FlightsSound(c, fl, rq),
         fl[r].at \in Running, fl[r].epoch = c.epoch[rq[r].key.user],
         NEW fl2 \in [Requests -> Flight], fl2 = [fl EXCEPT ![r].at = "resolved"]
  PROVE  FlightsSound(Stored(c, rq[r].key, fl[r], D), fl2, rq)
<1> DEFINE k == rq[r].key
           d == Stored(c, k, fl[r], D)
<1>1. k \in Keys /\ fl[r] \in Flight
  BY DEF Request
<1>2. /\ d.epoch = c.epoch /\ d.inFlight = c.inFlight
      /\ \A x \in d.lru : x \in c.lru \/ x.key = k
  BY <1>1, StoredBrings
<1> HIDE DEF d
<1>3. /\ fl2[r].at = "resolved" /\ fl2[r].epoch = fl[r].epoch
      /\ \A f \in Requests : f # r => fl2[f] = fl[f]
  BY <1>1 DEF Flight
<1>4. \A j \in Keys : c.inFlight[j] \subseteq Requests
  BY DEF Cache
<1>5. ASSUME NEW f \in Requests, fl2[f].at \in Running, fl2[f].epoch = d.epoch[rq[f].key.user]
      PROVE  /\ f # r /\ f \in d.inFlight[rq[f].key]
             /\ \A x \in d.lru : x.key # rq[f].key
  <2>1. f # r /\ fl2[f] = fl[f]
    BY <1>3, <1>5 DEF Running
  <2>2. f \in c.inFlight[rq[f].key] /\ r \in c.inFlight[k] /\ \A x \in c.lru : x.key # rq[f].key
    BY <1>2, <1>5, <2>1 DEF FlightsSound
  <2>3. rq[f].key # k
    BY <1>1, <2>1, <2>2 DEF FlightsSound
  <2> QED BY <1>2, <2>1, <2>2, <2>3
<1>6. \A j \in Keys : \A f \in d.inFlight[j] :
        fl2[f].at # "none" /\ rq[f].key = j /\ fl2[f].epoch = d.epoch[j.user]
  BY <1>2, <1>3, <1>4 DEF FlightsSound
<1>7. \A f \in Requests : fl2[f].at # "none" => fl2[f].epoch <= d.epoch[rq[f].key.user]
  BY <1>2, <1>3 DEF FlightsSound, Running
<1> QED BY <1>2, <1>5, <1>6, <1>7 DEF FlightsSound, d

\* A flight that runs, or ends, in its epoch stays what the tables say of it.
LEMMA FlightsMoveOn ==
  ASSUME NEW c \in Cache, NEW fl, NEW rq, NEW r \in Requests, FlightsSound(c, fl, rq),
         fl[r].at \in Running,
         NEW fl2, fl2[r].at # "none", fl2[r].epoch = fl[r].epoch,
         \A f \in Requests : f # r => fl2[f] = fl[f]
  PROVE  FlightsSound(c, fl2, rq)
<1>1. \A k \in Keys : c.inFlight[k] \subseteq Requests
  BY DEF Cache
<1>2. \A k \in Keys : \A f \in c.inFlight[k] :
        fl2[f].at # "none" /\ rq[f].key = k /\ fl2[f].epoch = c.epoch[k.user]
  BY <1>1 DEF FlightsSound
<1>3. fl[r].at # "none"
  BY DEF Running
<1>4. \A f \in Requests : fl2[f].at # "none" => fl2[f].epoch <= c.epoch[rq[f].key.user]
  BY <1>3 DEF FlightsSound
<1>5. \A f \in Requests : fl2[f].at \in Running => fl[f].at \in Running /\ fl2[f].epoch = fl[f].epoch
  OBVIOUS
<1> QED BY <1>2, <1>4, <1>5 DEF FlightsSound

\* A flight is started only where none is registered and nothing stored.
LEMMA FlightStarts ==
  ASSUME NEW c \in Cache, NEW fl, NEW rq \in [Requests -> Request], NEW r \in Requests,
         NEW k \in Keys,
         FlightsSound(c, fl, rq), rq[r].key = k, fl[r].at = "none",
         c.inFlight[k] = {}, \A x \in c.lru : x.key # k,
         NEW fl2, fl2[r].at = "querying", fl2[r].epoch = c.epoch[k.user],
         \A f \in Requests : f # r => fl2[f] = fl[f]
  PROVE  LET d == [c EXCEPT !.inFlight[k] = {r}] IN
         /\ d \in Cache /\ d.lru = c.lru /\ d.userKeys = c.userKeys /\ d.epoch = c.epoch
         /\ FlightsSound(d, fl2, rq)
<1> DEFINE inFlight == [c.inFlight EXCEPT ![k] = {r}]
           d == [c EXCEPT !.inFlight[k] = {r}]
<1>1. /\ inFlight \in [Keys -> SUBSET Requests] /\ inFlight[k] = {r}
      /\ \A j \in Keys : j # k => inFlight[j] = c.inFlight[j]
  BY DEF Cache
<1>2. d = [c EXCEPT !.inFlight = inFlight]
  BY DEF Cache
<1> HIDE DEF inFlight
<1>3. /\ d \in Cache /\ d.lru = c.lru /\ d.userKeys = c.userKeys /\ d.epoch = c.epoch
      /\ d.inFlight = inFlight
  BY <1>1, <1>2 DEF Cache
<1> HIDE DEF d
<1>4. c.epoch[k.user] \in Nat /\ \A j \in Keys : c.inFlight[j] \subseteq Requests /\ r \notin c.inFlight[j]
  BY KeyTypes DEF Cache, FlightsSound
<1>5. \A j \in Keys : \A f, g \in d.inFlight[j] : f = g
  BY <1>1, <1>3 DEF FlightsSound
<1>6. \A j \in Keys : \A f \in d.inFlight[j] :
        fl2[f].at # "none" /\ rq[f].key = j /\ fl2[f].epoch = d.epoch[j.user]
  <2>1. TAKE j \in Keys
  <2>2. TAKE f \in d.inFlight[j]
  <2>3. CASE j = k
    BY <1>1, <1>3, <2>2, <2>3
  <2>4. CASE j # k
    BY <1>1, <1>3, <1>4, <2>2, <2>4 DEF FlightsSound
  <2> QED BY <2>3, <2>4
<1>7. ASSUME NEW f \in Requests, fl2[f].at \in Running, fl2[f].epoch = d.epoch[rq[f].key.user],
             rq[f].key \in Keys
      PROVE  f \in d.inFlight[rq[f].key] /\ \A x \in d.lru : x.key # rq[f].key
  <2>1. CASE f = r
    BY <1>1, <1>3, <2>1
  <2>2. CASE f # r
    <3>1. f \in c.inFlight[rq[f].key] /\ \A x \in c.lru : x.key # rq[f].key
      BY <1>3, <1>7, <2>2 DEF FlightsSound
    <3> QED BY <1>1, <1>3, <1>7, <3>1
  <2> QED BY <2>1, <2>2
<1>8. \A f \in Requests : fl2[f].at # "none" => fl2[f].epoch <= d.epoch[rq[f].key.user]
  BY <1>3, <1>4 DEF FlightsSound
<1>9. \A f \in Requests : rq[f].key \in Keys
  BY DEF Request
<1> QED BY <1>3, <1>5, <1>6, <1>7, <1>8, <1>9 DEF FlightsSound, d

\* Flights are told by the keys of their requests.
LEMMA FlightsFollowKeys ==
  ASSUME NEW c \in Cache, NEW fl, NEW rq, NEW rq2, FlightsSound(c, fl, rq),
         \A f \in Requests : fl[f].at # "none" => rq2[f].key = rq[f].key
  PROVE  FlightsSound(c, fl, rq2)
<1>1. \A k \in Keys : c.inFlight[k] \subseteq Requests
  BY DEF Cache
<1>2. \A f \in Requests : fl[f].at \in Running => fl[f].at # "none"
  BY DEF Running
<1> QED BY <1>1, <1>2 DEF FlightsSound
-----------------------------------------------------------------------------
(* The actions. *)

\* The database moves on, and keys stay behind it.
LEMMA DatabaseKeeps ==
  ASSUME IInv, NEW u \in Users, Write(u) \/ NotificationLost(u)
  PROVE  IInv'
<1> USE DEF IInv
<1>1. UNCHANGED <<cache, flight, request>>
  BY DEF Write, NotificationLost
<1>2. /\ revision' \in [Users -> Revisions] /\ notified' \in SUBSET Users
      /\ \A v \in Users : revision[v] \in Nat /\ revision'[v] \in Nat /\ revision'[v] >= revision[v]
  BY CacheAssumption DEF Write, NotificationLost, TypeOK, Revisions
<1>3. TypeOK'
  BY <1>1, <1>2 DEF TypeOK
<1>4. RequestsSound'
  <2>1. \A r \in Requests : request[r].key.user \in Users /\ request[r].key.revision \in Nat
    BY KeyTypes DEF TypeOK, Request
  <2> QED BY <1>1, <1>2, <2>1 DEF RequestsSound
<1>5. FlightsCurrent' /\ OneComputationPerKey' /\ AnswersAreCurrent'
  BY <1>1 DEF FlightsCurrent, OneComputationPerKey, AnswersAreCurrent, NoStaleAnswer,
     NothingFromBeforeEviction
<1>6. TablesSound(cache)' /\ FlightsSound(cache, flight, request)'
  BY <1>1
<1> QED BY <1>3, <1>4, <1>5, <1>6

\* Evictions, expiry and time change the tables only.
LEMMA TablesMove ==
  ASSUME IInv, cache' \in Cache, TablesSound(cache'), FlightsSound(cache', flight, request),
         notified' \in SUBSET Users, UNCHANGED <<revision, flight, request>>
  PROVE  IInv'
<1> USE DEF IInv
<1>1. TypeOK'
  BY DEF TypeOK, TablesSound
<1>2. FlightsCurrent' /\ OneComputationPerKey' /\ AnswersAreCurrent' /\ RequestsSound'
  BY DEF FlightsCurrent, OneComputationPerKey, AnswersAreCurrent, NoStaleAnswer,
     NothingFromBeforeEviction, RequestsSound
<1>3. FlightsSound(cache, flight, request)' /\ TablesSound(cache)'
  OBVIOUS
<1> QED BY <1>1, <1>2, <1>3

\* An eviction, whenever it comes, leaves sound tables.
LEMMA EvictKeeps ==
  ASSUME IInv, NEW u \in Users, Evict(u)
  PROVE  IInv'
<1> USE DEF IInv
<1>1. /\ cache' = Invalidated(cache, u) /\ notified' \in SUBSET Users
      /\ UNCHANGED <<revision, flight, request>>
      /\ cache \in Cache /\ flight \in [Requests -> Flight] /\ request \in [Requests -> Request]
  BY DEF Evict, TypeOK
<1>2. cache' \in Cache /\ TablesSound(cache') /\ FlightsSound(cache', flight, request)
  BY <1>1, InvalidatedIs, InvalidatedTables, InvalidatedFlights
<1> QED BY <1>1, <1>2, TablesMove

\* Expired entries leave with their place in the index.
LEMMA PurgeKeeps ==
  ASSUME IInv, PurgeExpired
  PROVE  IInv'
<1> USE DEF IInv
<1>1. /\ \E dead : cache' = Removed(cache, dead)
      /\ UNCHANGED <<database, flight, request>>
      /\ cache \in Cache /\ notified \in SUBSET Users
  BY DEF PurgeExpired, TypeOK
<1>2. cache' \in Cache /\ TablesSound(cache') /\ FlightsSound(cache', flight, request)
  BY <1>1, RemovedIs, RemovedTables, RemovedFlights
<1> QED BY <1>1, <1>2, TablesMove DEF database

\* Time shortens the lives of entries and changes nothing else of them.
LEMMA SoonerIs ==
  ASSUME NEW x \in Entry
  PROVE  /\ Sooner(x) \in Entry /\ Sooner(x).key = x.key /\ Sooner(x).version = x.version
         /\ Sooner(x).epoch = x.epoch /\ Sooner(x).left <= x.left
BY CacheAssumption DEF Sooner, Entry

\* Time shortens lives and nothing else.
LEMMA TickKeeps ==
  ASSUME IInv, Tick
  PROVE  IInv'
<1> USE DEF IInv
<1> DEFINE later == {Sooner(x) : x \in cache.lru}
<1>1. /\ cache' = [cache EXCEPT !.lru = later] /\ cache \in Cache /\ cache.lru \subseteq Entry
      /\ UNCHANGED <<database, flight, request>> /\ notified \in SUBSET Users
  BY DEF Tick, TypeOK, Cache
<1>2. \A y \in later : \E x \in cache.lru :
        y \in Entry /\ y = Sooner(x) /\ y.key = x.key /\ y.version = x.version /\ y.epoch = x.epoch
  BY <1>1, SoonerIs
<1>3. IsFiniteSet(later) /\ Cardinality(later) <= Cardinality(cache.lru)
  <2> DEFINE s == [x \in cache.lru |-> Sooner(x)]
  <2>1. s \in Surjection(cache.lru, later)
    BY DEF Surjection
  <2> QED BY <2>1, FS_Surjection DEF TablesSound
<1>4. Cardinality(later) \in Nat /\ Cardinality(cache.lru) \in Nat
  BY <1>3, FS_CardinalityType DEF TablesSound
<1>5. Held([cache EXCEPT !.lru = later]) = Held(cache)
  <2>1. \A x \in cache.lru : Sooner(x) \in later /\ Sooner(x).key = x.key
    BY <1>1, SoonerIs
  <2>2. {y.key : y \in later} = {x.key : x \in cache.lru}
    BY <1>2, <2>1
  <2> HIDE DEF later
  <2> QED BY <1>1, <2>2 DEF Held, Cache
<1> HIDE DEF later
<1>6. /\ cache' \in Cache /\ cache'.lru = later /\ cache'.userKeys = cache.userKeys
      /\ cache'.epoch = cache.epoch /\ cache'.inFlight = cache.inFlight
      /\ Held(cache') = Held(cache)
  BY <1>1, <1>2, <1>5 DEF Cache
<1>7. \A x, y \in later : x.key = y.key => x = y
  BY <1>2 DEF TablesSound
<1>8. \A x \in later : x.epoch = cache.epoch[x.key.user] /\ x.version >= x.key.revision
  BY <1>2 DEF TablesSound
<1>9. TablesSound(cache')
  BY <1>3, <1>4, <1>6, <1>7, <1>8, CacheAssumption DEF TablesSound
<1>10. FlightsSound(cache', flight, request)
  BY <1>2, <1>6 DEF FlightsSound
<1> QED BY <1>1, <1>6, <1>9, <1>10, TablesMove DEF database

\* A request that has not asked has no flight, so its key is free to change.
LEMMA ArriveKeeps ==
  ASSUME IInv, NEW r \in Requests, Arrive(r)
  PROVE  IInv'
<1> USE DEF IInv
<1> DEFINE u == Asks[r].user
           k == [user |-> u, route |-> Asks[r].route, revision |-> revision[u]]
           q == [request[r] EXCEPT !.at = "looking", !.key = k, !.floor = revision[u]]
<1>1. /\ request[r].at = "new" /\ UNCHANGED <<revision, notified, cache, flight>>
      /\ request' = [request EXCEPT ![r] = q]
      /\ cache \in Cache /\ request \in [Requests -> Request]
  BY DEF Arrive, RevisionRead, database, TypeOK
<1>2. k \in Keys /\ k.user = u /\ k.revision = revision[u] /\ u \in Users /\ revision[u] \in Revisions
  BY CacheAssumption DEF TypeOK, Keys
<1> HIDE DEF u, k
<1>3. /\ q \in Request /\ q.at = "looking" /\ q.key = k /\ q.floor = revision[u]
      /\ q.of = request[r].of
  BY <1>1, <1>2 DEF Request
<1> HIDE DEF q
<1>4. /\ request' \in [Requests -> Request] /\ request'[r] = q
      /\ \A p \in Requests : p # r => request'[p] = request[p]
  BY <1>1, <1>3
<1>5. flight[r].at = "none"
  BY <1>1 DEF FlightsCurrent
<1>6. TypeOK'
  BY <1>1, <1>4 DEF TypeOK
<1>7. FlightsSound(cache, flight, request)'
  <2>1. \A f \in Requests : flight[f].at # "none" => request'[f].key = request[f].key
    BY <1>4, <1>5
  <2> QED BY <1>1, <2>1, FlightsFollowKeys
<1>8. FlightsCurrent'
  BY <1>1, <1>4, <1>5 DEF FlightsCurrent
<1>9. RequestsSound'
  <2>1. q.key.revision = q.floor /\ q.key.revision <= revision[q.key.user] /\ q.at # "waiting"
    BY <1>2, <1>3, CacheAssumption DEF Revisions
  <2>2. \A p \in Requests : request[p].of \in Requests
    BY <1>1 DEF Request
  <2>3. \A p \in Requests : request[p].at = "waiting" => request[p].of # r
    BY <1>5, <2>2 DEF RequestsSound
  <2>4. q.of = r
    BY <1>1, <1>3 DEF RequestsSound
  <2>5. \A p \in Requests : p # r /\ request[p].at = "waiting" =>
          request'[request[p].of].key = request[request[p].of].key
    BY <1>4, <2>2, <2>3
  <2> QED BY <1>1, <1>3, <1>4, <2>1, <2>4, <2>5 DEF RequestsSound
<1>10. OneComputationPerKey'
  BY <1>1, <1>4, <1>5 DEF OneComputationPerKey
<1>11. AnswersAreCurrent'
  BY <1>3, <1>4 DEF AnswersAreCurrent, NoStaleAnswer, NothingFromBeforeEviction
<1> QED BY <1>1, <1>6, <1>7, <1>8, <1>9, <1>10, <1>11

\* An entry is of the present epoch and no older than the key it is found by.
LEMMA HitKeeps ==
  ASSUME IInv, NEW r \in Requests, Hit(r)
  PROVE  IInv'
<1> USE DEF IInv
<1> DEFINE k == request[r].key
           c == Observed(cache, k)
<1>1. /\ request[r].at = "looking" /\ UNCHANGED <<revision, notified, flight>>
      /\ cache \in Cache /\ request \in [Requests -> Request]
      /\ flight \in [Requests -> Flight] /\ notified \in SUBSET Users
  BY DEF Hit, TypeOK, database
<1>2. k \in Keys /\ request[r] \in Request
  BY <1>1 DEF Request
<1>3. c \in Cache /\ TablesSound(c) /\ FlightsSound(c, flight, request)
  BY <1>1, <1>2, ObservedKeeps
<1>4. PICK x \in Live(c, k) :
        /\ cache' = Touched(c, x)
        /\ request' = [Answer(r, x.version, x.epoch) EXCEPT ![r].asked = c.epoch[k.user]]
  BY DEF Hit
<1> HIDE DEF c
<1>5. x \in c.lru /\ x.key = k /\ x \in Entry
  BY <1>3, <1>4 DEF Live, EntriesOf, Cache
<1> DEFINE q == [request[r] EXCEPT !.at = "answered", !.answer = x.version, !.source = x.epoch,
                                   !.asked = c.epoch[k.user]]
<1>6. request' = [request EXCEPT ![r] = q]
  BY <1>1, <1>4 DEF Answer
<1>7. q \in Request /\ q.at = "answered" /\ q.key = k /\ q.floor = request[r].floor
      /\ q.answer = x.version /\ q.source = x.epoch /\ q.asked = c.epoch[k.user]
  BY <1>2, <1>3, <1>5, KeyTypes DEF Request, Entry, Cache
<1>8. x.version >= k.revision /\ x.epoch = c.epoch[k.user] /\ x.epoch \in Nat
  BY <1>3, <1>5, KeyTypes DEF TablesSound
<1> HIDE DEF q
<1>9. /\ request' \in [Requests -> Request] /\ request'[r] = q
      /\ \A p \in Requests : p # r => request'[p] = request[p]
  BY <1>1, <1>6, <1>7
<1>10. \A p \in Requests : request'[p].key = request[p].key
  BY <1>7, <1>9
<1>11. /\ cache' \in Cache /\ TablesSound(cache') /\ FlightsSound(cache', flight, request)
  <2>1. /\ cache' \in Cache /\ cache'.lru = c.lru /\ cache'.userKeys = c.userKeys
        /\ cache'.epoch = c.epoch /\ cache'.inFlight = c.inFlight
    BY <1>2, <1>3, <1>4, <1>5, UsedLastIs DEF Touched
  <2>2. TablesSound(cache')
    BY <1>3, <2>1 DEF TablesSound, Held
  <2>3. FlightsSound(cache', flight, request)
    BY <1>3, <2>1 DEF FlightsSound
  <2> QED BY <2>1, <2>2, <2>3
<1>12. FlightsSound(cache, flight, request)'
  BY <1>1, <1>10, <1>11, FlightsFollowKeys
<1>13. TypeOK'
  BY <1>1, <1>9, <1>11 DEF TypeOK, TablesSound
<1>14. FlightsCurrent'
  BY <1>1, <1>7, <1>9, <1>10 DEF FlightsCurrent
<1>15. RequestsSound'
  <2>1. \A p \in Requests : request[p].of \in Requests
    BY <1>1 DEF Request
  <2> QED BY <1>1, <1>7, <1>9, <1>10, <2>1 DEF RequestsSound
<1>16. OneComputationPerKey'
  BY <1>1, <1>10 DEF OneComputationPerKey
<1>17. AnswersAreCurrent'
  <2>1. q.answer >= q.floor /\ q.source >= q.asked
    BY <1>1, <1>7, <1>8 DEF RequestsSound
  <2> QED BY <1>9, <2>1 DEF AnswersAreCurrent, NoStaleAnswer, NothingFromBeforeEviction
<1> QED BY <1>11, <1>12, <1>13, <1>14, <1>15, <1>16, <1>17

\* A request that misses joins the flight of its key, which is of this epoch, or
\* starts the only one.
LEMMA MissKeeps ==
  ASSUME IInv, NEW r \in Requests, Miss(r)
  PROVE  IInv'
<1> USE DEF IInv
<1> DEFINE k == request[r].key
           o == Observed(cache, k)
           c == Removed(o, {k})
           now == c.epoch[k.user]
<1>1. /\ request[r].at = "looking" /\ UNCHANGED <<revision, notified>>
      /\ cache \in Cache /\ request \in [Requests -> Request]
      /\ flight \in [Requests -> Flight] /\ notified \in SUBSET Users
  BY DEF Miss, TypeOK, database
<1>2. k \in Keys /\ request[r] \in Request /\ k.user \in Users
  BY <1>1, KeyTypes DEF Request
<1>3. o \in Cache /\ TablesSound(o) /\ FlightsSound(o, flight, request)
  BY <1>1, <1>2, ObservedKeeps
<1>4. \/ \E f \in c.inFlight[k] :
           /\ cache' = c
           /\ request' = [request EXCEPT ![r].at = "waiting", ![r].asked = now, ![r].of = f]
           /\ UNCHANGED flight
      \/ /\ c.inFlight[k] = {}
         /\ cache' = [c EXCEPT !.inFlight[k] = {r}]
         /\ flight' = [flight EXCEPT ![r].at = "querying", ![r].epoch = now]
         /\ request' = [request EXCEPT ![r].at = "waiting", ![r].asked = now]
  BY DEF Miss, Joins
<1> HIDE DEF o
<1>5. /\ c \in Cache /\ TablesSound(c) /\ FlightsSound(c, flight, request)
      /\ \A x \in c.lru : x.key # k
  <2>1. \A x \in c.lru : x.key # k
    BY <1>3, RemovedIs
  <2> QED BY <1>3, <2>1, RemovedIs, RemovedTables, RemovedFlights
<1> HIDE DEF c
<1>6. now \in Nat /\ c.inFlight[k] \subseteq Requests
  BY <1>2, <1>5 DEF Cache
<1>7. flight[r].at = "none" /\ request[r].of = r
  BY <1>1 DEF FlightsCurrent, RequestsSound
<1>8. \A p \in Requests : request[p].at = "waiting" => request[p].of # r /\ p # r
  BY <1>1, <1>7 DEF RequestsSound
<1>9. ASSUME NEW f \in c.inFlight[k], cache' = c, UNCHANGED flight,
             request' = [request EXCEPT ![r].at = "waiting", ![r].asked = now, ![r].of = f]
      PROVE  IInv'
  <2> DEFINE q == [request[r] EXCEPT !.at = "waiting", !.asked = now, !.of = f]
  <2>1. /\ request' = [request EXCEPT ![r] = q] /\ q \in Request /\ q.at = "waiting" /\ q.key = k
        /\ q.asked = now /\ q.of = f /\ q.floor = request[r].floor
    BY <1>1, <1>2, <1>6, <1>9 DEF Request
  <2> HIDE DEF q
  <2>2. /\ request' \in [Requests -> Request] /\ request'[r] = q
        /\ \A p \in Requests : p # r => request'[p] = request[p]
    BY <1>1, <2>1
  <2>3. \A p \in Requests : request'[p].key = request[p].key
    BY <2>1, <2>2
  <2>4. f \in Requests /\ flight[f].at # "none" /\ request[f].key = k /\ flight[f].epoch = now
    BY <1>2, <1>5, <1>6 DEF FlightsSound
  <2>5. TypeOK'
    BY <1>1, <1>5, <1>9, <2>2 DEF TypeOK, TablesSound
  <2>6. TablesSound(cache)' /\ FlightsSound(cache, flight, request)'
    BY <1>5, <1>9, <2>3, FlightsFollowKeys
  <2>7. FlightsCurrent'
    BY <1>9, <2>1, <2>2, <2>3 DEF FlightsCurrent
  <2>8. RequestsSound'
    <3>1. \A p \in Requests : request[p].of \in Requests
      BY <1>1 DEF Request
    <3>2. flight[f].epoch >= now
      BY <1>6, <2>4
    <3>3. /\ q.floor = q.key.revision /\ q.key.revision <= revision[q.key.user]
      BY <1>1, <2>1 DEF RequestsSound
    <3>4. /\ flight[q.of].at # "none" /\ request'[q.of].key = q.key /\ flight[q.of].epoch >= q.asked
      BY <2>1, <2>3, <2>4, <3>2
    <3>5. \A p \in Requests : p # r /\ request[p].at = "waiting" =>
            /\ flight[request[p].of].at # "none"
            /\ request'[request[p].of].key = request[p].key
            /\ flight[request[p].of].epoch >= request[p].asked
      BY <2>3, <3>1 DEF RequestsSound
    <3>6. q.at = "waiting"
      BY <2>1
    <3> QED BY <1>1, <1>9, <2>2, <3>3, <3>4, <3>5, <3>6 DEF RequestsSound
  <2>9. OneComputationPerKey'
    BY <1>9, <2>3 DEF OneComputationPerKey
  <2>10. AnswersAreCurrent'
    BY <2>1, <2>2 DEF AnswersAreCurrent, NoStaleAnswer, NothingFromBeforeEviction
  <2> QED BY <2>5, <2>6, <2>7, <2>8, <2>9, <2>10
<1>10. ASSUME c.inFlight[k] = {}, cache' = [c EXCEPT !.inFlight[k] = {r}],
              flight' = [flight EXCEPT ![r].at = "querying", ![r].epoch = now],
              request' = [request EXCEPT ![r].at = "waiting", ![r].asked = now]
       PROVE  IInv'
  <2> DEFINE q == [request[r] EXCEPT !.at = "waiting", !.asked = now]
             f == [flight[r] EXCEPT !.at = "querying", !.epoch = now]
  <2>1. /\ request' = [request EXCEPT ![r] = q] /\ q \in Request /\ q.at = "waiting" /\ q.key = k
        /\ q.asked = now /\ q.of = r /\ q.floor = request[r].floor
    BY <1>1, <1>2, <1>6, <1>7, <1>10 DEF Request
  <2>2. /\ flight' = [flight EXCEPT ![r] = f] /\ f \in Flight /\ f.at = "querying" /\ f.epoch = now
    BY <1>1, <1>6, <1>10 DEF Flight
  <2> HIDE DEF q, f
  <2>3. /\ request' \in [Requests -> Request] /\ request'[r] = q
        /\ \A p \in Requests : p # r => request'[p] = request[p]
    BY <1>1, <2>1
  <2>4. /\ flight' \in [Requests -> Flight] /\ flight'[r] = f
        /\ \A p \in Requests : p # r => flight'[p] = flight[p]
    BY <1>1, <2>2
  <2>5. \A p \in Requests : request'[p].key = request[p].key
    BY <2>1, <2>3
  <2>6. /\ cache' \in Cache /\ cache'.lru = c.lru /\ cache'.userKeys = c.userKeys
        /\ cache'.epoch = c.epoch /\ FlightsSound(cache', flight', request)
    <3>1. /\ flight'[r].at = "querying" /\ flight'[r].epoch = c.epoch[k.user]
          /\ request[r].key = k
      BY <2>2, <2>4
    <3>2. c.inFlight[k] = {} /\ cache' = [c EXCEPT !.inFlight[k] = {r}]
      BY <1>10
    <3> HIDE DEF k
    <3> QED BY <1>1, <1>2, <1>5, <1>7, <2>4, <3>1, <3>2, FlightStarts
  <2>7. TablesSound(cache)'
    BY <1>5, <2>6 DEF TablesSound, Held
  <2>8. TypeOK'
    BY <1>1, <2>3, <2>4, <2>6, <2>7 DEF TypeOK, TablesSound
  <2>9. FlightsSound(cache, flight, request)'
    BY <2>5, <2>6, FlightsFollowKeys
  <2>10. FlightsCurrent'
    BY <2>1, <2>2, <2>3, <2>4, <2>5 DEF FlightsCurrent
  <2>11. RequestsSound'
    <3>1. \A p \in Requests : request[p].of \in Requests
      BY <1>1 DEF Request
    <3>2. f.epoch >= now
      BY <1>6, <2>2
    <3> QED BY <1>1, <1>8, <2>1, <2>2, <2>3, <2>4, <2>5, <3>1, <3>2 DEF RequestsSound
  <2>12. OneComputationPerKey'
    <3>1. ASSUME NEW p \in Requests, p # r, flight[p].at \in Running, request[p].key = k
          PROVE  flight[p].epoch # now
      BY <1>5, <1>10, <3>1 DEF FlightsSound
    <3> QED BY <2>2, <2>4, <2>5, <3>1 DEF OneComputationPerKey, Running
  <2>13. AnswersAreCurrent'
    BY <2>1, <2>3 DEF AnswersAreCurrent, NoStaleAnswer, NothingFromBeforeEviction
  <2> QED BY <2>7, <2>8, <2>9, <2>10, <2>11, <2>12, <2>13
<1> QED BY <1>4, <1>9, <1>10

\* A flight that moves on keeps its epoch, and those who wait for it.
LEMMA FlightMoves ==
  ASSUME IInv, NEW r \in Requests, flight[r].at \in Running, NEW f \in Flight,
         f.at # "none", f.epoch = flight[r].epoch,
         f.at \in {"computed", "resolved"} => f.version >= request[r].key.revision,
         flight' = [flight EXCEPT ![r] = f], UNCHANGED <<revision, notified, request>>,
         cache' \in Cache, TablesSound(cache'), FlightsSound(cache', flight', request)
  PROVE  IInv'
<1> USE DEF IInv
<1>1. /\ flight' \in [Requests -> Flight] /\ flight'[r] = f
      /\ \A p \in Requests : p # r => flight'[p] = flight[p]
  BY DEF TypeOK
<1>2. flight[r].at # "none"
  BY DEF Running
<1>3. /\ \A p \in Requests : flight'[p].epoch = flight[p].epoch
      /\ \A p \in Requests : flight'[p].at \in Running => flight[p].at \in Running
      /\ \A p \in Requests : (flight'[p].at # "none") = (flight[p].at # "none")
  BY <1>1, <1>2
<1>4. TypeOK'
  BY <1>1 DEF TypeOK, TablesSound
<1>5. FlightsCurrent'
  BY <1>1, <1>2 DEF FlightsCurrent
<1>6. RequestsSound'
  <2>1. \A p \in Requests : request[p].of \in Requests
    BY DEF TypeOK, Request
  <2> QED BY <1>3, <2>1 DEF RequestsSound
<1>7. OneComputationPerKey'
  BY <1>3 DEF OneComputationPerKey, Running
<1>8. AnswersAreCurrent'
  BY DEF AnswersAreCurrent, NoStaleAnswer, NothingFromBeforeEviction
<1>9. TablesSound(cache)' /\ FlightsSound(cache, flight, request)'
  OBVIOUS
<1> QED BY <1>4, <1>5, <1>6, <1>7, <1>8, <1>9

\* The revision the request read is at most the one the computation reads.
LEMMA QueryKeeps ==
  ASSUME IInv, NEW r \in Requests, Query(r) \/ QueryFails(r)
  PROVE  IInv'
<1> USE DEF IInv
<1>1. /\ flight[r].at \in Running /\ flight[r].at # "none" /\ flight[r] \in Flight
      /\ UNCHANGED <<revision, notified, cache, request>>
      /\ cache \in Cache /\ flight \in [Requests -> Flight] /\ request \in [Requests -> Request]
  BY DEF Query, QueryFails, TypeOK, Running, database
<1>2. PICK f \in Flight :
        /\ flight' = [flight EXCEPT ![r] = f] /\ f.at # "none" /\ f.epoch = flight[r].epoch
        /\ f.at \in {"computed", "resolved"} => f.version >= request[r].key.revision
  <2>1. CASE Query(r)
    <3> DEFINE seen == revision[request[r].key.user]
               f == [flight[r] EXCEPT !.at = "computed", !.version = seen]
    <3>1. seen \in Revisions /\ seen >= request[r].key.revision
      <4>1. request[r].key \in Keys
        BY <1>1 DEF Request
      <4>2. request[r].key.revision <= seen
        BY <1>1 DEF FlightsCurrent, RequestsSound
      <4> QED BY <4>1, <4>2, KeyTypes DEF TypeOK, Keys, Revisions
    <3>2. flight' = [flight EXCEPT ![r] = f]
      BY <1>1, <2>1 DEF Query
    <3> HIDE DEF seen
    <3>3. f \in Flight /\ f.at = "computed" /\ f.version = seen /\ f.epoch = flight[r].epoch
      BY <1>1, <3>1 DEF Flight
    <3> QED BY <3>1, <3>2, <3>3
  <2>2. CASE QueryFails(r)
    <3> DEFINE f == [flight[r] EXCEPT !.at = "rejected"]
    <3>1. f \in Flight /\ f.at = "rejected" /\ f.epoch = flight[r].epoch
      BY <1>1 DEF Flight
    <3>2. flight' = [flight EXCEPT ![r] = f]
      BY <1>1, <2>2 DEF QueryFails
    <3> QED BY <3>1, <3>2
  <2> QED BY <2>1, <2>2
<1>3. FlightsSound(cache', flight', request)
  <2>1. /\ flight'[r] = f /\ \A p \in Requests : p # r => flight'[p] = flight[p]
    BY <1>1, <1>2
  <2> QED BY <1>1, <1>2, <2>1, FlightsMoveOn
<1> QED BY <1>1, <1>2, <1>3, FlightMoves

\* What is stored is of the present epoch, as new as its key, and the only one of
\* its key; the evictions before it make it room.
LEMMA ResolveKeeps ==
  ASSUME IInv, NEW r \in Requests, NEW D, NEW stored \in BOOLEAN, Resolve(r, D, stored)
  PROVE  IInv'
<1> USE DEF IInv
<1> DEFINE k == request[r].key
           f == [flight[r] EXCEPT !.at = "resolved"]
<1>1. /\ flight[r].at = "computed" /\ flight[r] \in Flight /\ flight[r].at \in Running
      /\ flight' = [flight EXCEPT ![r].at = "resolved"]
      /\ cache' = IF stored THEN Stored(cache, k, flight[r], D) ELSE cache
      /\ Cardinality(Without(cache, D).lru) < Capacity
      /\ UNCHANGED <<revision, notified, request>>
      /\ cache \in Cache /\ flight \in [Requests -> Flight] /\ request \in [Requests -> Request]
  BY DEF Resolve, RoomAfter, TypeOK, Running, database
<1>2. /\ f \in Flight /\ f.at = "resolved" /\ f.epoch = flight[r].epoch /\ f.version = flight[r].version
      /\ flight' = [flight EXCEPT ![r] = f]
  BY <1>1 DEF Flight
<1>3. k \in Keys /\ flight[r].version >= k.revision
  BY <1>1 DEF Request, FlightsCurrent
<1> HIDE DEF f
<1>4. /\ flight' \in [Requests -> Flight] /\ flight'[r] = f
      /\ \A p \in Requests : p # r => flight'[p] = flight[p]
  BY <1>1, <1>2
<1>5. cache' \in Cache /\ TablesSound(cache') /\ FlightsSound(cache', flight', request)
  <2>1. CASE cache' = cache
    <3>1. /\ flight'[r].at # "none" /\ flight'[r].epoch = flight[r].epoch
          /\ flight[r].at \in Running /\ cache \in Cache
      BY <1>1, <1>2, <1>4
    <3>2. FlightsSound(cache, flight', request)
      BY <1>4, <3>1, FlightsMoveOn
    <3> QED BY <1>1, <2>1, <3>2
  <2>2. CASE flight[r].epoch = cache.epoch[k.user] /\ cache' = Stored(cache, k, flight[r], D)
    <3>1. \A x \in cache.lru : x.key # k
      BY <1>1, <2>2 DEF FlightsSound
    <3>2. FlightsSound(Stored(cache, k, flight[r], D), flight', request)
      <4>1. /\ flight[r].at \in Running /\ flight[r].epoch = cache.epoch[request[r].key.user]
            /\ cache \in Cache /\ flight \in [Requests -> Flight]
            /\ request \in [Requests -> Request] /\ flight' \in [Requests -> Flight]
            /\ flight' = [flight EXCEPT ![r].at = "resolved"]
        BY <1>1, <1>4, <2>2
      <4> QED BY <4>1, StoredFlights
    <3> HIDE DEF k
    <3>3. TablesSound(cache')
      BY <1>1, <1>3, <2>2, <3>1, StoredTables
    <3>4. cache' \in Cache
      <4>1. cache \in Cache /\ flight[r] \in Flight /\ flight[r].epoch = cache.epoch[k.user]
        BY <1>1, <2>2
      <4>2. Stored(cache, k, flight[r], D) \in Cache
        BY <1>3, <4>1, StoredBrings
      <4> QED BY <2>2, <4>2
    <3> QED BY <2>2, <3>2, <3>3, <3>4
  <2>3. flight[r].epoch # cache.epoch[k.user] => cache' = cache
    BY <1>1 DEF Stored
  <2> QED BY <1>1, <2>1, <2>2, <2>3
<1>6. f.at # "none" /\ (f.at \in {"computed", "resolved"} => f.version >= request[r].key.revision)
  BY <1>2, <1>3
<1> QED BY <1>1, <1>2, <1>5, <1>6, FlightMoves

\* A flight that ended has an answer no older than whoever waits for it expects.
LEMMA DeliverKeeps ==
  ASSUME IInv, NEW r \in Requests, Deliver(r)
  PROVE  IInv'
<1> USE DEF IInv
<1> DEFINE k == request[r].key
           g == request[r].of
           w == flight[g]
           inFlight == [cache.inFlight EXCEPT ![k] = cache.inFlight[k] \ {g}]
<1>1. /\ request[r].at = "waiting" /\ w.at \in {"resolved", "rejected"}
      /\ UNCHANGED <<revision, notified, flight>>
      /\ cache \in Cache /\ flight \in [Requests -> Flight] /\ request \in [Requests -> Request]
      /\ cache' = [cache EXCEPT !.inFlight[k] = @ \ {g}]
      /\ request' = IF w.at = "resolved" THEN Answer(r, w.version, w.epoch)
                    ELSE [request EXCEPT ![r].at = "refused"]
  BY DEF Deliver, TypeOK, database
<1>2. /\ request[r] \in Request /\ k \in Keys /\ g \in Requests /\ w \in Flight
  BY <1>1 DEF Request
<1>3. /\ inFlight \in [Keys -> SUBSET Requests]
      /\ \A j \in Keys : inFlight[j] = IF j = k THEN cache.inFlight[j] \ {g} ELSE cache.inFlight[j]
  BY <1>1, <1>2 DEF Cache
<1>4. cache' = [cache EXCEPT !.inFlight = inFlight]
  BY <1>1, <1>2 DEF Cache
<1> HIDE DEF inFlight
<1>5. /\ cache' \in Cache /\ cache'.lru = cache.lru /\ cache'.userKeys = cache.userKeys
      /\ cache'.epoch = cache.epoch /\ cache'.inFlight = inFlight
  BY <1>1, <1>3, <1>4 DEF Cache
<1>6. PICK q \in Request :
        /\ request' = [request EXCEPT ![r] = q]
        /\ q.at \in {"answered", "refused"} /\ q.key = k /\ q.floor = request[r].floor
        /\ q.asked = request[r].asked
        /\ q.at = "answered" => w.at = "resolved" /\ q.answer = w.version /\ q.source = w.epoch
  <2>1. CASE w.at = "resolved"
    <3> DEFINE q == [request[r] EXCEPT !.at = "answered", !.answer = w.version, !.source = w.epoch]
    <3>1. request' = [request EXCEPT ![r] = q]
      BY <1>1, <2>1 DEF Answer
    <3>2. w.version \in Revisions /\ w.epoch \in Nat
      BY <1>2 DEF Flight
    <3> HIDE DEF w
    <3>3. /\ q \in Request /\ q.at = "answered" /\ q.key = k /\ q.floor = request[r].floor
          /\ q.asked = request[r].asked /\ q.answer = w.version /\ q.source = w.epoch
      BY <1>2, <3>2 DEF Request
    <3> HIDE DEF q
    <3> QED BY <2>1, <3>1, <3>3
  <2>2. CASE w.at = "rejected"
    <3> DEFINE q == [request[r] EXCEPT !.at = "refused"]
    <3>1. request' = [request EXCEPT ![r] = q]
      BY <1>1, <2>2
    <3>2. /\ q \in Request /\ q.at = "refused" /\ q.key = k /\ q.floor = request[r].floor
          /\ q.asked = request[r].asked
      BY <1>2 DEF Request
    <3> HIDE DEF q
    <3> QED BY <3>1, <3>2
  <2> QED BY <1>1, <2>1, <2>2
<1>7. /\ request' \in [Requests -> Request] /\ request'[r] = q
      /\ \A p \in Requests : p # r => request'[p] = request[p]
  BY <1>1, <1>6
<1>8. \A p \in Requests : request'[p].key = request[p].key
  BY <1>6, <1>7
<1>9. FlightsSound(cache, flight, request)'
  <2>1. \A f \in Requests : flight[f].at \in Running => f # g
    BY <1>1 DEF Running
  <2>2. FlightsSound(cache', flight, request)
    BY <1>3, <1>5, <2>1 DEF FlightsSound, Request, TypeOK
  <2> QED BY <1>1, <1>5, <1>8, <2>2, FlightsFollowKeys
<1>10. TablesSound(cache)'
  BY <1>5 DEF TablesSound, Held
<1>11. TypeOK'
  BY <1>1, <1>5, <1>7, <1>10 DEF TypeOK, TablesSound
<1>12. FlightsCurrent'
  BY <1>1, <1>6, <1>7, <1>8 DEF FlightsCurrent
<1>13. RequestsSound'
  <2>1. \A p \in Requests : request[p].of \in Requests
    BY <1>1 DEF Request
  <2>2. /\ q.floor = q.key.revision /\ q.key.revision <= revision[q.key.user]
        /\ q.at \notin {"new", "looking", "waiting"}
    BY <1>1, <1>6 DEF RequestsSound
  <2>3. \A p \in Requests : p # r /\ request[p].at = "waiting" =>
          /\ flight[request[p].of].at # "none"
          /\ request'[request[p].of].key = request[p].key
          /\ flight[request[p].of].epoch >= request[p].asked
    BY <1>8, <2>1 DEF RequestsSound
  <2>4. UNCHANGED <<revision, flight>>
    BY <1>1
  <2> HIDE DEF k, g, w
  <2> QED BY <1>7, <2>2, <2>3, <2>4 DEF RequestsSound
<1>14. OneComputationPerKey'
  BY <1>1, <1>8 DEF OneComputationPerKey
<1>15. AnswersAreCurrent'
  <2>1. /\ request[g].key = k /\ w.epoch >= request[r].asked /\ request[r].floor = k.revision
    BY <1>1 DEF RequestsSound
  <2>2. w.at = "resolved" => w.version >= k.revision
    BY <1>2, <2>1 DEF FlightsCurrent
  <2>3. q.at = "answered" => q.answer >= q.floor /\ q.source >= q.asked
    BY <1>6, <2>1, <2>2
  <2> QED BY <1>7, <2>3 DEF AnswersAreCurrent, NoStaleAnswer, NothingFromBeforeEviction
<1> QED BY <1>9, <1>10, <1>11, <1>12, <1>13, <1>14, <1>15
-----------------------------------------------------------------------------
(* The theorems. *)

\* An empty cache is sound.
LEMMA InitSafe == Init => IInv
<1> SUFFICES ASSUME Init
             PROVE  IInv
  OBVIOUS
<1> DEFINE empty == [lru |-> {}, older |-> {}, userKeys |-> [u \in Users |-> {}],
                     observed |-> [u \in Users |-> {}], epoch |-> [u \in Users |-> 0],
                     inFlight |-> [k \in Keys |-> {}]]
           anyKey == CHOOSE k \in Keys : TRUE
<1>1. /\ revision = [u \in Users |-> 0] /\ notified = {} /\ cache = empty
      /\ flight = [r \in Requests |-> NoFlight]
      /\ request = [r \in Requests |->
           [at |-> "new", key |-> anyKey, floor |-> 0, asked |-> 0,
            of |-> r, answer |-> 0, source |-> 0]]
  BY DEF Init
<1>2. 0 \in Revisions
  BY CacheAssumption DEF Revisions
<1>3. \A r \in Requests : anyKey \in Keys
  <2>1. TAKE r \in Requests
  <2>2. [user |-> Asks[r].user, route |-> Asks[r].route, revision |-> 0] \in Keys
    BY <1>2, CacheAssumption DEF Keys
  <2> QED BY <2>2
<1> HIDE DEF anyKey
<1>4. cache \in Cache
  BY <1>1 DEF Cache
<1>5. /\ cache.lru = {} /\ IsFiniteSet(cache.lru) /\ Cardinality(cache.lru) = 0
      /\ \A u \in Users : cache.userKeys[u] = {}
      /\ \A k \in Keys : cache.inFlight[k] = {}
  BY <1>1, FS_EmptySet
<1>6. NoFlight \in Flight /\ NoFlight.at = "none"
  BY <1>2 DEF Flight, NoFlight
<1>7. /\ flight \in [Requests -> Flight] /\ \A r \in Requests : flight[r].at = "none"
  BY <1>1, <1>6
<1>8. /\ request \in [Requests -> Request]
      /\ \A r \in Requests : request[r].at = "new" /\ request[r].of = r
  BY <1>1, <1>2, <1>3 DEF Request
<1>9. TypeOK
  <2>1. revision \in [Users -> Revisions] /\ notified \subseteq Users
    BY <1>1, <1>2
  <2> QED BY <1>4, <1>5, <1>7, <1>8, <2>1, CacheAssumption DEF TypeOK
<1>10. TablesSound(cache)
  BY <1>5, CacheAssumption DEF TablesSound, Held
<1>11. FlightsSound(cache, flight, request)
  BY <1>5, <1>7 DEF FlightsSound, Running
<1>12. FlightsCurrent /\ RequestsSound /\ OneComputationPerKey
  BY <1>7, <1>8 DEF FlightsCurrent, RequestsSound, OneComputationPerKey
<1>13. AnswersAreCurrent
  BY <1>8 DEF AnswersAreCurrent, NoStaleAnswer, NothingFromBeforeEviction
<1> QED BY <1>9, <1>10, <1>11, <1>12, <1>13 DEF IInv

\* Every step preserves the invariant.
LEMMA NextSafe == IInv /\ [Next]_vars => IInv'
<1> SUFFICES ASSUME IInv, [Next]_vars
             PROVE  IInv'
  OBVIOUS
<1>1. ASSUME NEW u \in Users, Write(u) \/ NotificationLost(u)
      PROVE  IInv'
  BY <1>1, DatabaseKeeps
<1>2. ASSUME NEW u \in Users, Evict(u)
      PROVE  IInv'
  BY <1>2, EvictKeeps
<1>3. ASSUME NEW r \in Requests, Arrive(r)
      PROVE  IInv'
  BY <1>3, ArriveKeeps
<1>4. ASSUME NEW r \in Requests, Hit(r)
      PROVE  IInv'
  BY <1>4, HitKeeps
<1>5. ASSUME NEW r \in Requests, Miss(r)
      PROVE  IInv'
  BY <1>5, MissKeeps
<1>6. ASSUME NEW r \in Requests, Query(r) \/ QueryFails(r)
      PROVE  IInv'
  BY <1>6, QueryKeeps
<1>7. ASSUME NEW r \in Requests, NEW D \in SUBSET Held(cache), NEW stored \in BOOLEAN,
             Resolve(r, D, stored)
      PROVE  IInv'
  BY <1>7, ResolveKeeps
<1>8. ASSUME NEW r \in Requests, Deliver(r)
      PROVE  IInv'
  BY <1>8, DeliverKeeps
<1>9. CASE Tick
  BY <1>9, TickKeeps
<1>10. CASE PurgeExpired
  BY <1>10, PurgeKeeps
<1>11. CASE UNCHANGED vars
  <2>1. UNCHANGED <<revision, notified, cache, flight, request>>
    BY <1>11 DEF vars, database
  <2>2. TypeOK' /\ TablesSound(cache)' /\ FlightsSound(cache, flight, request)'
    BY <2>1 DEF IInv, TypeOK
  <2>3. FlightsCurrent' /\ RequestsSound' /\ OneComputationPerKey' /\ AnswersAreCurrent'
    BY <2>1 DEF IInv, FlightsCurrent, RequestsSound, OneComputationPerKey, AnswersAreCurrent,
       NoStaleAnswer, NothingFromBeforeEviction
  <2> QED BY <2>2, <2>3 DEF IInv
<1> QED BY <1>1, <1>2, <1>3, <1>4, <1>5, <1>6, <1>7, <1>8, <1>9, <1>10, <1>11 DEF Next, Step

\* The inductive invariant holds of every instance.
THEOREM InvariantHolds == Spec => []IInv
<1>1. Init => IInv
  BY InitSafe
<1>2. IInv /\ [Next]_vars => IInv'
  BY NextSafe
<1> QED BY <1>1, <1>2, PTL DEF Spec

\* Whatever notification is lost or late, no request is given data older than the
\* revision it read, nor what was computed before an eviction it came after
\* (getOrCompute, tryStore and the then-callback of its flight).
THEOREM AnswersHold == Spec => []AnswersAreCurrent
<1>1. IInv => AnswersAreCurrent
  BY DEF IInv
<1> QED BY <1>1, InvariantHolds, PTL

\* What is in the cache after a step was there before, or is the first of its key.
LEMMA NothingLivesLonger ==
  ASSUME IInv, [Next]_vars, NEW x \in cache.lru, NEW y \in EntriesOf(cache', x.key)
  PROVE  y.left <= x.left
<1> USE DEF IInv
<1>1. /\ cache \in Cache /\ cache.lru \subseteq Entry /\ request \in [Requests -> Request]
      /\ flight \in [Requests -> Flight] /\ y \in cache'.lru /\ y.key = x.key /\ x.left \in Nat
  BY KeyTypes DEF TypeOK, Cache, EntriesOf
<1>2. \A z \in cache.lru : z.key = x.key => z = x
  BY DEF TablesSound
<1>3. SUFFICES ASSUME ~Tick
               PROVE  y \in cache.lru
  <2>1. CASE Tick
    <3>1. PICK z \in cache.lru : y = Sooner(z)
      <4>1. cache'.lru = {Sooner(z) : z \in cache.lru}
        BY <1>1, <2>1 DEF Tick, Cache
      <4> QED BY <1>1, <4>1
    <3>2. z.key = y.key /\ y.left <= z.left
      BY <1>1, <3>1, SoonerIs
    <3> QED BY <1>1, <1>2, <3>2
  <2>2. y \in cache.lru => y.left <= x.left
    BY <1>1, <1>2
  <2> QED BY <2>1, <2>2
<1>4. CASE UNCHANGED cache
  BY <1>1, <1>4
<1>5. ASSUME NEW u \in Users, Evict(u)
      PROVE  y \in cache.lru
  BY <1>1, <1>5, InvalidatedIs DEF Evict
<1>6. ASSUME NEW r \in Requests, Hit(r)
      PROVE  y \in cache.lru
  <2> DEFINE c == Observed(cache, request[r].key)
  <2>1. request[r].key \in Keys
    BY <1>1 DEF Request
  <2>2. c \in Cache /\ c.lru \subseteq cache.lru
    BY <1>1, <2>1, ObservedKeeps
  <2>3. PICK z \in Live(c, request[r].key) : cache' = Touched(c, z)
    BY <1>6 DEF Hit
  <2> HIDE DEF c
  <2>4. z.key \in Keys
    BY <2>1, <2>3 DEF Live, EntriesOf
  <2>5. cache'.lru = c.lru
    BY <2>2, <2>3, <2>4, UsedLastIs DEF Touched
  <2> QED BY <1>1, <2>2, <2>5
<1>7. ASSUME NEW r \in Requests, Miss(r)
      PROVE  y \in cache.lru
  <2> DEFINE k == request[r].key
             o == Observed(cache, k)
             c == Removed(o, {k})
  <2>1. k \in Keys
    BY <1>1 DEF Request
  <2>2. o \in Cache /\ o.lru \subseteq cache.lru
    BY <1>1, <2>1, ObservedKeeps
  <2>3. cache' = c \/ cache' = [c EXCEPT !.inFlight[k] = {r}]
    BY <1>7 DEF Miss
  <2> HIDE DEF o, k
  <2>4. c \in Cache /\ c.lru \subseteq o.lru
    BY <2>2, RemovedIs
  <2> HIDE DEF c
  <2>5. cache'.lru = c.lru
    BY <2>3, <2>4 DEF Cache
  <2> QED BY <1>1, <2>2, <2>4, <2>5
<1>8. ASSUME NEW r \in Requests, NEW D, NEW stored \in BOOLEAN, Resolve(r, D, stored)
      PROVE  y \in cache.lru
  <2> DEFINE k == request[r].key
             d == Stored(cache, k, flight[r], D)
  <2>1. k \in Keys /\ flight[r] \in Flight
    BY <1>1 DEF Request
  <2>2. flight[r].at \in Running /\ (cache' = cache \/ cache' = d)
    BY <1>8 DEF Resolve, Running
  <2>3. flight[r].epoch # cache.epoch[k.user] => d = cache
    BY DEF Stored
  <2>4. CASE flight[r].epoch = cache.epoch[k.user]
    <3>1. \A z \in cache.lru : z.key # k
      BY <2>2, <2>4 DEF FlightsSound
    <3>2. \A z \in d.lru : z \in cache.lru \/ z.key = k
      <4> HIDE DEF k
      <4> QED BY <1>1, <2>1, <2>4, StoredBrings
    <3> HIDE DEF d
    <3> QED BY <1>1, <2>2, <3>1, <3>2
  <2> HIDE DEF d
  <2> QED BY <1>1, <2>2, <2>3, <2>4
<1>9. CASE PurgeExpired
  <2>1. PICK dead : cache' = Removed(cache, dead)
    BY <1>9 DEF PurgeExpired
  <2> QED BY <1>1, <2>1, RemovedIs
<1>10. ASSUME NEW r \in Requests, Deliver(r)
       PROVE  y \in cache.lru
  <2>1. cache'.lru = cache.lru
    BY <1>1, <1>10 DEF Deliver, Cache
  <2> QED BY <1>1, <2>1
<1>11. ASSUME NEW u \in Users, Write(u) \/ NotificationLost(u)
       PROVE  y \in cache.lru
  BY <1>4, <1>11 DEF Write, NotificationLost
<1>12. ASSUME NEW r \in Requests, Arrive(r) \/ Query(r) \/ QueryFails(r)
       PROVE  y \in cache.lru
  BY <1>4, <1>12 DEF Arrive, Query, QueryFails
<1>13. CASE UNCHANGED vars
  BY <1>4, <1>13 DEF vars
<1> QED BY <1>3, <1>5, <1>6, <1>7, <1>8, <1>9, <1>10, <1>11, <1>12, <1>13 DEF Next, Step

\* Entries, index and flights agree, and no step extends the life of an entry
\* (tryStore sets the TTL once, lru.get does not renew it).
THEOREM TablesHold == Spec => TablesAgree
<1>1. IInv => TypeOK /\ EntriesAreOfThisEpoch /\ IndexIsExact /\ OneComputationPerKey
  BY DEF IInv, TablesSound, EntriesAreOfThisEpoch, IndexIsExact
<1>2. IInv /\ [Next]_vars => \A x \in cache.lru : \A y \in EntriesOf(cache', x.key) : y.left <= x.left
  BY NothingLivesLonger
<1> QED BY <1>1, <1>2, InvariantHolds, PTL DEF TablesAgree, TtlIsAbsolute, Spec
=============================================================================
