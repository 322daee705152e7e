-------------------------- MODULE ManualLedgerProofs --------------------------
(***************************************************************************)
(* LedgerIsExact holds of every instance of ManualLedger: any accounts,    *)
(* amounts, keys and number of requests at once.                           *)
(*                                                                         *)
(* First what a sum over a finite set is, which nothing in the libraries   *)
(* says.  Then the requests: what a request has locked follows from how    *)
(* far it is, nobody else has it locked, and what a request relies on at   *)
(* its commit (the key is free, the transaction is not deleted, all        *)
(* accounts are locked) was so when it took the lock.  From these follow   *)
(* the keys, the order of the locks, and that a commit moves exactly one   *)
(* summand.                                                                *)
(***************************************************************************)
EXTENDS ManualLedger, FiniteSetTheorems, SequenceTheorems, WellFoundedInduction, TLAPS

Pick(s) == CHOOSE x \in s : TRUE

\* One step of a sum, the rest of which is known.
SumStep(f, g, s) == IF s = {} THEN 0 ELSE f[Pick(s)] + g[s \ {Pick(s)}]

\* g is the sum over the subsets of S.
Sums(f, S, g) == g = [s \in SUBSET S |-> SumStep(f, g, s)]

\* The element that leaves a sum first is one of its set.
LEMMA PickIs == ASSUME NEW s, s # {} PROVE Pick(s) \in s
BY DEF Pick

\* What the sum over a set is defined by.
LEMMA SumIs ==
  ASSUME NEW f, NEW S, NEW h, Sums(f, S, h)
  PROVE  \E g : Sums(f, S, g) /\ SumFunctionOnSet(f, S) = g[S]
BY DEF Sums, SumStep, SumFunctionOnSet, FoldFunctionOnSet, MapThenFoldSet, Pick

\* A set of natural numbers has a least one.
LEMMA LeastIs ==
  ASSUME NEW S \in SUBSET Nat, S # {}
  PROVE  \E x \in S : \A y \in S : x <= y
<1> DEFINE R == {ss \in Nat \X Nat : ss[1] < ss[2]}
<1>1. IsWellFoundedOn(R, Nat)
  BY ONLY NatLessThanWellFounded DEF OpToRel
<1>2. \E x \in S : \A y \in S : ~(<<y, x>> \in R)
  <2> HIDE DEF R
  <2> QED BY <1>1, WFMin
<1>3. PICK x \in S : \A y \in S : ~(<<y, x>> \in R)
  BY <1>2
<1>4. \A y \in S : x <= y
  <2> TAKE y \in S
  <2>1. y < x => <<y, x>> \in R
    BY Zenon
  <2> QED BY <1>3, <2>1
<1> QED BY <1>4

\* The subsets of a finite set by size: what is so of a set when it is so of
\* the set without its picked element is so of all.  Good are the sets of which it is so.
LEMMA BySize ==
  ASSUME NEW S, IsFiniteSet(S), NEW Good,
         {} \in Good,
         \A s \in SUBSET S : (\A x \in s : s \ {x} \in Good) => s \in Good
  PROVE  SUBSET S \subseteq Good
<1> DEFINE Bad == {n \in Nat : \E s \in SUBSET S : s \notin Good /\ Cardinality(s) = n}
<1> SUFFICES ASSUME NEW r \in SUBSET S, r \notin Good PROVE FALSE
  OBVIOUS
<1>1. \A s \in SUBSET S : IsFiniteSet(s) /\ Cardinality(s) \in Nat
  BY FS_Subset, FS_CardinalityType
<1>2. Bad \in SUBSET Nat /\ Bad # {}
  BY <1>1
<1>3. PICK n \in Bad : \A m \in Bad : n <= m
  <2> HIDE DEF Bad
  <2> QED BY <1>2, LeastIs
<1>4. PICK s \in SUBSET S : s \notin Good /\ Cardinality(s) = n
  BY <1>3
<1>5. ASSUME NEW x \in s
      PROVE  s \ {x} \in Good
  <2>1. s \ {x} \in SUBSET S /\ Cardinality(s \ {x}) = n - 1 /\ n \in Nat /\ n - 1 \in Nat
    <3>1. s \ {x} \in SUBSET S /\ Cardinality(s \ {x}) = Cardinality(s) - 1
      BY <1>1, FS_RemoveElement
    <3>2. Cardinality(s \ {x}) \in Nat /\ Cardinality(s) = n /\ n \in Nat
      BY <1>1, <1>4, <3>1
    <3> QED BY <3>1, <3>2
  <2>2. s \ {x} \notin Good => n - 1 \in Bad
    BY <2>1
  <2> HIDE DEF Bad
  <2> QED BY <1>3, <2>1, <2>2
<1> QED BY <1>4, <1>5

\* The recursion of the sum has a solution.
LEMMA SumExists ==
  ASSUME NEW f, NEW S, IsFiniteSet(S)
  PROVE  \E g : Sums(f, S, g)
<1> DEFINE Upto(n, g) == \A s \in SUBSET S : Cardinality(s) <= n => g[s] = SumStep(f, g, s)
           Bad == {n \in Nat : ~\E g : Upto(n, g)}
<1>1. \A s \in SUBSET S : IsFiniteSet(s) /\ Cardinality(s) \in Nat
  BY FS_Subset, FS_CardinalityType
<1>2. ASSUME Bad # {} PROVE FALSE
  <2>1. PICK n \in Bad : \A m \in Bad : n <= m
    <3>1. Bad \in SUBSET Nat
      OBVIOUS
    <3> HIDE DEF Bad
    <3> QED BY <1>2, <3>1, LeastIs
  <2>2. n # 0
    <3> DEFINE zero == [s \in SUBSET S |-> 0]
    <3>1. \A s \in SUBSET S : Cardinality(s) <= 0 => s = {}
      BY <1>1, FS_EmptySet
    <3>2. Upto(0, zero)
      BY <3>1 DEF SumStep
    <3> HIDE DEF Upto
    <3> QED BY <2>1, <3>2
  <2>3. PICK g : Upto(n - 1, g)
    <3>1. n - 1 \in Nat /\ n - 1 \notin Bad
      <4>1. n \in Nat
        OBVIOUS
      <4> HIDE DEF Bad
      <4> QED BY <2>1, <2>2, <4>1
    <3> HIDE DEF Upto
    <3> QED BY <3>1
  <2> DEFINE h == [s \in SUBSET S |-> IF Cardinality(s) <= n - 1 THEN g[s] ELSE SumStep(f, g, s)]
  <2>4. n \in Nat
    OBVIOUS
  <2>5. ASSUME NEW s \in SUBSET S, Cardinality(s) <= n
        PROVE  h[s] = SumStep(f, h, s)
    <3>1. h[s] = SumStep(f, g, s)
      BY <2>3
    <3>2. CASE s = {}
      BY <3>1, <3>2 DEF SumStep
    <3>3. CASE s # {}
      <4>1. Pick(s) \in s
        BY <3>3, PickIs
      <4>2. s \ {Pick(s)} \in SUBSET S /\ Cardinality(s \ {Pick(s)}) = Cardinality(s) - 1
        BY <1>1, <4>1, FS_RemoveElement
      <4>3. Cardinality(s \ {Pick(s)}) <= n - 1
        BY <1>1, <2>4, <2>5, <4>2
      <4>4. h[s \ {Pick(s)}] = g[s \ {Pick(s)}]
        BY <4>2, <4>3
      <4> HIDE DEF h
      <4> QED BY <3>1, <3>3, <4>4 DEF SumStep
    <3> QED BY <3>2, <3>3
  <2>6. Upto(n, h)
    BY <2>5
  <2> HIDE DEF Upto, h
  <2> QED BY <2>1, <2>6
<1>3. PICK g : Upto(Cardinality(S), g)
  <2>1. Cardinality(S) \in Nat
    BY FS_CardinalityType
  <2> HIDE DEF Upto
  <2> QED BY <1>2, <2>1
<1>4. \A s \in SUBSET S : g[s] = SumStep(f, g, s)
  BY <1>3, FS_Subset
<1> DEFINE h == [s \in SUBSET S |-> g[s]]
<1>5. \A s \in SUBSET S : h[s] = SumStep(f, h, s)
  <2> TAKE s \in SUBSET S
  <2>1. s \ {Pick(s)} \in SUBSET S
    OBVIOUS
  <2> QED BY <1>4, <2>1 DEF SumStep
<1>6. Sums(f, S, h)
  <2>1. h = [s \in SUBSET S |-> h[s]]
    OBVIOUS
  <2> HIDE DEF h
  <2> QED BY <1>5, <2>1 DEF Sums
<1> HIDE DEF h
<1> QED BY <1>6

\* It has one solution, whatever larger set it is solved for.
LEMMA SumUnique ==
  ASSUME NEW f, NEW S, IsFiniteSet(S), NEW T \in SUBSET S,
         NEW g, Sums(f, S, g),
         NEW h, Sums(f, T, h)
  PROVE  h[T] = g[T]
<1> DEFINE Good == {s \in SUBSET T : h[s] = g[s]}
<1>1. {} \in Good
  <2>1. h[{}] = SumStep(f, h, {}) /\ g[{}] = SumStep(f, g, {})
    BY DEF Sums
  <2> QED BY <2>1 DEF SumStep
<1>2. ASSUME NEW s \in SUBSET T, \A x \in s : s \ {x} \in Good
      PROVE  s \in Good
  <2>1. h[s] = SumStep(f, h, s) /\ g[s] = SumStep(f, g, s)
    BY DEF Sums
  <2>2. s # {} => h[s \ {Pick(s)}] = g[s \ {Pick(s)}]
    BY <1>2, PickIs
  <2> QED BY <2>1, <2>2 DEF SumStep
<1>3. IsFiniteSet(T)
  BY FS_Subset
<1> HIDE DEF Good
<1>4. SUBSET T \subseteq Good
  BY <1>1, <1>2, <1>3, BySize
<1> QED BY <1>4 DEF Good

\* A sum by its picked element.
LEMMA SumSteps ==
  ASSUME NEW f, NEW S, IsFiniteSet(S)
  PROVE  SumFunctionOnSet(f, S) =
           IF S = {} THEN 0 ELSE f[Pick(S)] + SumFunctionOnSet(f, S \ {Pick(S)})
<1> DEFINE T == S \ {Pick(S)}
<1>1. IsFiniteSet(T) /\ T \in SUBSET S
  BY FS_Subset
<1>2. PICK g : Sums(f, S, g) /\ SumFunctionOnSet(f, S) = g[S]
  <2>1. \E h : Sums(f, S, h)
    BY SumExists
  <2> QED BY <2>1, SumIs
<1>3. PICK h : Sums(f, T, h) /\ SumFunctionOnSet(f, T) = h[T]
  <2> HIDE DEF T
  <2>1. \E h : Sums(f, T, h)
    BY <1>1, SumExists
  <2> QED BY <2>1, SumIs
<1>4. h[T] = g[T]
  <2> HIDE DEF T
  <2> QED BY <1>1, <1>2, <1>3, SumUnique
<1>5. g[S] = SumStep(f, g, S)
  BY <1>2 DEF Sums
<1> QED BY <1>2, <1>3, <1>4, <1>5 DEF SumStep

\* Nothing sums up to nothing.
LEMMA SumEmpty == ASSUME NEW f PROVE SumFunctionOnSet(f, {}) = 0
<1>1. IsFiniteSet({})
  BY FS_EmptySet
<1> QED BY <1>1, SumSteps

\* The sum of integers is one.
LEMMA SumInt ==
  ASSUME NEW S, IsFiniteSet(S), NEW f, \A x \in S : f[x] \in Int
  PROVE  SumFunctionOnSet(f, S) \in Int
<1> DEFINE Good == {s \in SUBSET S : SumFunctionOnSet(f, s) \in Int}
<1>1. {} \in Good
  BY SumEmpty
<1>2. ASSUME NEW s \in SUBSET S, \A x \in s : s \ {x} \in Good
      PROVE  s \in Good
  <2>1. IsFiniteSet(s)
    BY FS_Subset
  <2>2. s # {} => Pick(s) \in s /\ f[Pick(s)] \in Int /\ SumFunctionOnSet(f, s \ {Pick(s)}) \in Int
    BY <1>2, PickIs
  <2>3. SumFunctionOnSet(f, s) =
          IF s = {} THEN 0 ELSE f[Pick(s)] + SumFunctionOnSet(f, s \ {Pick(s)})
    BY <2>1, SumSteps
  <2>4. SumFunctionOnSet(f, s) \in Int
    <3> HIDE DEF Good
    <3> QED BY <2>2, <2>3
  <2> QED BY <2>4
<1> HIDE DEF Good
<1>3. SUBSET S \subseteq Good
  BY <1>1, <1>2, BySize
<1> QED BY <1>3 DEF Good

\* Functions that agree on the set have the same sum.
LEMMA SumSame ==
  ASSUME NEW S, IsFiniteSet(S), NEW f, NEW h, \A x \in S : f[x] = h[x]
  PROVE  SumFunctionOnSet(f, S) = SumFunctionOnSet(h, S)
<1> DEFINE Good == {s \in SUBSET S : SumFunctionOnSet(f, s) = SumFunctionOnSet(h, s)}
<1>1. {} \in Good
  BY SumEmpty
<1>2. ASSUME NEW s \in SUBSET S, \A x \in s : s \ {x} \in Good
      PROVE  s \in Good
  <2>1. IsFiniteSet(s)
    BY FS_Subset
  <2>2. s # {} => f[Pick(s)] = h[Pick(s)]
                  /\ SumFunctionOnSet(f, s \ {Pick(s)}) = SumFunctionOnSet(h, s \ {Pick(s)})
    BY <1>2, PickIs
  <2> QED BY <2>1, <2>2, SumSteps
<1> HIDE DEF Good
<1>3. SUBSET S \subseteq Good
  BY <1>1, <1>2, BySize
<1> QED BY <1>3 DEF Good

\* Any element can be taken out of a sum.
LEMMA SumOut ==
  ASSUME NEW S, IsFiniteSet(S), NEW f, \A x \in S : f[x] \in Int, NEW x \in S
  PROVE  SumFunctionOnSet(f, S) = f[x] + SumFunctionOnSet(f, S \ {x})
<1> DEFINE Good == {s \in SUBSET S :
       \A y \in s : SumFunctionOnSet(f, s) = f[y] + SumFunctionOnSet(f, s \ {y})}
<1>1. {} \in Good
  OBVIOUS
<1>2. ASSUME NEW s \in SUBSET S, \A y \in s : s \ {y} \in Good
      PROVE  s \in Good
  <2> SUFFICES ASSUME NEW y \in s
               PROVE  SumFunctionOnSet(f, s) = f[y] + SumFunctionOnSet(f, s \ {y})
    OBVIOUS
  <2> DEFINE c == Pick(s)
             rest == s \ {c, y}
  <2>1. c \in s /\ s # {}
    BY PickIs
  <2>2. IsFiniteSet(s) /\ IsFiniteSet(rest) /\ rest \subseteq S
    BY FS_Subset
  <2>3. SumFunctionOnSet(f, s) = f[c] + SumFunctionOnSet(f, s \ {c})
    BY <2>1, <2>2, SumSteps
  <2>4. f[c] \in Int /\ f[y] \in Int
    BY <2>1
  <2>5. SumFunctionOnSet(f, rest) \in Int
    <3> HIDE DEF rest
    <3> QED BY <2>2, SumInt
  <2> HIDE DEF c
  <2>6. CASE c = y
    BY <2>3, <2>6
  <2>7. CASE c # y
    <3>1. s \ {c} \in Good /\ s \ {y} \in Good /\ y \in s \ {c} /\ c \in s \ {y}
      BY <1>2, <2>1, <2>7
    <3>2. (s \ {c}) \ {y} = rest /\ (s \ {y}) \ {c} = rest
      OBVIOUS
    <3>3. /\ SumFunctionOnSet(f, s \ {c}) = f[y] + SumFunctionOnSet(f, (s \ {c}) \ {y})
          /\ SumFunctionOnSet(f, s \ {y}) = f[c] + SumFunctionOnSet(f, (s \ {y}) \ {c})
      BY <3>1
    <3> HIDE DEF rest, Good
    <3>4. /\ SumFunctionOnSet(f, s \ {c}) = f[y] + SumFunctionOnSet(f, rest)
          /\ SumFunctionOnSet(f, s \ {y}) = f[c] + SumFunctionOnSet(f, rest)
      BY <3>2, <3>3
    <3> QED BY <2>3, <2>4, <2>5, <3>4
  <2> QED BY <2>6, <2>7
<1> HIDE DEF Good
<1>3. SUBSET S \subseteq Good
  BY <1>1, <1>2, BySize
<1> QED BY <1>3 DEF Good

Entry == [account : Account, amount : Amount, deleted : BOOLEAN]
Lock == {"key", "txn", "account"} \X (Key \cup Nat)

\* The requests by what they do.
Creates == [op : {"create"}, at : {"claim", "lock", "commit"}, locks : SUBSET Lock,
            key : Key, body : Body]
Patches == [op : {"patch"}, at : {"find", "accounts", "commit"}, locks : SUBSET Lock,
            txn : Nat, body : Body]
Deletes == [op : {"delete"}, at : {"find", "accounts", "commit"}, locks : SUBSET Lock, txn : Nat]
Archives == [op : {"archive"}, at : {"lock", "commit"}, locks : SUBSET Lock, account : Account]

Shapes ==
  /\ req \in [Client -> {None} \cup Creates \cup Patches \cup Deletes \cup Archives]
  /\ key \in [Key -> {<< >>} \cup [body : Body, txn : Rows]]
  /\ replies \in [Key -> SUBSET Nat]

HasLocked(r, a) == <<"account", a>> \in r.locks

\* A request that claimed its key found it free, and holds it.
CreateSound(r) ==
  /\ r.locks = (IF r.at = "claim" THEN {} ELSE {<<"key", r.key>>})
                 \cup (IF r.at = "commit" THEN {<<"account", r.body.account>>} ELSE {})
  /\ r.at # "claim" => key[r.key] = << >>

\* An edit holds a transaction that is not deleted, and the accounts it needs
\* in the order of their ids, all of them when it commits.
EditSound(r) ==
  /\ r.txn \in Rows
  /\ r.at = "find" => r.locks = {}
  /\ r.at # "find" =>
       /\ ~txn[r.txn].deleted
       /\ <<"txn", r.txn>> \in r.locks
       /\ r.locks \subseteq {<<"txn", r.txn>>} \cup {<<"account", a>> : a \in Affected(r)}
       /\ \A a, b \in Affected(r) : HasLocked(r, a) /\ ~HasLocked(r, b) => a < b
       /\ (r.at = "commit") = (\A a \in Affected(r) : HasLocked(r, a))

ArchiveSound(r) == r.locks = IF r.at = "lock" THEN {} ELSE {<<"account", r.account>>}

Sound(r) ==
  /\ r.op = "create" => CreateSound(r)
  /\ r.op \in {"patch", "delete"} => EditSound(r)
  /\ r.op = "archive" => ArchiveSound(r)

\* A row is locked by one request at a time.
Exclusive == \A c, d \in Client : c # d => req[c].locks \cap req[d].locks = {}

\* What was answered under a key is what the key stands for, and every
\* transaction was answered.
KeysSound ==
  /\ \A k \in Key : replies[k] = IF key[k] = << >> THEN {} ELSE {key[k].txn}
  /\ UNION {replies[k] : k \in Key} = Rows

IInv ==
  /\ TypeOK /\ Shapes
  /\ BalancesAddUp
  /\ \A c \in Client : Sound(req[c])
  /\ Exclusive
  /\ KeysSound
-----------------------------------------------------------------------------
(* Requests and their locks. *)

Requests == {None} \cup Creates \cup Patches \cup Deletes \cup Archives

\* What a request is, by what it does and by where it is.
LEMMA ReqIs ==
  ASSUME Shapes, NEW c \in Client
  PROVE  /\ req[c] \in Requests
         /\ req[c].op = "none" => req[c] = None
         /\ req[c].op = "create" => req[c] \in Creates
         /\ req[c].op = "patch" => req[c] \in Patches
         /\ req[c].op = "delete" => req[c] \in Deletes
         /\ req[c].op = "archive" => req[c] \in Archives
         /\ req[c].at = "claim" => req[c].op = "create"
         /\ req[c].at \in {"find", "accounts"} => req[c].op \in {"patch", "delete"}
         /\ req[c].op \in {"patch", "delete"} => req[c].at \in {"find", "accounts", "commit"}
<1>1. req[c] \in Requests
  BY DEF Shapes, Requests
<1>2. None.op = "none" /\ None.at = "none"
  BY DEF None
<1>3. \A r \in Creates : r.op = "create" /\ r.at \in {"claim", "lock", "commit"}
  BY DEF Creates
<1>4. \A r \in Patches : r.op = "patch" /\ r.at \in {"find", "accounts", "commit"}
  BY DEF Patches
<1>5. \A r \in Deletes : r.op = "delete" /\ r.at \in {"find", "accounts", "commit"}
  BY DEF Deletes
<1>6. \A r \in Archives : r.op = "archive" /\ r.at \in {"lock", "commit"}
  BY DEF Archives
<1> QED BY <1>1, <1>2, <1>3, <1>4, <1>5, <1>6 DEF Requests

\* A request with nothing to do holds nothing.
LEMMA NoneSound == None \in Requests /\ Sound(None) /\ None.locks = {}
BY DEF None, Requests, Sound

\* The rows.
LEMMA RowsAre ==
  ASSUME TypeOK
  PROVE  /\ Rows = 1..Len(txn) /\ Len(txn) \in Nat /\ Rows \subseteq Nat /\ IsFiniteSet(Rows)
         /\ \A t \in Rows : txn[t] \in Entry
<1>1. txn \in Seq(Entry)
  BY DEF TypeOK, Entry
<1>2. Rows = 1..Len(txn) /\ Len(txn) \in Nat /\ \A t \in Rows : txn[t] \in Entry
  BY <1>1, LenProperties, ElementOfSeq DEF Rows
<1>3. IsFiniteSet(1..Len(txn))
  BY <1>2, FS_Interval
<1> QED BY <1>2, <1>3

\* One request moves on and nothing else changes.
LEMMA RequestKeeps ==
  ASSUME IInv, NEW c \in Client, NEW r \in Requests, req' = [req EXCEPT ![c] = r],
         r.at \in {"none", "claim", "lock", "find", "accounts", "commit"},
         Sound(r), \A l \in r.locks : l \in req[c].locks \/ ~Held(l),
         UNCHANGED <<account, txn, key, replies>>
  PROVE  IInv'
<1>1. \A d \in Client : req'[d] = IF d = c THEN r ELSE req[d]
  BY DEF IInv, Shapes
<1>2. TypeOK'
  BY <1>1 DEF IInv, TypeOK
<1>3. Shapes'
  <2>1. req' \in [Client -> Requests]
    BY DEF IInv, Shapes, Requests
  <2>2. Rows' = Rows
    BY DEF Rows
  <2> QED BY <2>1, <2>2 DEF IInv, Shapes, Requests
<1>4. BalancesAddUp' /\ KeysSound'
  <2>1. \A a : Live(a)' = Live(a) /\ Deltas(a)' = Deltas(a)
    BY DEF Live, Deltas, Rows
  <2> QED BY <2>1 DEF IInv, BalancesAddUp, KeysSound, Rows
<1>5. \A d \in Client : Sound(req[d])'
  <2>1. \A x : Sound(x)' <=> Sound(x)
    BY DEF Sound, CreateSound, EditSound, ArchiveSound, Affected, HasLocked, Rows
  <2>2. \A d \in Client : Sound(req'[d])
    BY <1>1 DEF IInv
  <2> QED BY <2>1, <2>2 DEF Sound, CreateSound, EditSound, ArchiveSound, Affected, HasLocked, Rows
<1>6. Exclusive'
  <2>1. \A d \in Client \ {c} : r.locks \cap req[d].locks = {}
    BY DEF IInv, Exclusive, Held
  <2> QED BY <1>1, <2>1 DEF IInv, Exclusive
<1> QED BY <1>2, <1>3, <1>4, <1>5, <1>6 DEF IInv

\* A request ends, however it ends.
LEMMA EndKeeps ==
  ASSUME IInv, NEW c \in Client, Ends(c), UNCHANGED <<account, txn, key, replies>>
  PROVE  IInv'
BY NoneSound, RequestKeeps DEF Ends, None

\* A request waits for a lock and takes it.
LEMMA LocksAre ==
  ASSUME Shapes, NEW c \in Client, NEW lock, NEW next, Locks(c, lock, next)
  PROVE  /\ req' = [req EXCEPT ![c] = [req[c] EXCEPT !.locks = req[c].locks \cup {lock}, !.at = next]]
         /\ ~Held(lock)
BY DEF Locks, Shapes

-----------------------------------------------------------------------------
(* The steps of a request up to its commit. *)

\* A request starts without a lock.
LEMMA StartKeeps ==
  ASSUME IInv, NEW c \in Client, NEW r \in Requests, Starts(c, r),
         r.at \in {"claim", "lock", "find"}, Sound(r), r.locks = {}
  PROVE  IInv'
BY RequestKeeps DEF Starts

\* The four requests of the clients.
LEMMA StartsKeep ==
  ASSUME IInv, NEW c \in Client,
         \/ \E k \in Key, body \in Body : Create(c, k, body)
         \/ \E t \in Rows : Delete(c, t) \/ \E body \in Body : Patch(c, t, body)
         \/ \E a \in Account : UpdateAccount(c, a)
  PROVE  IInv'
<1>1. {} \in SUBSET Lock
  OBVIOUS
<1>2. ASSUME NEW k \in Key, NEW body \in Body, Create(c, k, body)
      PROVE  IInv'
  <2> DEFINE r == [op |-> "create", at |-> "claim", locks |-> {}, key |-> k, body |-> body]
  <2>1. r \in Requests /\ r.at = "claim" /\ r.locks = {}
    BY <1>1 DEF Requests, Creates
  <2>2. Sound(r)
    BY DEF Sound, CreateSound
  <2> HIDE DEF r
  <2> QED BY <1>2, <2>1, <2>2, StartKeeps DEF Create, r
<1>3. ASSUME NEW t \in Rows, NEW body \in Body, Patch(c, t, body)
      PROVE  IInv'
  <2> DEFINE r == [op |-> "patch", at |-> "find", locks |-> {}, txn |-> t, body |-> body]
  <2>1. r \in Requests /\ r.at = "find" /\ r.locks = {}
    BY <1>1, RowsAre DEF Requests, Patches, IInv
  <2>2. Sound(r)
    BY DEF Sound, EditSound
  <2> HIDE DEF r
  <2> QED BY <1>3, <2>1, <2>2, StartKeeps DEF Patch, r
<1>4. ASSUME NEW t \in Rows, Delete(c, t)
      PROVE  IInv'
  <2> DEFINE r == [op |-> "delete", at |-> "find", locks |-> {}, txn |-> t]
  <2>1. r \in Requests /\ r.at = "find" /\ r.locks = {}
    BY <1>1, RowsAre DEF Requests, Deletes, IInv
  <2>2. Sound(r)
    BY DEF Sound, EditSound
  <2> HIDE DEF r
  <2> QED BY <1>4, <2>1, <2>2, StartKeeps DEF Delete, r
<1>5. ASSUME NEW a \in Account, UpdateAccount(c, a)
      PROVE  IInv'
  <2> DEFINE r == [op |-> "archive", at |-> "lock", locks |-> {}, account |-> a]
  <2>1. r \in Requests /\ r.at = "lock" /\ r.locks = {}
    BY <1>1 DEF Requests, Archives
  <2>2. Sound(r)
    BY DEF Sound, ArchiveSound
  <2> HIDE DEF r
  <2> QED BY <1>5, <2>1, <2>2, StartKeeps DEF UpdateAccount, r
<1> QED BY <1>2, <1>3, <1>4, <1>5

\* A request goes on with one more row locked.
LEMMA LockKeeps ==
  ASSUME IInv, NEW c \in Client, NEW lock, NEW next, Locks(c, lock, next),
         NEW r \in Requests, r = [req[c] EXCEPT !.locks = req[c].locks \cup {lock}, !.at = next],
         r.locks = req[c].locks \cup {lock}, r.at = next,
         next \in {"lock", "accounts", "commit"}, Sound(r),
         UNCHANGED <<account, txn, key, replies>>
  PROVE  IInv'
<1>1. req' = [req EXCEPT ![c] = r] /\ ~Held(lock)
  <2>1. Shapes
    BY DEF IInv
  <2>2. /\ req' = [req EXCEPT ![c] = [req[c] EXCEPT !.locks = req[c].locks \cup {lock}, !.at = next]]
        /\ ~Held(lock)
    BY <2>1, LocksAre
  <2> QED BY <2>2
<1>2. \A l \in r.locks : l \in req[c].locks \/ ~Held(l)
  BY <1>1
<1> QED BY <1>1, <1>2, RequestKeeps

\* A creation locks its key, then its account.
LEMMA CreateLocks ==
  ASSUME IInv, NEW c \in Client, ClaimIdempotencyKey(c) \/ LockAccountOfCreate(c)
  PROVE  IInv'
<1>1. req[c] \in Creates /\ req[c].op = "create" /\ CreateSound(req[c])
  BY ReqIs DEF ClaimIdempotencyKey, LockAccountOfCreate, IInv, Sound
<1>2. CASE ClaimIdempotencyKey(c)
  <2> DEFINE lock == <<"key", req[c].key>>
             r == [req[c] EXCEPT !.locks = req[c].locks \cup {lock}, !.at = "lock"]
  <2>1. lock \in Lock
    BY <1>1 DEF Creates, Lock
  <2>2. r \in Creates /\ r.locks = req[c].locks \cup {lock} /\ r.at = "lock"
        /\ r.op = "create" /\ r.key = req[c].key
    <3> HIDE DEF lock
    <3> QED BY <1>1, <2>1 DEF Creates
  <2>3. Sound(r)
    <3>1. r.locks = {lock}
      BY <1>1, <1>2, <2>2 DEF ClaimIdempotencyKey, CreateSound
    <3>2. CreateSound(r)
      BY <1>2, <2>2, <3>1 DEF ClaimIdempotencyKey, CreateSound
    <3> QED BY <2>2, <3>2 DEF Sound
  <2>4. Locks(c, lock, "lock") /\ UNCHANGED <<account, txn, key, replies>>
    BY <1>2 DEF ClaimIdempotencyKey, Claims
  <2>5. r = [req[c] EXCEPT !.locks = req[c].locks \cup {lock}, !.at = "lock"] /\ r \in Requests
    BY <2>2 DEF Requests
  <2> HIDE DEF r, lock
  <2> QED BY <2>2, <2>3, <2>4, <2>5, LockKeeps
<1>3. CASE LockAccountOfCreate(c)
  <2> DEFINE lock == <<"account", req[c].body.account>>
             r == [req[c] EXCEPT !.locks = req[c].locks \cup {lock}, !.at = "commit"]
  <2>1. lock \in Lock
    BY <1>1, LedgerAssumption DEF Creates, Body, Lock
  <2>2. r \in Creates /\ r.locks = req[c].locks \cup {lock} /\ r.at = "commit"
        /\ r.op = "create" /\ r.key = req[c].key /\ r.body = req[c].body
    <3> HIDE DEF lock
    <3> QED BY <1>1, <2>1 DEF Creates
  <2>3. Sound(r)
    <3>1. req[c].at = "lock"
      BY <1>3 DEF LockAccountOfCreate
    <3>2. CreateSound(r)
      BY <1>1, <2>2, <3>1 DEF CreateSound
    <3> QED BY <2>2, <3>2 DEF Sound
  <2>4. Locks(c, lock, "commit") /\ UNCHANGED <<account, txn, key, replies>>
    BY <1>3 DEF LockAccountOfCreate
  <2>5. r = [req[c] EXCEPT !.locks = req[c].locks \cup {lock}, !.at = "commit"] /\ r \in Requests
    BY <2>2 DEF Requests
  <2> HIDE DEF r, lock
  <2> QED BY <2>2, <2>3, <2>4, <2>5, LockKeeps
<1> QED BY <1>2, <1>3

\* An archiving locks its account.
LEMMA ArchiveLocks ==
  ASSUME IInv, NEW c \in Client, LockAccountOfUpdate(c)
  PROVE  IInv'
<1>1. req[c] \in Archives /\ req[c].op = "archive" /\ ArchiveSound(req[c]) /\ req[c].at = "lock"
  BY ReqIs DEF LockAccountOfUpdate, IInv, Sound
<1> DEFINE lock == <<"account", req[c].account>>
           r == [req[c] EXCEPT !.locks = req[c].locks \cup {lock}, !.at = "commit"]
<1>2. lock \in Lock
  BY <1>1, LedgerAssumption DEF Archives, Lock
<1>3. r \in Archives /\ r.locks = req[c].locks \cup {lock} /\ r.at = "commit"
      /\ r.op = "archive" /\ r.account = req[c].account
  <2> HIDE DEF lock
  <2> QED BY <1>1, <1>2 DEF Archives
<1>4. Sound(r)
  BY <1>1, <1>3 DEF Sound, ArchiveSound
<1>5. Locks(c, lock, "commit") /\ UNCHANGED <<account, txn, key, replies>>
  BY DEF LockAccountOfUpdate
<1>6. r = [req[c] EXCEPT !.locks = req[c].locks \cup {lock}, !.at = "commit"] /\ r \in Requests
  BY <1>3 DEF Requests
<1> HIDE DEF r, lock
<1> QED BY <1>3, <1>4, <1>5, <1>6, LockKeeps

\* The stored answer was given before.
LEMMA ReplayKeeps ==
  ASSUME IInv, NEW c \in Client, Replay(c)
  PROVE  IInv'
<1>1. req[c].key \in Key
  BY ReqIs DEF Replay, IInv, Creates
<1>2. replies[req[c].key] = {key[req[c].key].txn}
  BY <1>1 DEF Replay, IInv, KeysSound
<1>3. replies' = replies
  BY <1>1, <1>2 DEF Replay, IInv, Shapes
<1> QED BY <1>3, EndKeeps DEF Replay

-----------------------------------------------------------------------------
(* The locks of an edit. *)

\* What an edit touches depends on what it does, not on how far it is.
LEMMA AffectedIs ==
  ASSUME TypeOK, NEW r \in Patches \cup Deletes, r.txn \in Rows
  PROVE  /\ Affected(r) \subseteq Account /\ Affected(r) # {} /\ IsFiniteSet(Affected(r))
         /\ \A s \in Patches \cup Deletes :
              /\ s.op = r.op /\ s.txn = r.txn
              /\ r.op = "patch" => s.body = r.body
              => Affected(s) = Affected(r)
<1>1. txn[r.txn].account \in Account
  BY RowsAre DEF Entry
<1>2. r.op = "patch" => r.body.account \in Account
  BY DEF Patches, Deletes, Body
<1>3. IsFiniteSet({txn[r.txn].account} \cup {r.body.account}) /\ IsFiniteSet({txn[r.txn].account})
  <2>1. IsFiniteSet({txn[r.txn].account})
    BY FS_Singleton
  <2> QED BY <2>1, FS_AddElement
<1>4. Affected(r) = {txn[r.txn].account} \cup (IF r.op = "patch" THEN {r.body.account} ELSE {})
  BY DEF Affected
<1>5. IsFiniteSet(Affected(r)) /\ Affected(r) \subseteq Account /\ Affected(r) # {}
  BY <1>1, <1>2, <1>3, <1>4
<1> QED BY <1>5 DEF Affected

\* The next account to be locked.
LEMMA NextAccountIs ==
  ASSUME IInv, NEW c \in Client, req[c].at = "accounts"
  PROVE  /\ NextAccount(c) \in Unlocked(c) /\ NextAccount(c) \in Account
         /\ \A a \in Unlocked(c) : NextAccount(c) <= a
         /\ Cardinality(Unlocked(c)) = 1 <=> Unlocked(c) = {NextAccount(c)}
<1>1. req[c] \in Patches \cup Deletes /\ EditSound(req[c])
  BY ReqIs DEF IInv, Sound
<1>2. Affected(req[c]) \subseteq Account /\ IsFiniteSet(Affected(req[c])) /\ Account \subseteq Nat
  BY <1>1, AffectedIs, LedgerAssumption DEF IInv, EditSound
<1>3. Unlocked(c) # {}
  BY <1>1 DEF EditSound, Unlocked, HasLocked
<1>4. Unlocked(c) \subseteq Affected(req[c])
  BY DEF Unlocked
<1>5. \E x \in Unlocked(c) : \A y \in Unlocked(c) : x <= y
  <2>1. Unlocked(c) \in SUBSET Nat
    BY <1>2, <1>4
  <2> QED BY <1>3, <2>1, LeastIs
<1>6. NextAccount(c) \in Unlocked(c) /\ \A a \in Unlocked(c) : NextAccount(c) <= a
  BY <1>5 DEF NextAccount, Min
<1>7. Cardinality(Unlocked(c)) = 1 <=> Unlocked(c) = {NextAccount(c)}
  <2>1. IsFiniteSet(Unlocked(c))
    BY <1>2, <1>4, FS_Subset
  <2>2. Cardinality(Unlocked(c)) = 1 <=> \E x : Unlocked(c) = {x}
    BY <2>1, FS_Singleton
  <2> QED BY <1>6, <2>2
<1> QED BY <1>2, <1>4, <1>6, <1>7

\* An edit that has one more lock is the same edit.
LEMMA EditMoves ==
  ASSUME NEW e, e \in Patches \cup Deletes, NEW lock, lock \in Lock,
         NEW next, next \in {"accounts", "commit"}
  PROVE  LET r == [e EXCEPT !.locks = e.locks \cup {lock}, !.at = next] IN
         /\ r \in Patches \cup Deletes /\ r \in Requests
         /\ r.locks = e.locks \cup {lock} /\ r.at = next
         /\ r.op = e.op /\ r.txn = e.txn /\ (e.op = "patch" => r.body = e.body)
         /\ r.op \in {"patch", "delete"}
<1>1. CASE e \in Patches
  BY <1>1 DEF Patches, Requests
<1>2. CASE e \in Deletes
  BY <1>2 DEF Deletes, Requests
<1> QED BY <1>1, <1>2

\* An edit finds its transaction and locks it, or there is none any more.
LEMMA FindKeeps ==
  ASSUME IInv, NEW c \in Client, FindByIdForUpdate(c)
  PROVE  IInv'
<1>1. req[c] \in Patches \cup Deletes /\ EditSound(req[c]) /\ req[c].at = "find"
  BY ReqIs DEF FindByIdForUpdate, IInv, Sound
<1>2. UNCHANGED <<account, txn, key, replies>>
  BY DEF FindByIdForUpdate
<1>3. CASE Ends(c)
  BY <1>2, <1>3, EndKeeps
<1> DEFINE lock == <<"txn", req[c].txn>>
           r == [req[c] EXCEPT !.locks = req[c].locks \cup {lock}, !.at = "accounts"]
<1>4. CASE ~txn[req[c].txn].deleted /\ Locks(c, lock, "accounts")
  <2>1. lock \in Lock
    BY <1>1, RowsAre DEF EditSound, Lock, IInv
  <2>2. /\ r \in Patches \cup Deletes /\ r \in Requests
        /\ r.locks = req[c].locks \cup {lock} /\ r.at = "accounts"
        /\ r.op = req[c].op /\ r.txn = req[c].txn /\ (req[c].op = "patch" => r.body = req[c].body)
        /\ r.op \in {"patch", "delete"}
    <3> HIDE DEF lock
    <3> QED BY <1>1, <2>1, EditMoves
  <2>3. r.locks = {lock} /\ r.txn \in Rows
    BY <1>1, <2>2 DEF EditSound
  <2>4. Affected(r) # {} /\ r = [req[c] EXCEPT !.locks = req[c].locks \cup {lock}, !.at = "accounts"]
    BY <2>2, <2>3, AffectedIs DEF IInv
  <2>5. \A a \in Affected(r) : ~HasLocked(r, a)
    BY <2>3 DEF HasLocked
  <2>6. Sound(r)
    <3>1. ~txn[r.txn].deleted /\ <<"txn", r.txn>> \in r.locks /\ r.locks \subseteq {<<"txn", r.txn>>}
      BY <1>4, <2>2, <2>3
    <3> HIDE DEF r
    <3>2. EditSound(r)
      BY <2>2, <2>3, <2>4, <2>5, <3>1 DEF EditSound
    <3> QED BY <2>2, <3>2 DEF Sound
  <2> HIDE DEF r, lock
  <2> QED BY <1>2, <1>4, <2>2, <2>4, <2>6, LockKeeps
<1> QED BY <1>1, <1>3, <1>4 DEF FindByIdForUpdate

\* An edit locks its next account; after the last one it commits.
LEMMA AccountKeeps ==
  ASSUME IInv, NEW c \in Client, LockAccount(c)
  PROVE  IInv'
<1> DEFINE n == NextAccount(c)
           next == IF Cardinality(Unlocked(c)) = 1 THEN "commit" ELSE "accounts"
           lock == <<"account", n>>
           r == [req[c] EXCEPT !.locks = req[c].locks \cup {lock}, !.at = next]
<1>1. req[c] \in Patches \cup Deletes /\ EditSound(req[c]) /\ req[c].at = "accounts"
  BY ReqIs DEF LockAccount, IInv, Sound
<1>2. UNCHANGED <<account, txn, key, replies>> /\ Locks(c, lock, next)
  BY DEF LockAccount
<1>3. n \in Unlocked(c) /\ n \in Nat /\ n \in Account /\ (\A a \in Unlocked(c) : n <= a)
      /\ (next = "commit" <=> Unlocked(c) = {n}) /\ next \in {"accounts", "commit"}
  BY <1>1, NextAccountIs, LedgerAssumption
<1>4. lock \in Lock
  BY <1>3 DEF Lock
<1> HIDE DEF n, next
<1>5. r = [req[c] EXCEPT !.locks = req[c].locks \cup {lock}, !.at = next]
  OBVIOUS
<1>6. /\ r \in Patches \cup Deletes /\ r \in Requests
      /\ r.locks = req[c].locks \cup {lock} /\ r.at = next
      /\ r.op = req[c].op /\ r.txn = req[c].txn /\ (req[c].op = "patch" => r.body = req[c].body)
      /\ r.op \in {"patch", "delete"}
  <2> HIDE DEF lock
  <2>1. req[c] \in Patches \cup Deletes
    BY <1>1
  <2>2. next \in {"accounts", "commit"}
    BY <1>3
  <2>3. CASE req[c] \in Patches
    BY <1>4, <2>2, <2>3 DEF Patches, Requests
  <2>4. CASE req[c] \in Deletes
    BY <1>4, <2>2, <2>4 DEF Deletes, Requests
  <2> QED BY <2>1, <2>3, <2>4
<1> HIDE DEF r
<1>7. Affected(r) = Affected(req[c]) /\ Affected(r) \subseteq Nat
  BY <1>1, <1>6, AffectedIs, LedgerAssumption DEF IInv, EditSound
<1>8. \A a \in Affected(r) : HasLocked(r, a) <=> HasLocked(req[c], a) \/ a = n
  BY <1>6 DEF HasLocked
<1>9. Unlocked(c) = {a \in Affected(r) : ~HasLocked(req[c], a)}
  BY <1>7 DEF Unlocked, HasLocked
<1>10. EditSound(r)
  <2>1. r.txn \in Rows /\ ~txn[r.txn].deleted /\ <<"txn", r.txn>> \in r.locks /\ r.at # "find"
    BY <1>1, <1>3, <1>6 DEF EditSound
  <2>2. r.locks \subseteq {<<"txn", r.txn>>} \cup {<<"account", a>> : a \in Affected(r)}
    BY <1>1, <1>3, <1>6, <1>7, <1>9 DEF EditSound
  <2>3. ASSUME NEW a \in Affected(r), NEW b \in Affected(r), HasLocked(r, a), ~HasLocked(r, b)
        PROVE  a < b
    <3>1. b \in Unlocked(c) /\ b # n /\ n <= b /\ ~HasLocked(req[c], b)
      BY <1>3, <1>8, <1>9, <2>3
    <3>2. CASE a = n
      BY <1>3, <1>7, <3>1, <3>2
    <3>3. CASE a # n
      <4>1. HasLocked(req[c], a)
        BY <1>8, <2>3, <3>3
      <4> QED BY <1>1, <1>7, <3>1, <4>1 DEF EditSound
    <3> QED BY <3>2, <3>3
  <2>4. (r.at = "commit") = (\A a \in Affected(r) : HasLocked(r, a))
    <3>1. r.at = "commit" <=> Unlocked(c) = {n}
      BY <1>3, <1>6
    <3>2. Unlocked(c) = {n} <=> \A a \in Affected(r) : HasLocked(r, a)
      BY <1>3, <1>8, <1>9
    <3> QED BY <3>1, <3>2
  <2> QED BY <2>1, <2>2, <2>3, <2>4 DEF EditSound
<1>11. Sound(r)
  BY <1>6, <1>10 DEF Sound
<1> HIDE DEF lock
<1> QED BY <1>2, <1>3, <1>6, <1>5, <1>11, LockKeeps

-----------------------------------------------------------------------------
(* The commits. *)

\* One summand changes.
LEMMA SumMoves ==
  ASSUME NEW S, IsFiniteSet(S), NEW f, \A y \in S : f[y] \in Int,
         NEW T, IsFiniteSet(T), NEW h, \A y \in T : h[y] \in Int,
         NEW x, S \ {x} = T \ {x}, \A y \in S \ {x} : f[y] = h[y]
  PROVE  SumFunctionOnSet(h, T) = SumFunctionOnSet(f, S)
           - (IF x \in S THEN f[x] ELSE 0) + (IF x \in T THEN h[x] ELSE 0)
<1> DEFINE R == S \ {x}
<1>1. IsFiniteSet(R) /\ R = T \ {x}
  BY FS_RemoveElement
<1>2. SumFunctionOnSet(f, R) = SumFunctionOnSet(h, R) /\ SumFunctionOnSet(f, R) \in Int
  <2>1. \A y \in R : f[y] = h[y] /\ f[y] \in Int
    OBVIOUS
  <2> HIDE DEF R
  <2> QED BY <1>1, <2>1, SumSame, SumInt
<1>3. SumFunctionOnSet(f, S) = SumFunctionOnSet(f, R) + (IF x \in S THEN f[x] ELSE 0)
  <2>1. CASE x \in S
    <3>1. SumFunctionOnSet(f, S) = f[x] + SumFunctionOnSet(f, R) /\ f[x] \in Int
      BY <2>1, SumOut
    <3> HIDE DEF R
    <3> QED BY <1>2, <2>1, <3>1
  <2>2. CASE x \notin S
    <3>1. R = S
      BY <2>2
    <3> HIDE DEF R
    <3> QED BY <1>2, <2>2, <3>1
  <2> QED BY <2>1, <2>2
<1>4. SumFunctionOnSet(h, T) = SumFunctionOnSet(h, R) + (IF x \in T THEN h[x] ELSE 0)
  <2>1. CASE x \in T
    <3>1. SumFunctionOnSet(h, T) = h[x] + SumFunctionOnSet(h, T \ {x}) /\ h[x] \in Int
      BY <2>1, SumOut
    <3> HIDE DEF R
    <3> QED BY <1>1, <1>2, <2>1, <3>1
  <2>2. CASE x \notin T
    <3>1. R = T
      BY <1>1, <2>2
    <3> HIDE DEF R
    <3> QED BY <1>2, <2>2, <3>1
  <2> QED BY <2>1, <2>2
<1>5. (IF x \in S THEN f[x] ELSE 0) \in Int /\ (IF x \in T THEN h[x] ELSE 0) \in Int
  OBVIOUS
<1> HIDE DEF R
<1> QED BY <1>2, <1>3, <1>4, <1>5

\* What moves a balance is an integer.
LEMMA LiveIs ==
  ASSUME TypeOK, NEW a
  PROVE  /\ IsFiniteSet(Live(a)) /\ Live(a) \subseteq Rows
         /\ \A t \in Live(a) : Deltas(a)[t] \in Int
         /\ \A amount \in Amount : ManualBalanceDelta(a, amount) \in Int
<1>1. \A amount \in Amount : ManualBalanceDelta(a, amount) \in Int
  BY LedgerAssumption DEF ManualBalanceDelta
<1>2. Live(a) \in SUBSET Rows
  BY DEF Live
<1>3. IsFiniteSet(Live(a))
  BY <1>2, RowsAre, FS_Subset
<1>4. \A t \in Rows : txn[t].amount \in Amount
  BY RowsAre DEF Entry
<1>5. \A t \in Rows : Deltas(a)[t] \in Int
  BY <1>1, <1>4 DEF Deltas
<1> QED BY <1>1, <1>2, <1>3, <1>5

\* A commit of c leaves alone what the others hold.
LEMMA OthersSound ==
  ASSUME IInv, NEW c \in Client, NEW d \in Client \ {c}, NEW r, r = req[d],
         Rows \subseteq Rows',
         \A t \in Rows : txn'[t] = txn[t] \/ <<"txn", t>> \in req[c].locks,
         \A k \in Key : key'[k] = key[k] \/ <<"key", k>> \in req[c].locks
  PROVE  Sound(r)'
<1>1. Sound(r) /\ r.locks \cap req[c].locks = {} /\ r \in Requests
  BY ReqIs DEF IInv, Exclusive
<1>2. ASSUME r.op = "create"
      PROVE  CreateSound(r)'
  <2>1. CreateSound(r) /\ r.key \in Key
    BY <1>1, <1>2, ReqIs DEF Sound, IInv, Creates
  <2>2. r.at # "claim" => key'[r.key] = << >>
    BY <1>1, <2>1 DEF CreateSound
  <2> QED BY <2>1, <2>2 DEF CreateSound
<1>3. ASSUME r.op \in {"patch", "delete"}
      PROVE  EditSound(r)'
  <2>1. EditSound(r)
    BY <1>1, <1>3 DEF Sound
  <2>2. r.at # "find" => txn'[r.txn] = txn[r.txn]
    BY <1>1, <2>1 DEF EditSound
  <2>3. r.at # "find" => Affected(r)' = Affected(r)
    BY <2>2 DEF Affected
  <2>4. r.txn \in Rows'
    BY <2>1 DEF EditSound
  <2>5. CASE r.at = "find"
    BY <2>1, <2>4, <2>5 DEF EditSound
  <2>6. CASE r.at # "find"
    <3>1. ~txn'[r.txn].deleted /\ <<"txn", r.txn>> \in r.locks
      BY <2>1, <2>2, <2>6 DEF EditSound
    <3>2. r.locks \subseteq {<<"txn", r.txn>>} \cup {<<"account", a>> : a \in Affected(r)'}
      <4>1. r.locks \subseteq {<<"txn", r.txn>>} \cup {<<"account", a>> : a \in Affected(r)}
        BY <2>1, <2>6 DEF EditSound
      <4> QED BY <2>3, <2>6, <4>1
    <3>3. \A a, b \in Affected(r)' : HasLocked(r, a) /\ ~HasLocked(r, b) => a < b
      <4>1. \A a, b \in Affected(r) : HasLocked(r, a) /\ ~HasLocked(r, b) => a < b
        BY <2>1, <2>6 DEF EditSound
      <4> QED BY <2>3, <2>6, <4>1
    <3>4. (r.at = "commit") = (\A a \in Affected(r)' : HasLocked(r, a))
      <4>1. (r.at = "commit") = (\A a \in Affected(r) : HasLocked(r, a))
        BY <2>1, <2>6 DEF EditSound
      <4> QED BY <2>3, <2>6, <4>1
    <3> QED BY <2>4, <2>6, <3>1, <3>2, <3>3, <3>4 DEF EditSound, HasLocked
  <2> QED BY <2>5, <2>6
<1>4. r.op = "archive" => ArchiveSound(r)'
  BY <1>1 DEF Sound, ArchiveSound
<1> QED BY <1>2, <1>3, <1>4 DEF Sound

\* What a commit has to show.
LEMMA CommitKeeps ==
  ASSUME IInv, NEW c \in Client, Ends(c),
         account' \in [Account -> [balance : Int, archived : BOOLEAN]], txn' \in Seq(Entry),
         Rows \subseteq Rows',
         \A t \in Rows : txn'[t] = txn[t] \/ <<"txn", t>> \in req[c].locks,
         \A k \in Key : key'[k] = key[k] \/ <<"key", k>> \in req[c].locks,
         (key \in [Key -> {<< >>} \cup [body : Body, txn : Rows]])', (replies \in [Key -> SUBSET Nat])',
         BalancesAddUp', KeysSound'
  PROVE  IInv'
<1>1. /\ req' = [req EXCEPT ![c] = None]
      /\ \A d \in Client : req'[d] = IF d = c THEN None ELSE req[d]
  BY DEF Ends, IInv, Shapes
<1>2. TypeOK'
  <2>1. \A d \in Client : req'[d].at \in {"none", "claim", "lock", "find", "accounts", "commit"}
    BY <1>1 DEF IInv, TypeOK, None
  <2> QED BY <2>1 DEF TypeOK, Entry
<1>3. Shapes'
  <2>1. req' \in [Client -> Requests]
    BY <1>1, NoneSound DEF IInv, Shapes, Requests
  <2> QED BY <2>1 DEF Shapes, Requests
<1>4. ASSUME NEW d \in Client
      PROVE  Sound(req[d])'
  <2>1. CASE d = c
    BY <1>1, <2>1 DEF Sound, None
  <2>2. CASE d # c
    <3>1. \A r : r = req[d] => Sound(r)'
      BY <2>2, OthersSound
    <3>2. req'[d] = req[d]
      BY <1>1, <2>2
    <3> QED BY <3>1, <3>2 DEF Sound, CreateSound, EditSound, ArchiveSound, Affected, HasLocked
  <2> QED BY <2>1, <2>2
<1>5. Exclusive'
  BY <1>1, NoneSound DEF IInv, Exclusive
<1> QED BY <1>2, <1>3, <1>4, <1>5 DEF IInv


\* A transaction is created: its row is new, and so is the key's.
LEMMA CreateCommits ==
  ASSUME IInv, NEW c \in Client, CommitCreate(c)
  PROVE  IInv'
<1> DEFINE r == req[c]
           a == r.body.account
           n == Len(txn) + 1
           e == [account |-> a, amount |-> r.body.amount, deleted |-> FALSE]
           balance == account[a].balance + ManualBalanceDelta(a, r.body.amount)
<1>1. /\ r.at = "commit" /\ ~account[a].archived /\ Normalized(a, balance) /\ Ends(c)
      /\ account' = [account EXCEPT ![a].balance = balance]
      /\ txn' = Append(txn, e)
      /\ key' = [key EXCEPT ![r.key] = [body |-> r.body, txn |-> n]]
      /\ replies' = [replies EXCEPT ![r.key] = replies[r.key] \cup {n}]
  BY DEF CommitCreate, IInv, Shapes
<1>2. r.key \in Key /\ r.body \in Body /\ a \in Account /\ r.body.amount \in Amount
      /\ <<"key", r.key>> \in r.locks /\ key[r.key] = << >>
  <2>1. r \in Creates /\ CreateSound(r)
    BY ReqIs DEF CommitCreate, IInv, Sound
  <2> HIDE DEF r
  <2> QED BY <1>1, <2>1 DEF CreateSound, Creates, Body
<1>3. TypeOK /\ Shapes /\ KeysSound /\ BalancesAddUp
  BY DEF IInv
<1>4. account \in [Account -> [balance : Int, archived : BOOLEAN]] /\ account[a].balance \in Int
  BY <1>2, <1>3 DEF TypeOK
<1>5. e \in Entry /\ txn \in Seq(Entry)
  <2>1. txn \in Seq(Entry)
    BY <1>3 DEF Entry, TypeOK
  <2>2. \A b \in Account, amount \in Amount :
          [account |-> b, amount |-> amount, deleted |-> FALSE] \in Entry
    BY DEF Entry
  <2> QED BY <1>2, <2>1, <2>2
<1>6. balance \in Int
  <2>1. ManualBalanceDelta(a, r.body.amount) \in Int
    BY <1>2, <1>3, LiveIs
  <2>2. \A x, y \in Int : x + y \in Int
    OBVIOUS
  <2> QED BY <1>4, <2>1, <2>2
<1> HIDE DEF e, balance, r
<1>7. /\ txn' \in Seq(Entry) /\ Rows' = Rows \cup {n} /\ n \notin Rows /\ n \in Nat
      /\ \A t \in Rows : txn'[t] = txn[t]
      /\ txn'[n] = e
  <2>1. Rows = 1..Len(txn) /\ Len(txn) \in Nat
    BY <1>3, RowsAre
  <2>2. /\ txn' \in Seq(Entry) /\ Len(txn') = n /\ txn'[n] = e
        /\ \A t \in 1..Len(txn) : txn'[t] = txn[t]
    BY <1>1, <1>5, AppendProperties
  <2>3. Rows' = 1..n
    BY <2>2, LenProperties DEF Rows
  <2> QED BY <2>1, <2>2, <2>3
<1>8. \A b \in Account : account'[b] = IF b = a THEN [account[a] EXCEPT !.balance = balance] ELSE account[b]
  BY <1>1, <1>4
<1>9. account' \in [Account -> [balance : Int, archived : BOOLEAN]]
  <2>1. [account[a] EXCEPT !.balance = balance] \in [balance : Int, archived : BOOLEAN]
    BY <1>2, <1>4, <1>6
  <2>2. account' = [account EXCEPT ![a] = [account[a] EXCEPT !.balance = balance]]
    BY <1>1, <1>4
  <2> QED BY <1>4, <2>1, <2>2
<1>10. BalancesAddUp'
  <2> SUFFICES ASSUME NEW b \in Account
               PROVE  /\ account'[b].balance = SumFunctionOnSet(Deltas(b), Live(b))'
                      /\ Normalized(b, account'[b].balance)
    BY DEF BalancesAddUp, Normalized
  <2>1. account[b].balance = SumFunctionOnSet(Deltas(b), Live(b)) /\ account[b].balance \in Int
        /\ Normalized(b, account[b].balance)
    BY <1>3, <1>4 DEF BalancesAddUp
  <2>2. account'[b].balance = IF b = a THEN balance ELSE account[b].balance
    BY <1>4, <1>8
  <2> DEFINE S == Live(b)
             f == Deltas(b)
             T == Live(b)'
             h == Deltas(b)'
  <2>3. IsFiniteSet(S) /\ n \notin S /\ \A t \in S : f[t] \in Int
    BY <1>3, <1>7, LiveIs
  <2>4. T = IF b = a THEN S \cup {n} ELSE S
    <3>1. T = {t \in Rows' : txn'[t].account = b /\ ~txn'[t].deleted}
      BY DEF Live
    <3>2. e.account = a /\ ~e.deleted
      BY DEF e
    <3> HIDE DEF n
    <3> QED BY <1>7, <3>1, <3>2 DEF Live
  <2>5. /\ \A t \in Rows : h[t] = f[t]
        /\ h[n] = ManualBalanceDelta(b, r.body.amount)
    <3>1. h = [t \in Rows' |-> ManualBalanceDelta(b, txn'[t].amount)]
      BY DEF Deltas, ManualBalanceDelta
    <3>2. e.amount = r.body.amount
      BY DEF e
    <3> HIDE DEF h, n
    <3> QED BY <1>7, <3>1, <3>2 DEF Deltas
  <2>6. h[n] \in Int /\ S \subseteq Rows
    BY <1>2, <1>3, <2>5, LiveIs
  <2> HIDE DEF S, f, T, h, n
  <2>7. IsFiniteSet(T)
    BY <2>3, <2>4, FS_AddElement
  <2>8. \A t \in T : h[t] \in Int
    BY <2>3, <2>4, <2>5, <2>6
  <2>9. S \ {n} = T \ {n} /\ \A t \in S \ {n} : f[t] = h[t]
    BY <2>3, <2>4, <2>5, <2>6
  <2>10. SumFunctionOnSet(h, T) = SumFunctionOnSet(f, S)
           - (IF n \in S THEN f[n] ELSE 0) + (IF n \in T THEN h[n] ELSE 0)
    BY <2>3, <2>7, <2>8, <2>9, SumMoves
  <2>11. n \in T <=> b = a
    BY <2>3, <2>4
  <2>12. SumFunctionOnSet(f, S) = account[b].balance
    BY <2>1 DEF S, f
  <2>13. SumFunctionOnSet(h, T) = IF b = a THEN balance ELSE account[b].balance
    <3>1. CASE b = a
      BY <2>1, <2>3, <2>5, <2>6, <2>10, <2>11, <2>12, <3>1 DEF balance
    <3>2. CASE b # a
      BY <2>1, <2>3, <2>10, <2>11, <2>12, <3>2
    <3> QED BY <3>1, <3>2
  <2>14. Normalized(b, account'[b].balance)
    BY <1>1, <2>1, <2>2
  <2> QED BY <2>2, <2>13, <2>14 DEF T, h
<1>11. (key \in [Key -> {<< >>} \cup [body : Body, txn : Rows]])' /\ (replies \in [Key -> SUBSET Nat])'
  <2>1. [body |-> r.body, txn |-> n] \in [body : Body, txn : Rows']
    BY <1>2, <1>7
  <2>2. key \in [Key -> {<< >>} \cup [body : Body, txn : Rows']]
    <3> HIDE DEF n
    <3> QED BY <1>3, <1>7 DEF Shapes
  <2>3. key' \in [Key -> {<< >>} \cup [body : Body, txn : Rows']]
    <3> HIDE DEF n
    <3> QED BY <1>1, <1>2, <2>1, <2>2
  <2>4. replies' \in [Key -> SUBSET Nat]
    <3> HIDE DEF n
    <3> QED BY <1>1, <1>2, <1>3, <1>7 DEF Shapes
  <2> QED BY <2>3, <2>4
<1>12. KeysSound'
  <2> DEFINE v == [body |-> r.body, txn |-> n]
  <2>1. \A k \in Key : /\ key'[k] = IF k = r.key THEN v ELSE key[k]
                       /\ replies'[k] = IF k = r.key THEN replies[k] \cup {n} ELSE replies[k]
    BY <1>1, <1>3 DEF Shapes
  <2>2. v # << >> /\ v.txn = n
    <3>1. DOMAIN v = {"body", "txn"} /\ DOMAIN << >> = {}
      OBVIOUS
    <3> QED BY <3>1
  <2>3. replies[r.key] = {}
    BY <1>2, <1>3 DEF KeysSound
  <2> HIDE DEF v, n
  <2>4. \A k \in Key : replies'[k] = IF key'[k] = << >> THEN {} ELSE {key'[k].txn}
    BY <1>3, <2>1, <2>2, <2>3 DEF KeysSound
  <2>5. UNION {replies'[k] : k \in Key} = Rows'
    <3> DEFINE U == UNION {replies'[k] : k \in Key}
               W == UNION {replies[k] : k \in Key}
    <3>1. \A x : (\E k \in Key : x \in replies'[k]) <=> (\E k \in Key : x \in replies[k]) \/ x = n
      BY <1>2, <2>1
    <3>2. \A x : /\ x \in U <=> \E k \in Key : x \in replies'[k]
                 /\ x \in W <=> \E k \in Key : x \in replies[k]
      OBVIOUS
    <3>3. W = Rows
      BY <1>3 DEF KeysSound
    <3>4. Rows' = Rows \cup {n}
      BY <1>7
    <3> HIDE DEF U, W
    <3>5. ASSUME NEW x
          PROVE  x \in U <=> x \in Rows \/ x = n
      <4>1. x \in U <=> (\E k \in Key : x \in replies[k]) \/ x = n
        BY <3>1, <3>2
      <4>2. x \in Rows <=> \E k \in Key : x \in replies[k]
        BY <3>2, <3>3
      <4> QED BY <4>1, <4>2
    <3>6. U = Rows'
      BY <3>4, <3>5
    <3> QED BY <3>6 DEF U
  <2> QED BY ONLY <2>4, <2>5 DEF KeysSound
<1>13. \A k \in Key : key'[k] = key[k] \/ <<"key", k>> \in req[c].locks
  BY <1>1, <1>2, <1>3 DEF Shapes, r
<1> QED BY <1>1, <1>7, <1>9, <1>10, <1>11, <1>12, <1>13, CommitKeeps

\* A transaction is rewritten: every balance that adds up still does once the
\* old amount is taken back and the new one applied.
LEMMA RowMoves ==
  ASSUME TypeOK, NEW t \in Rows, NEW e \in Entry, txn' = [txn EXCEPT ![t] = e], NEW b \in Account
  PROVE  SumFunctionOnSet(Deltas(b), Live(b))' =
           SumFunctionOnSet(Deltas(b), Live(b))
             - (IF txn[t].account = b /\ ~txn[t].deleted THEN ManualBalanceDelta(b, txn[t].amount) ELSE 0)
             + (IF e.account = b /\ ~e.deleted THEN ManualBalanceDelta(b, e.amount) ELSE 0)
<1>1. Rows' = Rows /\ \A u \in Rows : txn'[u] = IF u = t THEN e ELSE txn[u]
  BY DEF Rows
<1> DEFINE S == Live(b)
           f == Deltas(b)
           T == Live(b)'
           h == Deltas(b)'
<1>2. IsFiniteSet(S) /\ S \subseteq Rows /\ (\A u \in S : f[u] \in Int)
      /\ \A amount \in Amount : ManualBalanceDelta(b, amount) \in Int
  BY LiveIs
<1>3. T = {u \in Rows : txn'[u].account = b /\ ~txn'[u].deleted}
  BY <1>1 DEF Live
<1>4. IsFiniteSet(T) /\ T \subseteq Rows
  <2>1. T \in SUBSET Rows
    BY <1>3
  <2> QED BY <2>1, RowsAre, FS_Subset
<1>5. h = [u \in Rows |-> ManualBalanceDelta(b, txn'[u].amount)]
  BY <1>1 DEF Deltas, ManualBalanceDelta
<1>6. (t \in S <=> txn[t].account = b /\ ~txn[t].deleted) /\ f[t] = ManualBalanceDelta(b, txn[t].amount)
  BY DEF Live, Deltas
<1>7. (t \in T <=> e.account = b /\ ~e.deleted) /\ h[t] = ManualBalanceDelta(b, e.amount)
  <2> HIDE DEF T, h
  <2> QED BY <1>1, <1>3, <1>5
<1>8. h[t] \in Int
  BY <1>2, <1>7 DEF Entry
<1>9. S \ {t} = T \ {t} /\ \A u \in S \ {t} : f[u] = h[u]
  <2>1. \A u \in Rows \ {t} : (u \in S <=> u \in T) /\ f[u] = h[u]
    <3>1. \A u \in Rows \ {t} : txn'[u] = txn[u]
      BY <1>1
    <3>2. \A u \in Rows \ {t} : u \in T <=> txn[u].account = b /\ ~txn[u].deleted
      <4> HIDE DEF T
      <4> QED BY <1>3, <3>1
    <3>3. \A u \in Rows \ {t} : h[u] = ManualBalanceDelta(b, txn[u].amount)
      <4> HIDE DEF h
      <4> QED BY <1>5, <3>1
    <3> QED BY <3>2, <3>3 DEF Live, Deltas
  <2> HIDE DEF S, f, T, h
  <2> QED BY <1>2, <1>4, <2>1
<1> HIDE DEF S, f, T, h
<1>10. \A u \in T : h[u] \in Int
  BY <1>2, <1>8, <1>9
<1>11. SumFunctionOnSet(h, T) = SumFunctionOnSet(f, S)
         - (IF t \in S THEN f[t] ELSE 0) + (IF t \in T THEN h[t] ELSE 0)
  BY <1>2, <1>4, <1>9, <1>10, SumMoves
<1> QED BY <1>6, <1>7, <1>11 DEF S, f, T, h

\* What an edit leaves on an account it touches.
LEMMA AdjustedIs ==
  ASSUME TypeOK, NEW r \in Patches \cup Deletes, r.txn \in Rows, NEW b \in Affected(r)
  PROVE  /\ Adjusted(r)[b] = account[b].balance
              - (IF txn[r.txn].account = b THEN ManualBalanceDelta(b, txn[r.txn].amount) ELSE 0)
              + (IF r.op = "patch" /\ r.body.account = b THEN ManualBalanceDelta(b, r.body.amount) ELSE 0)
         /\ Adjusted(r)[b] \in Int
<1>1. b \in Account /\ account[b].balance \in Int
  BY AffectedIs DEF TypeOK
<1>2. txn[r.txn].amount \in Amount
  BY RowsAre DEF Entry
<1>3. r.op = "patch" => r.body.amount \in Amount
  BY DEF Patches, Deletes, Body
<1>4. \A amount \in Amount : ManualBalanceDelta(b, amount) \in Int
  BY LiveIs
<1> DEFINE old == IF txn[r.txn].account = b THEN ManualBalanceDelta(b, txn[r.txn].amount) ELSE 0
           new == IF r.op = "patch" /\ r.body.account = b THEN ManualBalanceDelta(b, r.body.amount) ELSE 0
<1>5. old \in Int /\ new \in Int
  BY <1>2, <1>3, <1>4
<1>6. Adjusted(r)[b] = IF r.op = "patch" /\ b = r.body.account
                       THEN account[b].balance - old + ManualBalanceDelta(b, r.body.amount)
                       ELSE account[b].balance - old
  BY DEF Adjusted
<1>7. Adjusted(r)[b] = account[b].balance - old + new
  <2> HIDE DEF old
  <2> QED BY <1>1, <1>5, <1>6
<1>8. account[b].balance - old + new \in Int
  <2> HIDE DEF old, new
  <2> QED BY <1>1, <1>5
<1> QED BY <1>7, <1>8

\* A transaction is changed or deleted: it is locked, not deleted before, and
\* so are the accounts whose balances move.
LEMMA EditCommits ==
  ASSUME IInv, NEW c \in Client, CommitEdit(c)
  PROVE  IInv'
<1> DEFINE r == req[c]
           t == r.txn
           e == IF r.op = "patch" THEN [account |-> r.body.account, amount |-> r.body.amount,
                                        deleted |-> FALSE]
                                  ELSE [txn[t] EXCEPT !.deleted = TRUE]
<1>1. /\ r.at = "commit" /\ Accepted(r) /\ Ends(c)
      /\ account' = [a \in Account |-> IF a \in Affected(r)
                                       THEN [account[a] EXCEPT !.balance = Adjusted(r)[a]]
                                       ELSE account[a]]
      /\ UNCHANGED <<key, replies>>
  BY DEF CommitEdit
<1>2. TypeOK /\ Shapes /\ KeysSound /\ BalancesAddUp
  BY DEF IInv
<1>3. txn' = [txn EXCEPT ![t] = e]
  BY DEF CommitEdit
<1>4. r \in Patches \cup Deletes /\ EditSound(r)
  BY ReqIs DEF CommitEdit, IInv, Sound
<1>5. t \in Rows /\ ~txn[t].deleted /\ <<"txn", t>> \in r.locks
  <2> HIDE DEF r
  <2> QED BY <1>1, <1>4 DEF EditSound
<1>6. txn[t] \in Entry
  BY <1>2, <1>5, RowsAre
<1>7. /\ e \in Entry
      /\ \A b : e.account = b /\ ~e.deleted <=> r.op = "patch" /\ r.body.account = b
      /\ r.op = "patch" => e.amount = r.body.amount
  <2>1. r.op = "patch" => r.body \in Body
    BY <1>4 DEF Patches, Deletes
  <2>2. CASE r.op = "patch"
    BY <2>1, <2>2 DEF Entry, Body
  <2>3. CASE r.op # "patch"
    BY <1>6, <2>3 DEF Entry
  <2> QED BY <2>2, <2>3
<1> HIDE DEF e, r
<1>8. Rows' = Rows /\ \A u \in Rows : txn'[u] = IF u = t THEN e ELSE txn[u]
  BY <1>3 DEF Rows
<1>9. txn' \in Seq(Entry)
  <2>1. txn \in Seq(Entry)
    BY <1>2 DEF TypeOK, Entry
  <2>2. t \in 1..Len(txn)
    BY <1>2, <1>5, RowsAre
  <2> QED BY <1>3, <1>7, <2>1, <2>2, ExceptSeq
<1>10. account \in [Account -> [balance : Int, archived : BOOLEAN]]
  BY <1>2 DEF TypeOK
<1>11. \A b \in Affected(r) : Adjusted(r)[b] \in Int
  BY <1>2, <1>4, <1>5, AdjustedIs
<1>12. account' \in [Account -> [balance : Int, archived : BOOLEAN]]
  <2>1. \A b \in Affected(r), n \in Int : b \in Account =>
          [account[b] EXCEPT !.balance = n] \in [balance : Int, archived : BOOLEAN]
    BY <1>10
  <2>2. \A b \in Account : account'[b] \in [balance : Int, archived : BOOLEAN]
    BY <1>1, <1>10, <1>11, <2>1
  <2> QED BY <1>1, <2>2
<1>13. ASSUME NEW b \in Account
       PROVE  /\ account'[b].balance = SumFunctionOnSet(Deltas(b), Live(b))'
              /\ Normalized(b, account'[b].balance)
  <2>1. account[b].balance = SumFunctionOnSet(Deltas(b), Live(b)) /\ account[b].balance \in Int
        /\ Normalized(b, account[b].balance)
    BY <1>2, <1>10 DEF BalancesAddUp
  <2> DEFINE sum == SumFunctionOnSet(Deltas(b), Live(b))'
             old == IF txn[t].account = b THEN ManualBalanceDelta(b, txn[t].amount) ELSE 0
             new == IF r.op = "patch" /\ r.body.account = b THEN ManualBalanceDelta(b, r.body.amount) ELSE 0
  <2>2. sum = account[b].balance - old + new
    <3>1. SumFunctionOnSet(Deltas(b), Live(b))' =
            SumFunctionOnSet(Deltas(b), Live(b))
              - (IF txn[t].account = b /\ ~txn[t].deleted THEN ManualBalanceDelta(b, txn[t].amount) ELSE 0)
              + (IF e.account = b /\ ~e.deleted THEN ManualBalanceDelta(b, e.amount) ELSE 0)
      BY <1>2, <1>3, <1>5, <1>7, RowMoves
    <3>2. (IF txn[t].account = b /\ ~txn[t].deleted THEN ManualBalanceDelta(b, txn[t].amount) ELSE 0) = old
      BY <1>5
    <3>3. (IF e.account = b /\ ~e.deleted THEN ManualBalanceDelta(b, e.amount) ELSE 0) = new
      BY <1>7
    <3> HIDE DEF old, new, sum
    <3> QED BY <2>1, <3>1, <3>2, <3>3 DEF sum
  <2>3. CASE b \in Affected(r)
    <3>1. Adjusted(r)[b] = account[b].balance - old + new
      BY <1>2, <1>4, <1>5, <2>3, AdjustedIs
    <3>2. account'[b].balance = Adjusted(r)[b]
      BY <1>1, <1>10, <2>3
    <3>3. Normalized(b, Adjusted(r)[b])
      BY <1>1, <2>3 DEF Accepted
    <3> HIDE DEF old, new
    <3> QED BY <2>2, <3>1, <3>2, <3>3
  <2>4. CASE b \notin Affected(r)
    <3>1. account'[b] = account[b]
      BY <1>1, <2>4
    <3>2. old = 0 /\ new = 0
      BY <2>4 DEF Affected
    <3> HIDE DEF old, new
    <3> QED BY <2>1, <2>2, <3>1, <3>2
  <2> QED BY <2>3, <2>4
<1>14. BalancesAddUp'
  BY <1>13 DEF BalancesAddUp, Normalized
<1>15. KeysSound'
  <2>1. key' = key /\ replies' = replies /\ Rows' = Rows
    BY <1>1, <1>8
  <2> QED BY ONLY <1>2, <2>1 DEF KeysSound
<1>16. (key \in [Key -> {<< >>} \cup [body : Body, txn : Rows]])' /\ (replies \in [Key -> SUBSET Nat])'
  BY <1>1, <1>2, <1>8 DEF Shapes
<1>17. \A u \in Rows : txn'[u] = txn[u] \/ <<"txn", u>> \in req[c].locks
  BY <1>5, <1>8 DEF r
<1> QED BY <1>1, <1>8, <1>9, <1>12, <1>14, <1>15, <1>16, <1>17, CommitKeeps

\* Archiving moves no balance.
LEMMA UpdateCommits ==
  ASSUME IInv, NEW c \in Client, CommitUpdate(c)
  PROVE  IInv'
<1>1. req[c].account \in Account
  BY ReqIs DEF CommitUpdate, IInv, Archives
<1>2. account \in [Account -> [balance : Int, archived : BOOLEAN]] /\ txn \in Seq(Entry)
  BY DEF IInv, TypeOK, Entry
<1>3. account' = [account EXCEPT ![req[c].account] =
                    [account[req[c].account] EXCEPT !.archived = ~account[req[c].account].archived]]
  BY DEF CommitUpdate
<1>4. account' \in [Account -> [balance : Int, archived : BOOLEAN]]
      /\ \A b \in Account : account'[b].balance = account[b].balance
  <2>1. \A x \in [balance : Int, archived : BOOLEAN] :
          /\ [x EXCEPT !.archived = ~x.archived] \in [balance : Int, archived : BOOLEAN]
          /\ [x EXCEPT !.archived = ~x.archived].balance = x.balance
    OBVIOUS
  <2> QED BY <1>1, <1>2, <1>3, <2>1
<1>5. UNCHANGED <<txn, key, replies>> /\ Ends(c)
  BY DEF CommitUpdate
<1>6. BalancesAddUp'
  <2>1. \A a : Live(a)' = Live(a) /\ Deltas(a)' = Deltas(a)
    BY <1>5 DEF Live, Deltas, Rows
  <2> QED BY <1>4, <2>1 DEF IInv, BalancesAddUp, Normalized
<1>7. KeysSound' /\ Rows' = Rows
  BY <1>5 DEF KeysSound, IInv, Rows
<1>8. (key \in [Key -> {<< >>} \cup [body : Body, txn : Rows]])' /\ (replies \in [Key -> SUBSET Nat])'
  BY <1>5, <1>7 DEF Shapes, IInv
<1> QED BY <1>2, <1>4, <1>5, <1>6, <1>7, <1>8, CommitKeeps

-----------------------------------------------------------------------------
(* The invariant. *)

\* Without transactions every balance is the empty sum.
LEMMA InitSafe == Init => IInv
<1> SUFFICES ASSUME Init PROVE IInv
  OBVIOUS
<1>1. TypeOK
  <2>1. << >> \in Seq(Entry)
    BY EmptySeq
  <2> QED BY <2>1 DEF Init, TypeOK, Entry, None
<1>2. Rows = {}
  BY DEF Init, Rows
<1>3. Shapes
  BY DEF Init, Shapes
<1>4. BalancesAddUp
  <2>1. \A a : Live(a) = {}
    BY <1>2 DEF Live
  <2>2. \A a : SumFunctionOnSet(Deltas(a), Live(a)) = 0
    <3> HIDE DEF Init
    <3> QED BY <2>1, SumEmpty
  <2> QED BY <2>2 DEF Init, BalancesAddUp, Normalized
<1>5. \A c \in Client : Sound(req[c]) /\ req[c].locks = {}
  BY NoneSound DEF Init
<1>6. KeysSound
  BY <1>2 DEF Init, KeysSound
<1> QED BY <1>1, <1>3, <1>4, <1>5, <1>6 DEF IInv, Exclusive

\* One step per action.
LEMMA NextSafe == IInv /\ [Next]_vars => IInv'
<1> SUFFICES ASSUME IInv, [Next]_vars PROVE IInv'
  OBVIOUS
<1>1. ASSUME NEW c \in Client,
             \/ \E k \in Key, body \in Body : Create(c, k, body)
             \/ \E t \in Rows : Delete(c, t) \/ \E body \in Body : Patch(c, t, body)
             \/ \E a \in Account : UpdateAccount(c, a)
      PROVE  IInv'
  BY <1>1, StartsKeep
<1>2. ASSUME NEW c \in Client, ClaimIdempotencyKey(c) \/ LockAccountOfCreate(c)
      PROVE  IInv'
  BY <1>2, CreateLocks
<1>3. ASSUME NEW c \in Client, Replay(c)
      PROVE  IInv'
  BY <1>3, ReplayKeeps
<1>4. ASSUME NEW c \in Client, CommitCreate(c)
      PROVE  IInv'
  BY <1>4, CreateCommits
<1>5. ASSUME NEW c \in Client, FindByIdForUpdate(c)
      PROVE  IInv'
  BY <1>5, FindKeeps
<1>6. ASSUME NEW c \in Client, LockAccount(c)
      PROVE  IInv'
  BY <1>6, AccountKeeps
<1>7. ASSUME NEW c \in Client, CommitEdit(c)
      PROVE  IInv'
  BY <1>7, EditCommits
<1>8. ASSUME NEW c \in Client, LockAccountOfUpdate(c)
      PROVE  IInv'
  BY <1>8, ArchiveLocks
<1>9. ASSUME NEW c \in Client, CommitUpdate(c)
      PROVE  IInv'
  BY <1>9, UpdateCommits
<1>10. ASSUME NEW c \in Client, Abort(c)
       PROVE  IInv'
  BY <1>10, EndKeeps DEF Abort, Rollback
<1>11. ASSUME UNCHANGED vars
       PROVE  IInv'
  <2>1. UNCHANGED <<account, txn, key, req, replies>>
    BY <1>11 DEF vars
  <2>2. \A a : Live(a)' = Live(a) /\ Deltas(a)' = Deltas(a)
    BY <2>1 DEF Live, Deltas, Rows
  <2>3. BalancesAddUp' /\ KeysSound' /\ Exclusive' /\ TypeOK' /\ Shapes'
    BY <2>1, <2>2 DEF IInv, BalancesAddUp, KeysSound, Exclusive, TypeOK, Shapes, Rows
  <2>4. \A c \in Client : Sound(req[c])'
    BY <2>1 DEF IInv, Sound, CreateSound, EditSound, ArchiveSound, Affected, HasLocked, Rows
  <2> QED BY <2>3, <2>4 DEF IInv
<1> QED BY <1>1, <1>2, <1>3, <1>4, <1>5, <1>6, <1>7, <1>8, <1>9, <1>10, <1>11 DEF Next

\* The requests, their locks, the keys and the sums keep together, whichever
\* requests run at once and wherever one is cut off.
THEOREM InvariantHolds == Spec => []IInv
BY InitSafe, NextSafe, PTL DEF Spec

-----------------------------------------------------------------------------
(* What follows. *)

\* Every key has at most one transaction, and every transaction a key.
LEMMA KeysOnce == IInv => OncePerKey
<1> SUFFICES ASSUME IInv PROVE OncePerKey
  OBVIOUS
<1>1. \A k \in Key : replies[k] = {} \/ \E x : replies[k] = {x}
  BY DEF IInv, KeysSound
<1>2. ASSUME NEW k \in Key
      PROVE  Cardinality(replies[k]) <= 1
  <2>1. Cardinality({}) = 0
    BY FS_EmptySet
  <2>2. \A x : Cardinality({x}) = 1
    BY FS_Singleton
  <2>3. CASE replies[k] = {}
    BY <2>1, <2>3
  <2>4. CASE \E x : replies[k] = {x}
    BY <2>2, <2>4
  <2> QED BY <1>1, <2>3, <2>4
<1>3. UNION {replies[k] : k \in Key} = 1..Len(txn) /\ Len(txn) \in Nat
  BY RowsAre DEF IInv, KeysSound
<1>4. Cardinality(1..Len(txn)) = Len(txn)
  BY <1>3, FS_Interval
<1> QED BY <1>2, <1>3, <1>4 DEF OncePerKey

\* A request that waits holds nothing, or only its key, or edits.
LEMMA WaitingHolds ==
  ASSUME IInv, NEW c \in Client, NEW d \in Client, WaitsFor(c, d)
  PROVE  /\ req[d].locks # {}
         /\ \/ req[c].locks = {}
            \/ req[c].at = "lock" /\ req[c].locks = {<<"key", req[c].key>>}
            \/ req[c].at = "accounts"
<1>1. Sound(req[c])
  BY DEF IInv
<1>2. CASE req[c].at = "claim"
  BY <1>1, <1>2, ReqIs DEF IInv, Sound, CreateSound, WaitsFor
<1>3. CASE req[c].at = "find"
  BY <1>1, <1>3, ReqIs DEF IInv, Sound, EditSound, WaitsFor
<1>4. CASE req[c].at = "lock" /\ req[c].op = "create"
  BY <1>1, <1>4 DEF Sound, CreateSound, WaitsFor
<1>5. CASE req[c].at = "lock" /\ req[c].op = "archive"
  BY <1>1, <1>5 DEF Sound, ArchiveSound, WaitsFor
<1> QED BY <1>2, <1>3, <1>4, <1>5 DEF WaitsFor

\* An edit waits for an account behind every account it holds.
LEMMA WaitsAhead ==
  ASSUME IInv, NEW c \in Client, req[c].at = "accounts", NEW a \in Account,
         <<"account", a>> \in req[c].locks
  PROVE  a < NextAccount(c)
<1>1. EditSound(req[c])
  BY ReqIs DEF IInv, Sound
<1>2. a \in Affected(req[c]) /\ HasLocked(req[c], a)
  BY <1>1 DEF EditSound, HasLocked
<1>3. NextAccount(c) \in Affected(req[c]) /\ ~HasLocked(req[c], NextAccount(c))
  BY NextAccountIs DEF Unlocked, HasLocked
<1> QED BY <1>1, <1>2, <1>3 DEF EditSound

\* The account a request waits for; behind all, the key or the transaction.
WaitsAt(c) ==
  CASE req[c].at = "accounts" -> NextAccount(c)
    [] req[c].at = "lock" -> IF req[c].op = "create" THEN req[c].body.account ELSE req[c].account
    [] OTHER -> -1

\* A request waits ahead of those that wait for it.
WaitsAreOrdered ==
  \A c, d, e \in Client : WaitsFor(c, d) /\ WaitsFor(d, e) =>
    WaitsAt(c) \in Int /\ WaitsAt(d) \in Int /\ WaitsAt(c) < WaitsAt(d)

\* The locks are taken in the order key, transaction, accounts by their ids.
LEMMA WaitsOrdered == IInv => WaitsAreOrdered
<1> SUFFICES ASSUME IInv, NEW c \in Client, NEW d \in Client, NEW e \in Client,
                    WaitsFor(c, d), WaitsFor(d, e)
             PROVE  WaitsAt(c) \in Int /\ WaitsAt(d) \in Int /\ WaitsAt(c) < WaitsAt(d)
  BY DEF WaitsAreOrdered
<1>1. req[d].locks # {}
  BY WaitingHolds
<1>2. \A a \in Account : a \in Nat
  BY LedgerAssumption
<1>3. CASE req[d].at = "lock"
  <2>1. req[d].locks = {<<"key", req[d].key>>}
    BY <1>1, <1>3, WaitingHolds
  <2>2. req[d].op = "create"
    BY <1>1, <1>3 DEF WaitsFor, IInv, Sound, ArchiveSound
  <2>3. WaitsAt(d) \in Nat
    BY <1>2, <1>3, <2>2, ReqIs DEF WaitsAt, IInv, Creates, Body
  <2>4. req[c].at = "claim"
    BY <2>1 DEF WaitsFor
  <2>5. WaitsAt(c) = -1
    BY <2>4 DEF WaitsAt
  <2> QED BY <2>3, <2>5
<1>4. CASE req[d].at = "accounts"
  <2>1. WaitsAt(d) = NextAccount(d) /\ NextAccount(d) \in Nat
    BY <1>2, <1>4, NextAccountIs DEF WaitsAt
  <2>2. CASE req[c].at \in {"claim", "find"}
    <3>1. WaitsAt(c) = -1
      BY <2>2 DEF WaitsAt
    <3> QED BY <2>1, <3>1
  <2>3. CASE req[c].at \in {"lock", "accounts"}
    <3>1. <<"account", WaitsAt(c)>> \in req[d].locks
      BY <2>3 DEF WaitsFor, WaitsAt
    <3>2. CASE req[c].at = "lock"
      <4>1. WaitsAt(c) \in Account
        BY <3>2, ReqIs DEF WaitsFor, WaitsAt, IInv, Creates, Archives, Body
      <4> QED BY <1>2, <1>4, <2>1, <3>1, <4>1, WaitsAhead
    <3>3. CASE req[c].at = "accounts"
      <4>1. WaitsAt(c) \in Account
        BY <3>3, NextAccountIs DEF WaitsAt
      <4> QED BY <1>2, <1>4, <2>1, <3>1, <4>1, WaitsAhead
    <3> QED BY <2>3, <3>2, <3>3
  <2> QED BY <2>2, <2>3 DEF WaitsFor
<1> QED BY <1>1, <1>3, <1>4, WaitingHolds

\* However many requests wait in a row, each waits for a later account than
\* the one that waits for it, so no circle of any length closes.
THEOREM NoCircleOfAnyLength == Spec => []WaitsAreOrdered
BY WaitsOrdered, InvariantHolds, PTL

\* In particular of two.
LEMMA NoCycle == IInv => NoLockCycle
<1> SUFFICES ASSUME IInv, NEW c \in Client, NEW d \in Client, WaitsFor(c, d), WaitsFor(d, c)
             PROVE  FALSE
  BY DEF NoLockCycle
<1>1. WaitsAt(c) < WaitsAt(d) /\ WaitsAt(d) < WaitsAt(c) /\ WaitsAt(c) \in Int /\ WaitsAt(d) \in Int
  BY WaitsOrdered DEF WaitsAreOrdered
<1> QED BY <1>1

-----------------------------------------------------------------------------
(* The refinement: a commit is a step of AtomicLedger, and nothing else is. *)

\* Both modules mean the same sum.
LEMMA SumsAgree == \A f, S : Atomic!SumFunctionOnSet(f, S) = SumFunctionOnSet(f, S)
BY DEF SumFunctionOnSet, FoldFunctionOnSet, MapThenFoldSet,
       Atomic!SumFunctionOnSet, Atomic!FoldFunctionOnSet, Atomic!MapThenFoldSet

\* A commit books on accounts that are not archived, and what it leaves is the
\* balance of a state that is sound.
LEMMA BooksOn ==
  ASSUME IInv', NEW A \in SUBSET Account,
         \A a \in A : ~account[a].archived,
         \A a \in Account : account'[a].archived = account[a].archived
  PROVE  Atomic!Books(A)
<1>1. ASSUME NEW a \in A \cap Card
      PROVE  Atomic!Balance(a)' >= 0
  <2>1. Atomic!Balance(a)' = SumFunctionOnSet(Deltas(a), Live(a))'
    <3>1. Atomic!Effect(a)' = Deltas(a)'
      BY DEF Atomic!Effect, Deltas, ManualBalanceDelta, Rows
    <3>2. Atomic!Counted(a)' = Live(a)'
      BY DEF Atomic!Counted, Live, Rows
    <3> QED BY <3>1, <3>2, SumsAgree DEF Atomic!Balance
  <2>2. account'[a].balance = SumFunctionOnSet(Deltas(a), Live(a))' /\ account'[a].balance >= 0
    BY DEF IInv, BalancesAddUp, Normalized
  <2> QED BY <2>1, <2>2
<1>2. A \cap {a \in Account : account[a].archived} = {}
  OBVIOUS
<1>3. UNCHANGED {a \in Account : account[a].archived}
  OBVIOUS
<1> QED BY <1>1, <1>2, <1>3 DEF Atomic!Books

\* What neither commits nor archives changes nothing that AtomicLedger sees.
LEMMA Unseen ==
  ASSUME UNCHANGED <<account, txn, key>>
  PROVE  UNCHANGED Atomic!lvars
BY DEF Atomic!lvars

\* A request's accounts are not archived when it commits, and it archives none.
LEMMA CreateIsAtomic ==
  ASSUME IInv, IInv', NEW c \in Client, CommitCreate(c)
  PROVE  Atomic!LNext
<1> DEFINE r == req[c]
           a == r.body.account
<1>1. r.key \in Key /\ r.body \in Body /\ a \in Account /\ key[r.key] = << >>
  <2>1. r \in Creates /\ CreateSound(r) /\ r.at = "commit"
    BY ReqIs DEF CommitCreate, IInv, Sound
  <2> HIDE DEF r
  <2> QED BY <2>1 DEF CreateSound, Creates, Body
<1>2. /\ ~account[a].archived
      /\ \A b \in Account : account'[b].archived = account[b].archived
  BY DEF CommitCreate, IInv, TypeOK
<1>3. /\ txn' = Append(txn, [account |-> a, amount |-> r.body.amount, deleted |-> FALSE])
      /\ key' = [key EXCEPT ![r.key] = [body |-> r.body, txn |-> Len(txn) + 1]]
  BY DEF CommitCreate
<1> HIDE DEF r, a
<1>4. Atomic!Books({a})
  <2>1. {a} \in SUBSET Account
    BY <1>1
  <2> QED BY <1>2, <2>1, BooksOn
<1>5. Len(txn') = Len(txn) + 1
  <2>1. txn \in Seq(Entry)
    BY DEF IInv, TypeOK, Entry
  <2>2. [account |-> a, amount |-> r.body.amount, deleted |-> FALSE] \in Entry
    BY <1>1 DEF Entry, Body
  <2> QED BY <1>3, <2>1, <2>2, AppendProperties
<1>6. Atomic!Created(r.key, r.body)
  BY <1>1, <1>3, <1>4, <1>5 DEF Atomic!Created, Atomic!Entered, a
<1> QED BY <1>1, <1>6 DEF Atomic!LNext, Atomic!Body, Body

\* An edit finds at its commit what it found when it locked its transaction.
LEMMA EditIsAtomic ==
  ASSUME IInv, IInv', NEW c \in Client, CommitEdit(c)
  PROVE  Atomic!LNext
<1> DEFINE r == req[c]
           t == r.txn
<1>1. r \in Patches \cup Deletes /\ EditSound(r) /\ r.at = "commit" /\ Accepted(r)
  BY ReqIs DEF CommitEdit, IInv, Sound
<1>2. /\ \A b \in Account : account'[b].archived = account[b].archived
      /\ UNCHANGED key
  BY DEF CommitEdit, IInv, TypeOK
<1>3. txn' = [txn EXCEPT ![t] =
                IF r.op = "patch" THEN [account |-> r.body.account, amount |-> r.body.amount,
                                        deleted |-> FALSE]
                                  ELSE [txn[t] EXCEPT !.deleted = TRUE]]
  BY DEF CommitEdit
<1> HIDE DEF r
<1>4. t \in DOMAIN txn /\ ~txn[t].deleted
  BY <1>1 DEF EditSound, Rows
<1>5. Atomic!Books(Affected(r))
  <2>1. Affected(r) \in SUBSET Account /\ \A a \in Affected(r) : ~account[a].archived
    BY <1>1, AffectedIs DEF IInv, EditSound, Accepted
  <2> QED BY <1>2, <2>1, BooksOn
<1>6. CASE r.op = "patch"
  <2>1. r.body \in Body
    BY <1>1, <1>6 DEF Patches, Deletes
  <2>2. Affected(r) = {txn[t].account, r.body.account}
    BY <1>6 DEF Affected
  <2>3. Atomic!Changed(t, r.body)
    BY <1>2, <1>3, <1>4, <1>5, <1>6, <2>2 DEF Atomic!Changed, Atomic!Entered
  <2> QED BY <1>4, <2>1, <2>3 DEF Atomic!LNext, Atomic!Body, Body
<1>7. CASE r.op # "patch"
  <2>1. Affected(r) = {txn[t].account}
    BY <1>7 DEF Affected
  <2>2. Atomic!Deleted(t)
    BY <1>2, <1>3, <1>4, <1>5, <1>7, <2>1 DEF Atomic!Deleted
  <2> QED BY <1>4, <2>2 DEF Atomic!LNext
<1> QED BY <1>6, <1>7

\* Archiving changes one account.
LEMMA UpdateIsAtomic ==
  ASSUME IInv, NEW c \in Client, CommitUpdate(c)
  PROVE  Atomic!LNext
<1> DEFINE old == {b \in Account : account[b].archived}
           new == {b \in Account : account'[b].archived}
<1>1. PICK a \in Account : a = req[c].account
  BY ReqIs DEF CommitUpdate, IInv, Archives
<1>2. \A b \in Account : account'[b].archived = IF b = a THEN ~account[b].archived ELSE account[b].archived
  BY <1>1 DEF CommitUpdate, IInv, TypeOK
<1>3. new = IF a \in old THEN old \ {a} ELSE old \cup {a}
  BY <1>2
<1>4. Atomic!Archived(a)
  BY <1>3 DEF Atomic!Archived, CommitUpdate
<1> QED BY <1>4 DEF Atomic!LNext

\* Every step is a step of AtomicLedger or is not seen by it.
LEMMA StepIsAtomic == IInv /\ IInv' /\ [Next]_vars => [Atomic!LNext]_(Atomic!lvars)
<1> SUFFICES ASSUME IInv, IInv', [Next]_vars PROVE [Atomic!LNext]_(Atomic!lvars)
  OBVIOUS
<1>1. CASE UNCHANGED vars
  BY <1>1, Unseen DEF vars
<1>2. ASSUME NEW c \in Client,
             \/ \E k \in Key, body \in Body : Create(c, k, body)
             \/ \E t \in Rows : Delete(c, t) \/ \E body \in Body : Patch(c, t, body)
             \/ \E a \in Account : UpdateAccount(c, a)
      PROVE  UNCHANGED Atomic!lvars
  BY <1>2, Unseen DEF Create, Delete, Patch, UpdateAccount, Starts
<1>3. ASSUME NEW c \in Client,
             \/ ClaimIdempotencyKey(c) \/ Replay(c) \/ LockAccountOfCreate(c)
             \/ FindByIdForUpdate(c) \/ LockAccount(c) \/ LockAccountOfUpdate(c) \/ Abort(c)
      PROVE  UNCHANGED Atomic!lvars
  BY <1>3, Unseen DEF ClaimIdempotencyKey, Replay, LockAccountOfCreate, FindByIdForUpdate,
                      LockAccount, LockAccountOfUpdate, Abort, Rollback
<1>4. ASSUME NEW c \in Client, CommitCreate(c) \/ CommitEdit(c) \/ CommitUpdate(c)
      PROVE  Atomic!LNext
  BY <1>4, CreateIsAtomic, EditIsAtomic, UpdateIsAtomic
<1> QED BY <1>1, <1>2, <1>3, <1>4 DEF Next

\* Lock by lock, refused, repeated or cut off, the requests do to the ledger
\* what AtomicLedger says they do at once.
THEOREM RequestsAreAtomic == Spec => Atomic!LSpec
<1>1. Init => Atomic!LInit
  BY DEF Init, Atomic!LInit
<1> QED BY <1>1, InvariantHolds, StepIsAtomic, PTL DEF Spec, Atomic!LSpec

\* Every balance of a manual account is the sum of its live transactions, a
\* key stands for one transaction, no two requests wait for each other, and
\* requests take effect one at a time, for any accounts, amounts, keys and
\* requests.
THEOREM LedgerHolds == Spec => LedgerIsExact
<1>1. IInv => TypeOK /\ BalancesAddUp /\ OncePerKey /\ NoLockCycle
  BY KeysOnce, NoCycle DEF IInv
<1> QED BY <1>1, InvariantHolds, RequestsAreAtomic, PTL DEF LedgerIsExact

\* The rows are locked by c and by nobody else.
Alone(c, rows) ==
  rows \subseteq req[c].locks /\ \A d \in Client \ {c} : rows \cap req[d].locks = {}

\* The rows that a commit decides on and writes.
CommitsAlone ==
  \A c \in Client :
    LET r == req[c] IN
    /\ CommitCreate(c) => Alone(c, {<<"key", r.key>>, <<"account", r.body.account>>})
    /\ CommitEdit(c) => Alone(c, {<<"txn", r.txn>>} \cup {<<"account", a>> : a \in Affected(r)})
    /\ CommitUpdate(c) => Alone(c, {<<"account", r.account>>})

\* A request commits with a lock on every row that its commit decides on or
\* writes, and nobody else has one: that the model commits in one step takes
\* nothing away.
THEOREM CommitsAreIsolated == Spec => [][CommitsAlone]_vars
<1>1. ASSUME IInv, NEW c \in Client, NEW rows, rows \subseteq req[c].locks
      PROVE  Alone(c, rows)
  BY <1>1 DEF Alone, IInv, Exclusive
<1>2. ASSUME IInv, NEW c \in Client, CommitCreate(c)
      PROVE  Alone(c, {<<"key", req[c].key>>, <<"account", req[c].body.account>>})
  <2>1. CreateSound(req[c]) /\ req[c].at = "commit"
    BY <1>2 DEF IInv, Sound, CommitCreate
  <2>2. {<<"key", req[c].key>>, <<"account", req[c].body.account>>} \subseteq req[c].locks
    BY <2>1 DEF CreateSound
  <2> QED BY <1>1, <1>2, <2>2
<1>3. ASSUME IInv, NEW c \in Client, CommitEdit(c)
      PROVE  Alone(c, {<<"txn", req[c].txn>>} \cup {<<"account", a>> : a \in Affected(req[c])})
  <2>1. EditSound(req[c]) /\ req[c].at = "commit"
    BY <1>3 DEF IInv, Sound, CommitEdit
  <2>2. {<<"txn", req[c].txn>>} \cup {<<"account", a>> : a \in Affected(req[c])} \subseteq req[c].locks
    BY <2>1 DEF EditSound, HasLocked
  <2> QED BY <1>1, <1>3, <2>2
<1>4. ASSUME IInv, NEW c \in Client, CommitUpdate(c)
      PROVE  Alone(c, {<<"account", req[c].account>>})
  <2>1. ArchiveSound(req[c]) /\ req[c].at = "commit"
    BY <1>4 DEF IInv, Sound, CommitUpdate
  <2> QED BY <1>1, <1>4, <2>1 DEF ArchiveSound
<1>5. IInv => CommitsAlone
  BY <1>2, <1>3, <1>4 DEF CommitsAlone
<1> QED BY <1>5, InvariantHolds, PTL

=============================================================================
