-------------------------- MODULE SchemaMigrations --------------------------
(***************************************************************************)
(* The migration runner and the seed (database/migrate.ts and              *)
(* database/seed.ts).  A run applies the generated and then the raw files  *)
(* of its release in one transaction, adopting the history of the tools it *)
(* replaces where it finds it, and seeds the shared categories in another. *)
(* Nothing keeps two runs apart but the locks of their statements and the  *)
(* keys of the tables; a run may stop at any point.                        *)
(*                                                                         *)
(* A file is represented by its effect on the schema.  Generated files are *)
(* 1, 2, ...; raw ones 101, 102, ....  A release only adds files.          *)
(***************************************************************************)
EXTENDS Integers

CONSTANTS
  Generated, Raw,  \* files of each release: Generated[r], Raw[r]
  Journalled,      \* generated files the journal of the old tool knows
  Baseline,        \* raw files of the time before the tracker (legacyRawBaselineFiles)
  Provides,        \* raw files whose effect a generated file has, too: Provides[g]
  Repeatable,      \* files that may be run again without failing
  Defaults,        \* shared categories of each release: <<root, sub>> by name
  Databases,       \* what a database may be before the first run
  Runner, MaxRuns  \* runs that may overlap; bound: runs

VARIABLES
  db,      \* what is committed: files in effect, rows of the tracker (a file may have two) and of
           \* the raw one, whether they exist, the journal of the old tool, the shared categories
  run,     \* of each runner: its release, where it is, and what its open transaction has done
  runs,
  first,   \* history: the database at the start
  ran      \* history: how often each file was run by a transaction that committed

vars == <<db, run, runs, first, ran>>

Release == DOMAIN Generated
File == UNION {Generated[r] \cup Raw[r] : r \in Release}
NotRunning == [at |-> "idle"]
Started(r) == [at |-> "import", release |-> r, applied |-> {}, wrote |-> {}, adopted |-> {}, locked |-> FALSE]

Init ==
  /\ db \in Databases /\ first = db
  /\ run = [p \in Runner |-> NotRunning]
  /\ runs = 0
  /\ ran = [f \in File |-> 0]

-----------------------------------------------------------------------------
Open(p) == run[p].at \in {"import", "read", "generated", "readRaw", "raw"}
Others(p) == {q \in Runner \ {p} : Open(q)}

\* What files that ran leave in effect.
Effect(files) == files \cup UNION {Provides[g] : g \in files \cap DOMAIN Provides}
\* What the transaction sees of the baseline: what is committed, and its own.
Evidence(p) == Baseline \cap Effect(db.effect \cup run[p].wrote)

Go(p, r) == run' = [run EXCEPT ![p] = r]
Stay == UNCHANGED <<db, first, ran, runs>>
\* An error, a lost connection or a killed process: the transaction is undone.
Fail(p, why) == Go(p, [at |-> "failed", release |-> run[p].release, why |-> why]) /\ Stay

Start(p) ==
  /\ ~Open(p) /\ run[p].at # "seed" /\ runs < MaxRuns
  /\ runs' = runs + 1
  /\ \E r \in Release : Go(p, Started(r))
  /\ UNCHANGED <<db, first, ran>>

Crash(p) == (Open(p) \/ run[p].at = "seed") /\ Fail(p, "crash")

Tracked == {f \in DOMAIN db.tracker : db.tracker[f] > 0}

LockedOut(p) == \E q \in Others(p) : run[q].locked

\* A tracker that holds the adopted history, once, and nothing this release does not know.
Continues(known) ==
  Journalled \subseteq Tracked /\ Tracked \subseteq known /\ \A f \in Tracked : db.tracker[f] = 1

\* importLegacyGeneratedHistory: with the old journal the tracker is locked to the end
\* of the transaction, and the history adopted once.
ImportLegacy(p) ==
  /\ run[p].at = "import"
  /\ \/ /\ db.journal = {}
        /\ Go(p, [run[p] EXCEPT !.at = "read"]) /\ Stay
     \/ /\ db.journal \notin {{}, Journalled}
        /\ Fail(p, "inconsistent")
     \/ /\ db.journal = Journalled /\ ~LockedOut(p)
        /\ IF Tracked = {} \/ Continues(Generated[run[p].release])
             THEN Go(p, [run[p] EXCEPT !.at = "read", !.locked = TRUE,
                                       !.adopted = IF Tracked = {} THEN Journalled ELSE {}]) /\ Stay
             ELSE Fail(p, "inconsistent")

\* A statement waits for a transaction that did the same and is open.
Waits(p, f) == \E q \in Others(p) : f \in run[q].wrote
\* So does the creation of the trackers; the one that waited may then fail, as in Crash.
Creating(p) == ~db.created /\ \E q \in Others(p) : run[q].at \notin {"import", "read"}

\* applyGeneratedMigrations: what is applied is read once, before the first file.
ReadApplied(p) ==
  /\ run[p].at = "read" /\ ~LockedOut(p) /\ ~Creating(p)
  /\ Go(p, [run[p] EXCEPT !.at = "generated", !.applied = Tracked \cup run[p].adopted])
  /\ Stay

\* The files that are left, in their order.
Left(p, files) == files \ (run[p].applied \cup run[p].wrote)
NextFile(fs) == CHOOSE f \in fs : \A g \in fs : f <= g

\* A file that cannot be run twice fails when its effect is there.
RunFile(p, f) ==
  IF f \in db.effect /\ f \notin Repeatable THEN Fail(p, "exists")
  ELSE Go(p, [run[p] EXCEPT !.wrote = @ \cup {f}]) /\ Stay

ApplyGenerated(p) ==
  /\ run[p].at = "generated"
  /\ LET left == Left(p, Generated[run[p].release]) IN
     IF left = {} THEN Go(p, [run[p] EXCEPT !.at = "readRaw"]) /\ Stay
     ELSE ~Waits(p, NextFile(left)) /\ RunFile(p, NextFile(left))

\* Mutant: whatever raw files there are, not only those of the baseline.
InferredAll(r) == Raw[r]

\* The raw files that evidence in the schema stands for: all of the baseline, or none.
Inferred(r) == Baseline

\* applyRawMigrations: with an empty tracker, the schema tells what was applied before there was one.
ReadRaw(p) ==
  LET r == run[p].release
      applied == db.rawTracker
  IN /\ run[p].at = "readRaw"
     /\ CASE applied # {} -> Go(p, [run[p] EXCEPT !.at = "raw", !.applied = @ \cup applied]) /\ Stay
          [] applied = {} /\ Evidence(p) = Baseline ->
               Go(p, [run[p] EXCEPT !.at = "raw", !.applied = @ \cup Inferred(r), !.adopted = @ \cup Inferred(r)]) /\ Stay
          [] applied = {} /\ Evidence(p) # Baseline
             /\ Evidence(p) = Effect(DOMAIN Provides) \cap Baseline ->
               Go(p, [run[p] EXCEPT !.at = "raw"]) /\ Stay
          [] OTHER -> Fail(p, "inconsistent")

\* The raw tracker's key: a name that another transaction recorded meanwhile fails this one.
ApplyRaw(p) ==
  /\ run[p].at = "raw"
  /\ LET left == Left(p, Raw[run[p].release]) IN
     /\ left # {}
     /\ ~Waits(p, NextFile(left))
     /\ IF NextFile(left) \in db.rawTracker THEN Fail(p, "exists") ELSE RunFile(p, NextFile(left))

\* Rows are recorded with the files; those of the baseline, too, have their key.
Commit(p) ==
  LET rows == run[p].wrote \cup run[p].adopted
  IN /\ run[p].at = "raw" /\ Left(p, Raw[run[p].release]) = {}
     /\ run[p].adopted \cap db.rawTracker = {}
     /\ db' = [db EXCEPT !.effect = @ \cup run[p].wrote,
                         !.tracker = [f \in DOMAIN @ |-> @[f] + IF f \in rows THEN 1 ELSE 0],
                         !.rawTracker = @ \cup (rows \ DOMAIN db.tracker),
                         !.created = TRUE]
     /\ ran' = [f \in File |-> ran[f] + IF f \in run[p].wrote THEN 1 ELSE 0]
     /\ Go(p, [at |-> "seed", release |-> run[p].release])
     /\ UNCHANGED <<first, runs>>

\* seedSystemData: roots, then the subcategories of the roots there are; what exists is left.
Seed(p) ==
  LET r == run[p].release IN
  /\ run[p].at = "seed"
  /\ db' = [db EXCEPT !.categories = @ \cup Defaults[r]]
  /\ Go(p, [at |-> "done", release |-> r])
  /\ UNCHANGED <<first, ran, runs>>

Next ==
  \E p \in Runner :
    \/ Start(p) \/ Crash(p)
    \/ ImportLegacy(p) \/ ReadApplied(p) \/ ApplyGenerated(p)
    \/ ReadRaw(p) \/ ApplyRaw(p) \/ Commit(p) \/ Seed(p)

Spec == Init /\ [][Next]_vars

-----------------------------------------------------------------------------
\* A database of the old tools that they left whole: every file of the journal, and of the raw
\* baseline all or none but what generated files leave.
Whole(d) ==
  /\ d.journal \in {{}, Journalled}
  /\ d.journal = {} \/ Baseline \cap Effect(d.effect) \in {Baseline, Effect(DOMAIN Provides) \cap Baseline}

\* A tracker's row stands for a file in effect, and a file that came into effect has its row.
TrackersAreTrue ==
  /\ Tracked \cup db.rawTracker \subseteq Effect(db.effect)
  /\ db.effect \subseteq first.effect \cup Tracked \cup db.rawTracker

\* Runs of one or of two releases that overlap, fail and are started again run a file that cannot
\* be run twice once, never one that the old tools had run, and record it once.
FilesRunOnce ==
  \A f \in File \ Repeatable :
    /\ ran[f] + (IF f \in first.effect THEN 1 ELSE 0) <= 1
    /\ f \in DOMAIN db.tracker => db.tracker[f] <= 1

\* With the old journal the lock holds for every file.
AdoptedRunOnce ==
  first.journal # {} =>
    \A f \in File : /\ ran[f] + (IF f \in first.effect THEN 1 ELSE 0) <= 1
                    /\ f \in DOMAIN db.tracker => db.tracker[f] <= 1

\* A run that ends well leaves every file of its release in effect and recorded, and its categories.
SuccessIsWhole ==
  \A p \in Runner :
    /\ run[p].at \in {"seed", "done"} => LET r == run[p].release IN
         Generated[r] \cup Raw[r] \subseteq Effect(db.effect) /\ Generated[r] \subseteq Tracked /\ Raw[r] \subseteq db.rawTracker
    /\ run[p].at = "done" => Defaults[run[p].release] \subseteq db.categories

\* A history is refused as inconsistent when the old tools left it so, and nothing is then changed;
\* or when it is adopted history that a newer release has gone on with.
RefusalsAreDue ==
  \A p \in Runner :
    run[p].at = "failed" /\ run[p].why = "inconsistent" =>
      \/ ~Whole(first) /\ db = first
      \/ db.journal # {} /\ ~(Tracked \subseteq Generated[run[p].release])

(* Migrations are exact: each file once, each row true, and a run that     *)
(* ends well complete, whatever the database was and whoever else ran.     *)
MigrationsAreExact ==
  TrackersAreTrue /\ FilesRunOnce /\ AdoptedRunOnce /\ SuccessIsWhole /\ RefusalsAreDue
=============================================================================
