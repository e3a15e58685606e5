----------------------------- MODULE Migrations -----------------------------
(***************************************************************************)
(* postgres.Migrate: several processes start at once, each brings the      *)
(* schema up to the last migration its binary embeds, and any of them may  *)
(* fail or be killed at any statement.                                     *)
(*                                                                         *)
(* The advisory lock belongs to the connection of the process that took    *)
(* it: PostgreSQL releases it with pg_advisory_unlock or when the          *)
(* connection is gone. A migration runs in a transaction of its own, so    *)
(* what it did is visible, and permanent, only after COMMIT.               *)
(***************************************************************************)
EXTENDS Naturals, FiniteSets

CONSTANTS
    Starters,     \* the processes
    Nobody,       \* the holder of a free lock
    Latest,       \* [Starters -> Nat]: the binary of p embeds migrations 1..Latest[p]
    MaxRestarts   \* bound: starts after the first

ASSUME StartersAssumption ==
    /\ Nobody \notin Starters
    /\ Latest \in [Starters -> Nat]
    /\ MaxRestarts \in Nat

VARIABLES
    pc,           \* where each process is in Migrate
    holder,       \* who holds pg_advisory_lock(migrationLockID)
    todo,         \* per process: the embedded migrations not found applied
    recorded,     \* the versions in schema_migrations
    executed,     \* how often the SQL of each version took effect
    restarts      \* starts left, a bound

vars == <<pc, holder, todo, recorded, executed, restarts>>

Versions == UNION {1 .. Latest[p] : p \in Starters}

Locations == {"start", "locked", "apply", "commit", "unlock", "done", "failed"}

\* Mutant: the migrations are not sorted.
AnyOf(S) == S

\* loadMigrations sorts by version and the loop of Migrate keeps that order: the
\* next migration to run is the lowest one in S.
NextOf(S) == {v \in S : \A w \in S : v <= w}

(***************************************************************************)
(* The steps of Migrate                                                    *)
(***************************************************************************)
At(p, l) == pc[p] = l
GoTo(p, l) == pc' = [pc EXCEPT ![p] = l]

\* Mutant: no advisory lock is taken.
AcquireUnchecked(p) ==
    /\ At(p, "start")
    /\ holder' = p
    /\ GoTo(p, "locked")
    /\ UNCHANGED <<todo, recorded, executed, restarts>>

\* pg_advisory_lock blocks until the lock is free.
Acquire(p) ==
    /\ At(p, "start")
    /\ holder = Nobody
    /\ holder' = p
    /\ GoTo(p, "locked")
    /\ UNCHANGED <<todo, recorded, executed, restarts>>

\* Mutant: one version too many.
ReadAppliedOffByOne(p) ==
    /\ At(p, "locked")
    /\ todo' = [todo EXCEPT ![p] = (1 .. Latest[p] + 1) \ recorded]
    /\ GoTo(p, "apply")
    /\ UNCHANGED <<holder, recorded, executed, restarts>>

\* CREATE TABLE IF NOT EXISTS and appliedVersions.
ReadApplied(p) ==
    /\ At(p, "locked")
    /\ todo' = [todo EXCEPT ![p] = (1 .. Latest[p]) \ recorded]
    /\ GoTo(p, "apply")
    /\ UNCHANGED <<holder, recorded, executed, restarts>>

\* BEGIN, the SQL of the next migration and the INSERT of its version. The
\* INSERT waits for a transaction that inserts the same key and fails when the
\* version is recorded.
Apply(p) ==
    /\ At(p, "apply")
    /\ \E v \in NextOf(todo[p]) :
          /\ v \notin recorded
          /\ \A q \in Starters : At(q, "commit") => v \notin NextOf(todo[q])
    /\ GoTo(p, "commit")
    /\ UNCHANGED <<holder, todo, recorded, executed, restarts>>

\* COMMIT: the schema change and its record become visible together.
Commit(p) ==
    /\ At(p, "commit")
    /\ \E v \in NextOf(todo[p]) :
          /\ recorded' = recorded \cup {v}
          /\ executed' = [executed EXCEPT ![v] = @ + 1]
          /\ todo' = [todo EXCEPT ![p] = @ \ {v}]
    /\ GoTo(p, "apply")
    /\ UNCHANGED <<holder, restarts>>

\* Mutant: the loop stops after the first migration it applied.
LoopDoneEarly(p) ==
    /\ At(p, "apply")
    /\ recorded # {}
    /\ GoTo(p, "unlock")
    /\ UNCHANGED <<holder, todo, recorded, executed, restarts>>

\* Every embedded migration is applied.
LoopDone(p) ==
    /\ At(p, "apply")
    /\ todo[p] = {}
    /\ GoTo(p, "unlock")
    /\ UNCHANGED <<holder, todo, recorded, executed, restarts>>

\* Mutant: the deferred unlock is missing, and the connection goes back to the
\* pool of the shell with the lock.
ReleaseForgotten(p) ==
    /\ At(p, "unlock")
    /\ GoTo(p, "done")
    /\ UNCHANGED <<holder, todo, recorded, executed, restarts>>

\* The deferred pg_advisory_unlock, then Migrate returns.
Release(p) ==
    /\ At(p, "unlock")
    /\ holder' = Nobody
    /\ GoTo(p, "done")
    /\ UNCHANGED <<todo, recorded, executed, restarts>>

\* Mutant: the SQL runs outside the transaction that records it.
FailWithoutRollback(p) ==
    /\ pc[p] \notin {"done", "failed"}
    /\ GoTo(p, "failed")
    /\ holder' = IF holder = p THEN Nobody ELSE holder
    /\ executed' = [v \in Versions |->
                      IF At(p, "commit") /\ v \in NextOf(todo[p])
                      THEN executed[v] + 1 ELSE executed[v]]
    /\ todo' = [todo EXCEPT ![p] = {}]
    /\ UNCHANGED <<recorded, restarts>>

\* A statement fails, the context is cancelled or the process is killed: an
\* open transaction is rolled back, and the lock is released by the deferred
\* unlock or with the connection.
Fail(p) ==
    /\ pc[p] \notin {"done", "failed"}
    /\ GoTo(p, "failed")
    /\ holder' = IF holder = p THEN Nobody ELSE holder
    /\ todo' = [todo EXCEPT ![p] = {}]
    /\ UNCHANGED <<recorded, executed, restarts>>

\* The process has ended and is started again.
Start(p) ==
    /\ pc[p] \in {"done", "failed"}
    /\ restarts > 0
    /\ restarts' = restarts - 1
    /\ GoTo(p, "start")
    /\ UNCHANGED <<holder, todo, recorded, executed>>

Init ==
    /\ pc = [p \in Starters |-> "start"]
    /\ holder = Nobody
    /\ todo = [p \in Starters |-> {}]
    /\ recorded = {}
    /\ executed = [v \in Versions |-> 0]
    /\ restarts = MaxRestarts

Proceed(p) ==
    \/ Acquire(p)
    \/ ReadApplied(p)
    \/ Apply(p)
    \/ Commit(p)
    \/ LoopDone(p)
    \/ Release(p)

Next == \E p \in Starters : Proceed(p) \/ Fail(p) \/ Start(p)

Spec == Init /\ [][Next]_vars

(***************************************************************************)
(* Properties                                                              *)
(***************************************************************************)
TypeOK ==
    /\ pc \in [Starters -> Locations]
    /\ holder \in Starters \cup {Nobody}
    /\ todo \in [Starters -> SUBSET Versions]
    /\ recorded \subseteq Versions
    /\ executed \in [Versions -> Nat]
    /\ restarts \in Nat

\* However many processes start, fail or are killed: the SQL of a migration has
\* taken effect once if its version is recorded, and never if it is not.
ExactlyOnce ==
    \A v \in Versions : executed[v] = IF v \in recorded THEN 1 ELSE 0

\* No process works from a list of pending migrations that another one has made
\* stale: the INSERT into schema_migrations never meets a recorded version.
TodoIsCurrent ==
    \A p \in Starters : pc[p] \in {"apply", "commit"} => todo[p] \cap recorded = {}

\* The schema is always one some release had: no version is recorded before the
\* ones below it.
NoGaps == \A v \in recorded : 1 .. v \subseteq recorded

\* A process that Migrate let through finds every migration it needs.
DoneIsCurrent ==
    \A p \in Starters : pc[p] \in {"unlock", "done"} => 1 .. Latest[p] \subseteq recorded

=============================================================================
