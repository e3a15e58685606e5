-------------------------- MODULE MigrationsProofs --------------------------
(***************************************************************************)
(* Proofs that Migrations is correct for any number of processes, any      *)
(* number of migrations in each binary, and any number of failures.        *)
(***************************************************************************)
EXTENDS Migrations, TLAPS

\* A process that is past Acquire and before Release holds the advisory lock.
LockHeld ==
    \A p \in Starters : pc[p] \in {"locked", "apply", "commit", "unlock"} => holder = p

\* What the holder still has to do is exactly what is not recorded.
TodoExact ==
    \A p \in Starters : pc[p] \in {"apply", "commit"} =>
        todo[p] = (1 .. Latest[p]) \ recorded

Inv == /\ TypeOK /\ LockHeld /\ TodoExact
       /\ ExactlyOnce /\ NoGaps /\ DoneIsCurrent

LEMMA InitInv == Init => Inv
  BY StartersAssumption DEF Init, Inv, TypeOK, LockHeld, TodoExact, ExactlyOnce,
     NoGaps, DoneIsCurrent, Locations, Versions

\* Every step keeps the invariant. Only Commit disturbs the parts about the
\* schema, and only Acquire and Release those about the lock.
LEMMA StepInv == Inv /\ [Next]_vars => Inv'
<1> SUFFICES ASSUME Inv, [Next]_vars PROVE Inv'
  OBVIOUS
<1> USE StartersAssumption DEF Inv, At, GoTo
<1>1. ASSUME NEW p \in Starters, Acquire(p) PROVE Inv'
  BY <1>1 DEF Acquire, TypeOK, LockHeld, TodoExact, ExactlyOnce, NoGaps,
     DoneIsCurrent, Locations
<1>2. ASSUME NEW p \in Starters, ReadApplied(p) PROVE Inv'
  <2>1. 1 .. Latest[p] \subseteq Versions
    BY DEF Versions
  <2>2. TypeOK'
    BY <1>2, <2>1 DEF ReadApplied, TypeOK, Locations
  <2>3. (LockHeld /\ TodoExact)'
    BY <1>2 DEF ReadApplied, TypeOK, LockHeld, TodoExact
  <2>4. (ExactlyOnce /\ NoGaps /\ DoneIsCurrent)'
    BY <1>2 DEF ReadApplied, TypeOK, ExactlyOnce, NoGaps, DoneIsCurrent
  <2> QED BY <2>2, <2>3, <2>4
<1>3. ASSUME NEW p \in Starters, Apply(p) PROVE Inv'
  BY <1>3 DEF Apply, TypeOK, LockHeld, TodoExact, ExactlyOnce, NoGaps,
     DoneIsCurrent, Locations
<1>4. ASSUME NEW p \in Starters, Commit(p) PROVE Inv'
  <2>1. PICK v \in NextOf(todo[p]) :
            /\ recorded' = recorded \cup {v}
            /\ executed' = [executed EXCEPT ![v] = @ + 1]
            /\ todo' = [todo EXCEPT ![p] = @ \ {v}]
    BY <1>4 DEF Commit
  <2>2. /\ todo[p] = (1 .. Latest[p]) \ recorded
        /\ holder = p
        /\ v \in 1 .. Latest[p] /\ v \notin recorded /\ v \in Versions
        /\ \A w \in todo[p] : v <= w
    BY <1>4, <2>1 DEF Commit, LockHeld, TodoExact, NextOf, TypeOK
  <2>3. TypeOK'
    BY <1>4, <2>1, <2>2 DEF Commit, TypeOK, Locations
  <2>4. LockHeld' /\ TodoExact'
    BY <1>4, <2>1, <2>2 DEF Commit, TypeOK, LockHeld, TodoExact
  <2>5. ExactlyOnce'
    BY <2>1, <2>2 DEF TypeOK, ExactlyOnce
  <2>6. NoGaps'
    \* Everything below v was recorded: otherwise v would not be the lowest.
    <3>1. ASSUME NEW w \in 1 .. v PROVE w \in recorded'
      <4>1. w \in 1 .. Latest[p] /\ w <= v
        BY <2>2
      <4>2. CASE w \in recorded
        BY <4>2, <2>1
      <4>3. CASE w \notin recorded
        <5>1. w \in todo[p]
          BY <4>1, <4>3, <2>2
        <5>2. w = v
          BY <5>1, <4>1, <2>2
        <5> QED BY <5>2, <2>1
      <4> QED BY <4>2, <4>3
    <3> QED BY <3>1, <2>1 DEF NoGaps
  <2>7. DoneIsCurrent'
    BY <1>4, <2>1 DEF Commit, TypeOK, DoneIsCurrent
  <2> QED BY <2>3, <2>4, <2>5, <2>6, <2>7
<1>5. ASSUME NEW p \in Starters, LoopDone(p) PROVE Inv'
  BY <1>5 DEF LoopDone, TypeOK, LockHeld, TodoExact, ExactlyOnce, NoGaps,
     DoneIsCurrent, Locations
<1>6. ASSUME NEW p \in Starters, Release(p) PROVE Inv'
  BY <1>6 DEF Release, TypeOK, LockHeld, TodoExact, ExactlyOnce, NoGaps,
     DoneIsCurrent, Locations
<1>7. ASSUME NEW p \in Starters, Fail(p) PROVE Inv'
  BY <1>7 DEF Fail, TypeOK, LockHeld, TodoExact, ExactlyOnce, NoGaps,
     DoneIsCurrent, Locations
<1>8. ASSUME NEW p \in Starters, Start(p) PROVE Inv'
  BY <1>8 DEF Start, TypeOK, LockHeld, TodoExact, ExactlyOnce, NoGaps,
     DoneIsCurrent, Locations
<1>9. CASE UNCHANGED vars
  BY <1>9 DEF vars, TypeOK, LockHeld, TodoExact, ExactlyOnce, NoGaps, DoneIsCurrent
<1> QED BY <1>1, <1>2, <1>3, <1>4, <1>5, <1>6, <1>7, <1>8, <1>9 DEF Next, Proceed

LEMMA InvHolds == Spec => []Inv
<1> QED BY InitInv, StepInv, PTL DEF Spec

\* Every variable of Migrate keeps its type.
THEOREM TypeCorrect == Spec => []TypeOK
<1>1. Inv => TypeOK
  BY DEF Inv
<1> QED BY <1>1, InvHolds, PTL

\* The SQL of a migration takes effect exactly once, however many processes
\* run Migrate at the same time and wherever they fail.
THEOREM MigratedExactlyOnce == Spec => []ExactlyOnce
<1>1. Inv => ExactlyOnce
  BY DEF Inv
<1> QED BY <1>1, InvHolds, PTL

\* The list of pending migrations a process works from is never stale, so its
\* INSERT into schema_migrations never meets a recorded version.
THEOREM TodoNeverStale == Spec => []TodoIsCurrent
<1>1. Inv => TodoIsCurrent
  BY DEF Inv, TodoExact, TodoIsCurrent
<1> QED BY <1>1, InvHolds, PTL

\* The recorded versions never have a gap, also with binaries of different
\* releases starting together.
THEOREM RecordedWithoutGaps == Spec => []NoGaps
<1>1. Inv => NoGaps
  BY DEF Inv
<1> QED BY <1>1, InvHolds, PTL

\* A process that gets through Migrate finds its whole schema in place.
THEOREM DoneMeansCurrent == Spec => []DoneIsCurrent
<1>1. Inv => DoneIsCurrent
  BY DEF Inv
<1> QED BY <1>1, InvHolds, PTL
=============================================================================
