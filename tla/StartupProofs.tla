---------------------------- MODULE StartupProofs ----------------------------
(***************************************************************************)
(* Proofs that the start of any number of processes, with any binaries and *)
(* any DB_CONNECT_TIMEOUT, is correct: it implements Migrations, its wait  *)
(* for the database is bounded, and nobody serves on an old schema.        *)
(***************************************************************************)
EXTENDS Startup, MigrationsProofs

(***************************************************************************)
(* The detailed start implements Migrations                                *)
(***************************************************************************)
LEMMA StartInitImplements == StartInit => Init
  BY DEF StartInit

\* A step of the start is a step of Migrate or leaves the schema alone.
LEMMA StartStepImplements == [StartNext]_startVars => [Next]_vars
<1> SUFFICES ASSUME [StartNext]_startVars PROVE [Next]_vars
  OBVIOUS
<1>1. ASSUME NEW p \in Starters, WaitStep(p) PROVE [Next]_vars
  <2>1. CASE PingAnswered(p)
    BY <2>1 DEF PingAnswered
  <2>2. ASSUME NEW d \in 0 .. PingTimeout, PingFails(p, d) PROVE [Next]_vars
    BY <2>2 DEF PingFails, Next
  <2>3. CASE Sleep(p)
    BY <2>3 DEF Sleep
  <2>4. CASE SleepCancelled(p)
    BY <2>4 DEF SleepCancelled, Next
  <2> QED BY <1>1, <2>1, <2>2, <2>3, <2>4 DEF WaitStep
<1>2. ASSUME NEW p \in Starters, MigrateStep(p) PROVE [Next]_vars
  BY <1>2 DEF MigrateStep, Next, Proceed
<1>3. ASSUME NEW p \in Starters, MigrateFails(p) PROVE [Next]_vars
  BY <1>3 DEF MigrateFails, Next
<1>4. ASSUME NEW p \in Starters, Migrated(p) \/ Purged(p) \/ Signal(p) PROVE [Next]_vars
  BY <1>4 DEF Migrated, Purged, Signal
<1>5. ASSUME NEW p \in Starters, Quit(p) PROVE [Next]_vars
  BY <1>5 DEF Quit, Next
<1>6. ASSUME NEW p \in Starters, Launch(p) PROVE [Next]_vars
  BY <1>6 DEF Launch, Next
<1>7. CASE UNCHANGED startVars
  BY <1>7 DEF startVars
<1> QED BY <1>1, <1>2, <1>3, <1>4, <1>5, <1>6, <1>7 DEF StartNext

\* Every start is one Migrations allows: what is proved of Migrate holds of the
\* whole program, with its waits, signals and early exits.
THEOREM StartImplementsMigrations == StartSpec => Spec
<1> QED BY StartInitImplements, StartStepImplements, PTL DEF StartSpec, Spec

(***************************************************************************)
(* The invariant of the start                                              *)
(***************************************************************************)
StartInv == StartTypeOK /\ WaitBounded /\ TypeOK

LEMMA InitStartInv == StartInit => StartInv
<1> SUFFICES ASSUME StartInit PROVE StartInv
  OBVIOUS
<1>1. TypeOK
  BY InitInv DEF StartInit, Inv
<1>2. StartTypeOK
  BY DEF StartInit, Init, StartTypeOK, Phases, FirstBackoff
<1>3. WaitBounded
  BY ConnectTimeoutIsNat DEF StartInit, WaitBounded, Booting, MaxBackoff
<1> QED BY <1>1, <1>2, <1>3 DEF StartInv

LEMMA StepStartInv == Inv /\ StartInv /\ [StartNext]_startVars => StartInv'
<1> SUFFICES ASSUME Inv, StartInv, [StartNext]_startVars PROVE StartInv'
  OBVIOUS
<1>0. TypeOK'
  BY StepInv, StartStepImplements DEF Inv
<1> USE ConnectTimeoutIsNat DEF StartInv, StartTypeOK, WaitBounded, Booting, Enter, Phases,
        FirstBackoff, MaxBackoff, PingTimeout, WaitOver, Waited
<1>1. ASSUME NEW p \in Starters, PingAnswered(p) PROVE (StartTypeOK /\ WaitBounded)'
  BY <1>1 DEF PingAnswered, vars
<1>2. ASSUME NEW p \in Starters, NEW d \in 0 .. PingTimeout, PingFails(p, d)
      PROVE (StartTypeOK /\ WaitBounded)'
  <2>1. CASE GivesUp(p, d)
    BY <1>2, <2>1 DEF PingFails, Fail, GoTo, TypeOK
  <2>2. CASE ~GivesUp(p, d)
    BY <1>2, <2>2 DEF PingFails, GivesUp, vars
  <2> QED BY <2>1, <2>2
<1>3. ASSUME NEW p \in Starters, Sleep(p) PROVE (StartTypeOK /\ WaitBounded)'
  BY <1>3 DEF Sleep, vars
<1>4. ASSUME NEW p \in Starters, SleepCancelled(p) PROVE (StartTypeOK /\ WaitBounded)'
  BY <1>4 DEF SleepCancelled, Fail, GoTo, TypeOK
<1>5. ASSUME NEW p \in Starters, MigrateStep(p) PROVE (StartTypeOK /\ WaitBounded)'
  <2>1. \E l \in Locations : pc' = [pc EXCEPT ![p] = l]
    BY <1>5 DEF MigrateStep, Proceed, Acquire, ReadApplied, Apply, Commit, LoopDone,
       Release, GoTo, Locations
  <2> QED BY <1>5, <2>1 DEF MigrateStep, TypeOK, bootVars
<1>6. ASSUME NEW p \in Starters, MigrateFails(p) PROVE (StartTypeOK /\ WaitBounded)'
  BY <1>6 DEF MigrateFails, Fail, GoTo, TypeOK
<1>7. ASSUME NEW p \in Starters, Migrated(p) PROVE (StartTypeOK /\ WaitBounded)'
  BY <1>7 DEF Migrated, At, vars
<1>8. ASSUME NEW p \in Starters, Purged(p) PROVE (StartTypeOK /\ WaitBounded)'
  BY <1>8 DEF Purged, vars
<1>9. ASSUME NEW p \in Starters, Signal(p) PROVE (StartTypeOK /\ WaitBounded)'
  BY <1>9 DEF Signal, vars
<1>10. ASSUME NEW p \in Starters, Quit(p) PROVE (StartTypeOK /\ WaitBounded)'
  <2>1. CASE pc[p] \in {"done", "failed"}
    BY <1>10, <2>1 DEF Quit, vars
  <2>2. CASE pc[p] \notin {"done", "failed"}
    BY <1>10, <2>2 DEF Quit, Fail, GoTo, TypeOK
  <2> QED BY <2>1, <2>2
<1>11. ASSUME NEW p \in Starters, Launch(p) PROVE (StartTypeOK /\ WaitBounded)'
  BY <1>11 DEF Launch, Start, GoTo, TypeOK
<1>12. CASE UNCHANGED startVars
  BY <1>0, <1>12 DEF startVars, bootVars, vars
<1> HIDE DEF StartTypeOK, WaitBounded, Booting, Enter, Phases, FirstBackoff, MaxBackoff,
        PingTimeout, WaitOver, Waited
<1> QED BY <1>0, <1>1, <1>2, <1>3, <1>4, <1>5, <1>6, <1>7, <1>8, <1>9, <1>10, <1>11, <1>12
        DEF StartNext, WaitStep

LEMMA StartInvHolds == StartSpec => [](Inv /\ StartInv)
<1>1. StartSpec => []Inv
  BY StartImplementsMigrations, InvHolds, PTL
<1> QED BY <1>1, InitStartInv, StepStartInv, PTL DEF StartSpec

\* The state of a start keeps its types, and a process is at the place of Migrate
\* its phase calls for.
THEOREM StartTypeCorrect == StartSpec => []StartTypeOK
<1>1. StartInv => StartTypeOK
  BY DEF StartInv
<1> QED BY <1>1, StartInvHolds, PTL

\* The wait for the database ends by DB_CONNECT_TIMEOUT and one delay, plus the
\* ping under way, whatever the timeout and however long the pings hang.
THEOREM WaitIsBounded == StartSpec => []WaitBounded
<1>1. StartInv => WaitBounded
  BY DEF StartInv
<1> QED BY <1>1, StartInvHolds, PTL

\* The purge and every statement after it find the schema of the binary.
THEOREM ServesOnCurrentSchema == StartSpec => []ServesCurrentSchema
<1>1. Inv /\ StartInv => ServesCurrentSchema
  BY DEF Inv, StartInv, StartTypeOK, DoneIsCurrent, ServesCurrentSchema
<1> QED BY <1>1, StartInvHolds, PTL
=============================================================================
