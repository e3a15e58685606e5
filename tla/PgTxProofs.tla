----------------------------- MODULE PgTxProofs ------------------------------
(***************************************************************************)
(* Proofs about the transactions of PgTx, for any number of processes,     *)
(* accounts and sessions: statement by statement, with all their locks,    *)
(* snapshots, rollbacks and victims, they are the single steps that        *)
(* AuthService takes them for, and service calls never wait for each other *)
(* while they hold a lock.                                                 *)
(***************************************************************************)
EXTENDS PgTx, LoginRefinementProofs

(***************************************************************************)
(* The invariant                                                           *)
(***************************************************************************)
TxStages == {"account", "revoke", "rows"}
TxCalls == {"verify", "codeFailed", "codeLogin", "confirm", "disable"}

PgTypes == txn \in [Shells -> Txn] /\ calls \in Nat

\* A shell without a call has nothing on its stack, and no call is from the future.
CallTimes == \A p \in Shells : (Ready(p) => op[p] = Idle) /\ op[p].at <= clock

\* No row is locked twice.
Exclusive ==
    \A p \in Shells : \A q \in Shells \ {p} :
        /\ ~(txn[p].row /\ txn[q].row /\ txn[p].acct = txn[q].acct)
        /\ txn[p].held \cap txn[q].held = {}

\* The transaction is the one the call of its shell needs.
CallInv(p) ==
    /\ txn[p].now <= clock
    /\ txn[p].stage \in {"start", "purge"} => Ready(p) /\ challenges[p] = {}
    /\ txn[p].stage \in TxStages /\ Ready(p) => txn[p].acct \in Accounts
    /\ txn[p].stage \in TxStages /\ ~Ready(p) =>
          /\ op[p].pc \in TxCalls /\ txn[p].acct = op[p].acct /\ op[p].at <= txn[p].now
          /\ Running(p, "verify") /\ op[p].good => PasswordAccepted(p) /\ ~op[p].row.enabled
    /\ In(p, "rows") /\ Ready(p) => txn[p].acct \notin DOMAIN users
    /\ In(p, "revoke") => Revokes(p)

\* What it has locked and what it still has to look at.
LockInv(p) ==
    /\ txn[p].stage \in {"revoke", "rows"} => txn[p].row
    /\ txn[p].stage \in {"start", "none", "account"} => ~txn[p].row
    /\ txn[p].stage \notin {"rows", "purge"} => txn[p].todo = {} /\ txn[p].held = {}
    /\ txn[p].held \subseteq DOMAIN sessions
    /\ txn[p].todo \subseteq 1 .. nextSid - 1

\* A revocation has locked, or will look at, every session it has to revoke: the
\* account row it holds keeps new ones away.
RevokeInv(p) ==
    In(p, "rows") =>
        /\ \A i \in txn[p].held : RevokeMatched(p, i)
        /\ \A i \in txn[p].todo : i \in DOMAIN sessions => sessions[i].owner = txn[p].acct
        /\ Revokes(p) => \A i : RevokeMatched(p, i) => i \in txn[p].todo \cup txn[p].held
        /\ ~Revokes(p) => txn[p].todo = {} /\ txn[p].held = {}

PurgeInv(p) ==
    In(p, "purge") => \A i \in txn[p].held : Purgeable(sessions[i], txn[p].now)

TxnInv(p) == CallInv(p) /\ LockInv(p) /\ RevokeInv(p) /\ PurgeInv(p)

PgInv == PgTypes /\ CallTimes /\ Exclusive /\ \A p \in Shells : TxnInv(p)

LEMMA PgInitInv == PgInit => PgInv
<1> SUFFICES ASSUME PgInit PROVE PgInv
  OBVIOUS
<1>1. Starting \in Txn /\ NoTxn \in Txn
  BY DEF Starting, NoTxn, Txn, Stages, Unset
<1>2. \A p \in Shells : /\ txn[p].stage = "start" /\ ~txn[p].row /\ txn[p].now = 0
                        /\ txn[p].todo = {} /\ txn[p].held = {}
                        /\ op[p] = Idle /\ challenges[p] = {}
  BY DEF PgInit, Init, Starting, NoTxn, Unset
<1>3. clock = 1 /\ nextSid = 1
  BY DEF PgInit, Init
<1>4. PgTypes
  BY <1>1 DEF PgInit, PgTypes
<1>5. CallTimes
  <2>1. Idle.at = 0
    BY DEF Idle, Unset
  <2> QED BY <1>2, <1>3, <2>1 DEF CallTimes
<1>7. Exclusive
  BY <1>2 DEF Exclusive
<1>6. ASSUME NEW p \in Shells PROVE TxnInv(p)
  BY <1>2, <1>3 DEF TxnInv, CallInv, LockInv, RevokeInv, PurgeInv, In, Ready, Running, Idle,
     TxStages
<1> QED BY <1>4, <1>5, <1>6, <1>7 DEF PgInv

(***************************************************************************)
(* Every step is a step of AuthService, or none of its business.           *)
(***************************************************************************)
\* COMMIT makes the revocation of AuthService's single step visible.
LEMMA HeldIsMatching ==
    ASSUME TypeOK, NEW p \in Shells, RevokeInv(p), CanCommit(p), Revokes(p),
           txn[p].acct = op[p].acct, RevokeHeld(p)
    PROVE  RevokeMatching(op[p].acct, Spared(p))
<1> DEFINE a == op[p].acct
           keep == Spared(p)
           Matching(i) == sessions[i].owner = a /\ (keep = 0 \/ i # keep)
<1>1. \A i \in DOMAIN sessions : i \in txn[p].held <=> Matching(i) /\ ~sessions[i].revoked
  BY DEF RevokeInv, CanCommit, RevokeMatched
<1>2. \A i \in DOMAIN sessions : sessions[i] \in Session(DOMAIN users)
  BY DEF TypeOK
<1>3. \A i \in DOMAIN sessions :
         sessions[i].revoked => [sessions[i] EXCEPT !.revoked = TRUE] = sessions[i]
  BY <1>2 DEF Session
<1>4. \A i \in DOMAIN sessions :
         (IF i \in txn[p].held THEN [sessions[i] EXCEPT !.revoked = TRUE] ELSE sessions[i])
           = (IF Matching(i) THEN [sessions[i] EXCEPT !.revoked = TRUE] ELSE sessions[i])
  BY <1>1, <1>3
<1> QED BY <1>4 DEF RevokeHeld, RevokeMatching

LEMMA HeldIsNone ==
    ASSUME TypeOK, NEW p \in Shells, RevokeInv(p), CanCommit(p), ~Revokes(p), RevokeHeld(p)
    PROVE  UNCHANGED sessions
  BY DEF RevokeInv, CanCommit, RevokeHeld, TypeOK

LEMMA CommitFailureMaps ==
    ASSUME TypeOK, PgInv, NEW p \in Shells, NEW acked \in BOOLEAN, CommitFailure(p, acked)
    PROVE  PasswordFailed(p) \/ CodeFailed(p, acked)
<1>1. /\ TxnInv(p) /\ CanCommit(p) /\ CountsFailure(p) /\ ~Ready(p)
      /\ txn[p].now \in Nat /\ op[p].at \in Nat /\ clock \in Nat
  BY DEF PgInv, CommitFailure, CountsFailure, Running, Ready, PgTypes, Txn, TypeOK, Call
<1>2. txn[p].acct = op[p].acct /\ txn[p].now \in Elapsed(p)
  BY <1>1 DEF TxnInv, CallInv, CanCommit, In, TxStages, Elapsed
<1>3. Spared(p) = 0 /\ (Revokes(p) <=> TripsLock(op[p].row))
  BY <1>1 DEF Spared, Revokes, ChangesPosture, CountsFailure, Running
<1>4. IF TripsLock(op[p].row) THEN RevokeMatching(op[p].acct, 0) ELSE UNCHANGED sessions
  <2>1. RevokeHeld(p) /\ RevokeInv(p)
    BY <1>1 DEF CommitFailure, TxnInv
  <2> QED BY <1>1, <1>2, <1>3, <2>1, HeldIsMatching, HeldIsNone
<1>5. RecordFailure(op[p].acct, op[p].row, txn[p].now)
  BY <1>2, <1>4 DEF CommitFailure, RecordFailure
<1>6. Return(p) /\ UNCHANGED <<clock, nextSecret>>
  BY DEF CommitFailure
<1>7. CASE Running(p, "codeFailed")
  BY <1>2, <1>5, <1>6, <1>7 DEF CodeFailed, CommitFailure
<1>8. CASE Running(p, "verify") /\ ~op[p].good
  <2>1. UNCHANGED challenges
    BY <1>8 DEF CommitFailure, Running
  <2> QED BY <1>2, <1>5, <1>6, <1>8, <2>1 DEF PasswordFailed
<1> QED BY <1>1, <1>7, <1>8 DEF CountsFailure

LEMMA CommitLoginMaps ==
    ASSUME TypeOK, PgInv, NEW p \in Shells, CommitLogin(p)
    PROVE  PasswordLogin(p) \/ CodeLogin(p)
<1>1. /\ TxnInv(p) /\ CanCommit(p) /\ LogsIn(p) /\ ~Ready(p)
      /\ txn[p].now \in Nat /\ op[p].at \in Nat /\ clock \in Nat
  BY DEF PgInv, CommitLogin, LogsIn, Running, Ready, PgTypes, Txn, TypeOK, Call
<1>2. /\ txn[p].acct = op[p].acct /\ txn[p].now \in Elapsed(p)
      /\ Running(p, "verify") => PasswordAccepted(p) /\ ~op[p].row.enabled
  BY <1>1 DEF TxnInv, CallInv, CanCommit, In, TxStages, Elapsed, LogsIn, Running
<1>3. CompleteLogin(op[p].acct, op[p].row, txn[p].now)
  BY <1>2 DEF CommitLogin, CompleteLogin
<1> QED BY <1>1, <1>2, <1>3 DEF CommitLogin, LogsIn, PasswordLogin, CodeLogin

LEMMA CommitPostureMaps ==
    ASSUME TypeOK, PgInv, NEW p \in Shells, CommitPosture(p)
    PROVE  ConfirmSave(p) \/ DisableSave(p)
<1>1. TxnInv(p) /\ CanCommit(p) /\ ChangesPosture(p) /\ ~Ready(p)
  BY DEF PgInv, CommitPosture, ChangesPosture, Running, Ready
<1>2. txn[p].acct = op[p].acct /\ Spared(p) = op[p].ref /\ Revokes(p)
  BY <1>1 DEF TxnInv, CallInv, CanCommit, In, TxStages, Spared, Revokes
<1>3. RevokeMatching(op[p].acct, op[p].ref)
  BY <1>1, <1>2, HeldIsMatching DEF CommitPosture, TxnInv
<1> QED BY <1>1, <1>2, <1>3 DEF CommitPosture, ChangesPosture, ConfirmSave, DisableSave, PostureSave

LEMMA CommitRegisterMaps ==
    ASSUME TypeOK, PgInv, NEW p \in Shells, CommitRegister(p)
    PROVE  txn[p].acct \in Accounts /\ Register(p, txn[p].acct)
<1>1. TxnInv(p) /\ CanCommit(p) /\ Ready(p)
  BY DEF PgInv, CommitRegister, Registering
<1>2. txn[p].acct \in Accounts /\ txn[p].acct \notin DOMAIN users
  BY <1>1 DEF TxnInv, CallInv, CanCommit, In, TxStages
<1> QED BY <1>1, <1>2 DEF CommitRegister, Register

\* The purge deletes only rows that are still dead when it commits.
LEMMA CommitPurgeMaps ==
    ASSUME TypeOK, PgInv, NEW p \in Shells, CommitPurge(p)
    PROVE  txn[p].held \in SUBSET PurgeableIds /\ Restart(p, txn[p].held)
<1>1. TxnInv(p) /\ In(p, "purge") /\ Ready(p) /\ challenges[p] = {}
  BY DEF PgInv, CommitPurge, TxnInv, CallInv, In
<1>2. op[p] = Idle
  BY <1>1 DEF PgInv, CallTimes
<1>3. op' = [op EXCEPT ![p] = Idle] /\ challenges' = [challenges EXCEPT ![p] = {}]
  BY <1>1, <1>2 DEF CommitPurge, TypeOK
<1>4. txn[p].now <= clock /\ txn[p].now \in Nat /\ clock \in Nat
  BY <1>1 DEF TxnInv, CallInv, PgInv, PgTypes, Txn, TypeOK
<1>5. ASSUME NEW i \in txn[p].held PROVE i \in PurgeableIds
  <2>1. i \in DOMAIN sessions /\ Purgeable(sessions[i], txn[p].now)
    BY <1>1, <1>5 DEF TxnInv, LockInv, PurgeInv
  <2>2. sessions[i].idle \in Nat /\ sessions[i].abs \in Nat
    BY <2>1 DEF TypeOK, Session
  <2> QED BY <1>4, <2>1, <2>2 DEF PurgeableIds, Purgeable
<1> QED BY <1>3, <1>5 DEF CommitPurge, Restart

LEMMA RollbackMaps ==
    ASSUME TypeOK, PgInv, NEW p \in Shells, Rollback(p)
    PROVE  DBError(p) \/ UNCHANGED vars
<1>1. CASE Ready(p)
  <2>1. op' = op
    BY <1>1 DEF PgInv, CallTimes, Rollback, Return, TypeOK
  <2> QED BY <2>1 DEF Rollback, vars, tables
<1>2. CASE ~Ready(p)
  <2>1. op[p].pc \in TxCalls
    BY <1>2 DEF PgInv, TxnInv, CallInv, Rollback, TxStages
  <2> QED BY <1>2, <2>1 DEF Rollback, DBError, TxCalls, Running
<1> QED BY <1>1, <1>2

LEMMA CallMaps ==
    ASSUME NEW p \in Shells, BeginCall(p)
    PROVE  LoginStep(p) \/ ChallengeStep(p) \/ EnrollmentStep(p) \/ SessionStep(p)
<1>1. CASE \E a \in Accounts, good \in BOOLEAN : AuthenticateLoad(p, a, good)
  BY <1>1 DEF LoginStep
<1>2. CASE AnswerStep(p)
  BY <1>2 DEF ChallengeStep
<1>3. CASE \/ \E a \in Accounts : BeginLoad(p, a) \/ CancelLoad(p, a)
           \/ \E a \in Accounts, code \in Codes : \E keep \in Keepable(a) :
                 ConfirmLoad(p, a, code, keep) \/ DisableLoad(p, a, code, keep)
  BY <1>3 DEF EnrollmentStep
<1>4. CASE \E i \in DOMAIN sessions : ResolveLoad(p, i) \/ LogoutLoad(p, i)
  BY <1>4 DEF SessionStep
<1> QED BY <1>1, <1>2, <1>3, <1>4 DEF BeginCall

LEMMA PgStepMaps == TypeOK /\ PgInv /\ [PgNext]_pgVars => [Next]_vars
<1> SUFFICES ASSUME TypeOK, PgInv, [PgNext]_pgVars PROVE [Next]_vars
  OBVIOUS
<1>1. ASSUME NEW p \in Shells, LoginStep(p) \/ ChallengeStep(p) \/ EnrollmentStep(p)
                                 \/ SessionStep(p) \/ FailureStep(p)
      PROVE  Next
  BY <1>1 DEF Next
<1>2. CASE UNCHANGED pgVars
  BY <1>2 DEF pgVars
<1>3. CASE Tick /\ UNCHANGED <<txn, calls>>
  BY <1>3 DEF Next
<1>4. ASSUME NEW p \in Shells, TxStep(p) PROVE [Next]_vars
  <2>1. ASSUME CommitRegister(p) PROVE LoginStep(p)
    BY <2>1, CommitRegisterMaps DEF LoginStep
  <2>2. ASSUME CommitLogin(p) PROVE LoginStep(p) \/ ChallengeStep(p)
    BY <2>2, CommitLoginMaps DEF LoginStep, ChallengeStep
  <2>3. ASSUME CommitPosture(p) PROVE EnrollmentStep(p)
    BY <2>3, CommitPostureMaps DEF EnrollmentStep
  <2>4. ASSUME NEW acked \in BOOLEAN, CommitFailure(p, acked)
        PROVE  LoginStep(p) \/ ChallengeStep(p)
    BY <2>4, CommitFailureMaps DEF LoginStep, ChallengeStep
  <2>5. ASSUME ~CommitRegister(p), ~CommitLogin(p), ~CommitPosture(p),
               \A acked \in BOOLEAN : ~CommitFailure(p, acked)
        PROVE  UNCHANGED vars
    BY <1>4, <2>5 DEF TxStep, BeginTx, UpdateAccount, InsertAccount, NameTaken, BeginRevoke,
       RevokeRow
  <2> QED BY <1>1, <2>1, <2>2, <2>3, <2>4, <2>5
<1>5. ASSUME NEW p \in Shells, PurgeStep(p) PROVE [Next]_vars
  <2>1. ASSUME CommitPurge(p) PROVE FailureStep(p)
    BY <2>1, CommitPurgeMaps DEF FailureStep
  <2> QED BY <1>1, <1>5, <2>1 DEF PurgeStep, BeginPurge, PurgeRow
<1>6. ASSUME NEW p \in Shells, SaveAccount(p) PROVE [Next]_vars
  BY <1>1, <1>6 DEF SaveAccount, LoginStep, EnrollmentStep
<1>7. ASSUME NEW p \in Shells, SaveSession(p) PROVE [Next]_vars
  BY <1>1, <1>7 DEF SaveSession, SessionStep
<1>8. ASSUME NEW p \in Shells, BeginCall(p) PROVE [Next]_vars
  BY <1>1, <1>8, CallMaps
<1>13. ASSUME NEW p \in Shells, AnswerCode(p) PROVE [Next]_vars
  BY <1>1, <1>13 DEF AnswerCode, ChallengeStep
<1>9. ASSUME NEW p \in Shells, ParkLogin(p) PROVE [Next]_vars
  BY <1>1, <1>9 DEF ParkLogin, LoginStep
<1>10. ASSUME NEW p \in Shells, CallFails(p) \/ Rollback(p) PROVE [Next]_vars
  BY <1>1, <1>10, RollbackMaps DEF CallFails, FailureStep
<1>11. ASSUME NEW p \in Shells, NEW a, BeginRegister(p, a) \/ PurgeFails(p)
       PROVE  [Next]_vars
  BY <1>11 DEF BeginRegister, PurgeFails
<1>12. ASSUME NEW p \in Shells, KillProcess(p) PROVE [Next]_vars
  <2>1. {} \in SUBSET PurgeableIds
    OBVIOUS
  <2> QED BY <1>1, <1>12, <2>1 DEF KillProcess, FailureStep
<1> QED BY <1>2, <1>3, <1>4, <1>5, <1>6, <1>7, <1>8, <1>9, <1>10, <1>11, <1>12, <1>13
    DEF PgNext

(***************************************************************************)
(* The invariant is kept.                                                  *)
(***************************************************************************)
LEMMA TimesStep == TypeOK /\ CallTimes /\ [Next]_vars => CallTimes'
<1> SUFFICES ASSUME TypeOK, CallTimes, [Next]_vars, NEW p \in Shells
             PROVE  (Ready(p)' => op'[p] = Idle) /\ op'[p].at <= clock'
  BY DEF CallTimes
<1>1. CallStep(p)
  BY CallsFlow DEF CallsStep
<1>2. clock \in Nat /\ clock' \in Nat /\ clock <= clock'
  BY Monotone DEF TypeOK
<1>3. op[p] \in Call /\ op[p].at \in Nat /\ op[p].at <= clock /\ (Ready(p) => op[p] = Idle)
  BY DEF TypeOK, Call, CallTimes
<1>4. CASE op'[p] = op[p]
  BY <1>2, <1>3, <1>4 DEF Ready, Running
<1>5. CASE op'[p] = Idle
  <2>1. Idle.at = 0
    BY DEF Idle, Unset
  <2> QED BY <1>2, <1>5, <2>1
<1>6. CASE Running(p, "clearLock") /\ op'[p] = [op[p] EXCEPT !.pc = "verify"]
  <2>1. op'[p].pc = "verify" /\ op'[p].at = op[p].at
    BY <1>3, <1>6 DEF Call
  <2> QED BY <1>2, <1>3, <2>1 DEF Ready, Running
<1>7. CASE /\ Running(p, "verify")
           /\ op'[p] = [op[p] EXCEPT !.row = [op[p].row EXCEPT !.cost = HashCost[p]]]
  <2>1. op'[p].pc = op[p].pc /\ op'[p].at = op[p].at /\ op[p].pc = "verify"
    BY <1>3, <1>7 DEF Call, Running
  <2> QED BY <1>2, <1>3, <2>1 DEF Ready, Running
<1>8. CASE \E a \in DOMAIN users : LoginLoaded(p, a) \/ EnrollmentLoaded(p, a)
  <2>1. op'[p].pc # "idle" /\ op'[p].at \in {clock, 0}
    BY <1>8 DEF LoginLoaded, EnrollmentLoaded, Unset
  <2> QED BY <1>2, <2>1 DEF Ready, Running
<1>9. CASE \E i \in DOMAIN sessions : SessionLoaded(p, i)
  <2>1. op'[p].pc # "idle" /\ op'[p].at = 0
    BY <1>9 DEF SessionLoaded, Unset
  <2> QED BY <1>2, <2>1 DEF Ready, Running
<1>10. CASE ParkedLoaded(p)
  <2>1. op'[p].pc # "idle" /\ op'[p].at = 0
    BY <1>10 DEF ParkedLoaded, Unset
  <2> QED BY <1>2, <2>1 DEF Ready, Running
<1>11. CASE CodeJudged(p)
  <2>1. op'[p].pc # "idle" /\ op'[p].at = clock
    BY <1>3, <1>11 DEF CodeJudged, Call
  <2> QED BY <1>2, <2>1 DEF Ready, Running
<1> QED BY <1>1, <1>4, <1>5, <1>6, <1>7, <1>8, <1>9, <1>10, <1>11 DEF CallStep

\* What the other processes do to the tables while q has its transaction open:
\* they leave the rows it has locked alone, and bring no session for the account
\* it has locked.
Undisturbed(q) ==
    /\ \A i \in txn[q].held : i \in DOMAIN sessions' /\ sessions'[i] = sessions[i]
    /\ \A i \in DOMAIN sessions' \cap DOMAIN sessions :
          /\ sessions'[i].owner = sessions[i].owner
          /\ sessions[i].revoked => sessions'[i].revoked
    /\ \A i \in DOMAIN sessions' \ DOMAIN sessions :
          i = nextSid /\ ~(txn[q].row /\ sessions'[i].owner = txn[q].acct)
    /\ nextSid' \in Nat /\ nextSid <= nextSid'
    /\ txn[q].row /\ txn[q].acct \notin DOMAIN users => txn[q].acct \notin DOMAIN users'
    /\ clock' \in Nat /\ clock <= clock'

\* Nothing but a COMMIT and a statement outside of a transaction writes a table.
Commits(p) ==
    \/ CommitRegister(p) \/ CommitLogin(p) \/ CommitPosture(p)
    \/ \E acked \in BOOLEAN : CommitFailure(p, acked)
    \/ CommitPurge(p) \/ SaveAccount(p) \/ SaveSession(p)

\* A step of shell p.
StepOf(p) ==
    \/ TxStep(p) \/ PurgeStep(p) \/ SaveAccount(p) \/ SaveSession(p) \/ BeginCall(p)
    \/ AnswerCode(p) \/ ParkLogin(p) \/ CallFails(p) \/ (\E a \in Accounts : BeginRegister(p, a))
    \/ Rollback(p) \/ PurgeFails(p) \/ KillProcess(p)

LEMMA TablesKept ==
    ASSUME TypeOK, NEW p \in Shells, StepOf(p), ~Commits(p)
    PROVE  UNCHANGED tables
<1>1. CASE TxStep(p)
  BY <1>1 DEF TxStep, Commits, BeginTx, UpdateAccount, InsertAccount, NameTaken, BeginRevoke,
     RevokeRow, vars, tables
<1>2. CASE PurgeStep(p)
  BY <1>2 DEF PurgeStep, Commits, BeginPurge, PurgeRow, vars, tables
<1>3. CASE BeginCall(p) \/ AnswerCode(p)
  <2>1. CASE AnswerStep(p)
    BY <2>1, AnswerQuiet DEF tables
  <2> QED BY <1>3, <2>1
      DEF BeginCall, AnswerCode, AuthenticateLoad, BeginLoad, CancelLoad, ConfirmLoad,
          DisableLoad, ResolveLoad, LogoutLoad
<1>4. ASSUME NEW a,
             \/ ParkLogin(p) \/ CallFails(p) \/ BeginRegister(p, a) \/ Rollback(p)
             \/ PurgeFails(p)
      PROVE  UNCHANGED tables
  BY <1>4 DEF ParkLogin, Park, CallFails, DBError, BeginRegister, Rollback, PurgeFails, vars,
     tables
<1>5. CASE KillProcess(p)
  <2>1. DeleteExpired({}) /\ UNCHANGED <<users, nextSid>>
    BY <1>5 DEF KillProcess, Restart
  <2>2. UNCHANGED sessions
    BY <2>1 DEF DeleteExpired, TypeOK
  <2> QED BY <2>1, <2>2 DEF tables
<1> QED BY <1>1, <1>2, <1>3, <1>4, <1>5 DEF StepOf, Commits

LEMMA UndisturbedStep ==
    ASSUME TypeOK, PgInv, [PgNext]_pgVars,
           NEW p \in Shells, StepOf(p), NEW q \in Shells \ {p}
    PROVE  Undisturbed(q)
<1>1. [Next]_vars /\ SessionsStep /\ clock \in Nat /\ clock' \in Nat /\ clock <= clock'
  BY PgStepMaps, SessionsFlow, Monotone DEF TypeOK
<1>2. nextSid \in Nat /\ nextSid' \in Nat /\ nextSid <= nextSid'
  BY <1>1, TypeStep DEF SessionsStep, TypeOK
<1>3. \A i \in DOMAIN sessions : sessions[i] \in Session(DOMAIN users)
  BY DEF TypeOK
<1>4. TxnInv(q) /\ txn[q].held \subseteq DOMAIN sessions
  BY DEF PgInv, TxnInv, LockInv
<1>5. CASE ~Commits(p)
  BY <1>1, <1>2, <1>4, <1>5, TablesKept DEF Undisturbed, tables
<1>6. CASE Commits(p)
  <2> USE <1>4
  <2>1. /\ txn[p].held \cap txn[q].held = {}
        /\ ~(txn[p].row /\ txn[q].row /\ txn[p].acct = txn[q].acct)
        /\ TxnInv(p)
    BY DEF PgInv, Exclusive
  <2>2. CASE CommitRegister(p)
    <3>1. txn[p].row /\ DOMAIN users' = DOMAIN users \cup {txn[p].acct}
            /\ UNCHANGED <<sessions, nextSid>>
      BY <2>1, <2>2 DEF CommitRegister, CanCommit, In, TxnInv, LockInv, Insert
    <3> QED BY <1>1, <1>2, <2>1, <3>1 DEF Undisturbed
  <2>3. CASE CommitLogin(p)
    <3>1. /\ txn[p].row /\ nextSid \notin DOMAIN sessions
          /\ DOMAIN sessions' = DOMAIN sessions \cup {nextSid}
          /\ sessions'[nextSid].owner = txn[p].acct
          /\ \A i \in DOMAIN sessions : sessions'[i] = sessions[i]
          /\ DOMAIN users' = DOMAIN users
      BY <2>1, <2>3 DEF CommitLogin, CanCommit, In, TxnInv, LockInv, Insert, NewSession,
         UpdateUser, TypeOK
    <3> QED BY <1>1, <1>2, <2>1, <3>1 DEF Undisturbed
  <2>4. CASE CommitPosture(p) \/ \E acked \in BOOLEAN : CommitFailure(p, acked)
    <3>1. /\ RevokeHeld(p) /\ DOMAIN users' = DOMAIN users
      BY <2>4 DEF CommitPosture, CommitFailure, UpdateUser
    <3>2. /\ DOMAIN sessions' = DOMAIN sessions
          /\ \A i \in DOMAIN sessions :
                sessions'[i] = IF i \in txn[p].held THEN [sessions[i] EXCEPT !.revoked = TRUE]
                               ELSE sessions[i]
      BY <3>1 DEF RevokeHeld
    <3>3. \A i \in DOMAIN sessions : /\ sessions'[i].owner = sessions[i].owner
                                     /\ sessions[i].revoked => sessions'[i].revoked
      BY <1>3, <3>2 DEF Session
    <3> QED BY <1>1, <1>2, <2>1, <3>1, <3>2, <3>3 DEF Undisturbed
  <2>5. CASE CommitPurge(p)
    <3>1. /\ DOMAIN sessions' = DOMAIN sessions \ txn[p].held /\ UNCHANGED users
          /\ \A i \in DOMAIN sessions' : sessions'[i] = sessions[i]
      BY <2>5 DEF CommitPurge, DeleteExpired
    <3> QED BY <1>1, <1>2, <2>1, <3>1 DEF Undisturbed
  <2>6. CASE SaveAccount(p)
    <3>1. DOMAIN users' = DOMAIN users /\ UNCHANGED sessions
      BY <2>6 DEF SaveAccount, ClearLockSave, Rehash, SaveRow, UpdateUser
    <3> QED BY <1>1, <1>2, <3>1 DEF Undisturbed
  <2>7. CASE SaveSession(p)
    <3>1. /\ SessionWritable(p, op[p].ref) /\ UNCHANGED users
          /\ DOMAIN sessions' = DOMAIN sessions
          /\ \A i \in DOMAIN sessions : i # op[p].ref => sessions'[i] = sessions[i]
          /\ \A i \in DOMAIN sessions :
                sessions'[i] \in {sessions[i], [sessions[i] EXCEPT !.revoked = TRUE]}
                  \/ ~sessions[i].revoked
          /\ \A i \in DOMAIN sessions :
                \/ sessions'[i] = sessions[i]
                \/ sessions'[i] = [sessions[i] EXCEPT !.revoked = TRUE]
                \/ sessions'[i] = [sessions[i] EXCEPT !.idle = op[p].until]
      BY <2>7 DEF SaveSession, Touch, LogoutRevoke, TouchSession, RevokeSession
    <3>5. \A i \in DOMAIN sessions :
             sessions[i].revoked => [sessions[i] EXCEPT !.revoked = TRUE] = sessions[i]
      BY <1>3 DEF Session
    <3>6. \A i \in DOMAIN sessions : sessions[i].revoked => sessions'[i] = sessions[i]
      BY <3>1, <3>5
    <3>7. \A i \in DOMAIN sessions : sessions'[i].owner = sessions[i].owner
      BY <1>3, <3>1 DEF Session
    <3>2. \A i \in DOMAIN sessions : /\ sessions'[i].owner = sessions[i].owner
                                     /\ sessions[i].revoked => sessions'[i] = sessions[i]
      BY <3>6, <3>7
    <3>3. \A i \in txn[q].held : sessions'[i] = sessions[i]
      BY <3>1, <3>2 DEF SessionWritable, SessionFree
    <3>4. \A i \in DOMAIN sessions : sessions[i].revoked => sessions'[i].revoked
      BY <3>2
    <3> QED BY <1>1, <1>2, <3>1, <3>2, <3>3, <3>4 DEF Undisturbed
  <2> QED BY <1>6, <2>2, <2>3, <2>4, <2>5, <2>6, <2>7 DEF Commits
<1> QED BY <1>5, <1>6

\* A transaction keeps its invariant while others take steps.
LEMMA OthersKept ==
    ASSUME TypeOK, PgInv, NEW q \in Shells, Undisturbed(q),
           txn'[q] = txn[q], op'[q] = op[q], challenges'[q] = challenges[q]
    PROVE  TxnInv(q)'
<1>1. TxnInv(q) /\ txn[q] \in Txn /\ txn[q].now \in Nat /\ clock \in Nat /\ nextSid \in Nat
  BY DEF PgInv, PgTypes, Txn, TypeOK
<1>2. /\ nextSid' \in Nat /\ nextSid <= nextSid' /\ clock' \in Nat /\ clock <= clock'
      /\ DOMAIN sessions \subseteq 1 .. nextSid - 1
  BY DEF Undisturbed, TypeOK
<1>3. CallInv(q)'
  <2>1. txn[q].now <= clock'
    BY <1>1, <1>2 DEF TxnInv, CallInv
  <2>2. In(q, "rows") /\ Ready(q) => txn[q].acct \notin DOMAIN users'
    BY <1>1 DEF TxnInv, CallInv, LockInv, In, Undisturbed
  <2> QED BY <1>1, <2>1, <2>2
      DEF TxnInv, CallInv, In, Ready, Running, PasswordAccepted, Revokes, ChangesPosture,
          CountsFailure
<1>4. LockInv(q)'
  <2>1. txn[q].held \subseteq DOMAIN sessions'
    BY DEF Undisturbed
  <2>2. txn[q].todo \subseteq 1 .. nextSid' - 1
    BY <1>1, <1>2 DEF TxnInv, LockInv
  <2> QED BY <1>1, <2>1, <2>2 DEF TxnInv, LockInv
<1>5. Revokes(q)' <=> Revokes(q)
  BY DEF Revokes, ChangesPosture, CountsFailure, Running
<1>6. Spared(q)' = Spared(q)
  BY DEF Spared, ChangesPosture, Running
<1>7. RevokeInv(q)'
  <2> SUFFICES ASSUME In(q, "rows")
               PROVE  /\ \A i \in txn[q].held : RevokeMatched(q, i)'
                      /\ \A i \in txn[q].todo :
                            i \in DOMAIN sessions' => sessions'[i].owner = txn[q].acct
                      /\ Revokes(q) => \A i : RevokeMatched(q, i)' =>
                                          i \in txn[q].todo \cup txn[q].held
                      /\ ~Revokes(q) => txn[q].todo = {} /\ txn[q].held = {}
    BY <1>5 DEF RevokeInv, In
  <2>1. RevokeInv(q) /\ txn[q].row /\ txn[q].todo \subseteq 1 .. nextSid - 1
    BY <1>1 DEF TxnInv, LockInv, In
  <2>2. \A i \in txn[q].held : RevokeMatched(q, i)'
    BY <1>6, <2>1 DEF RevokeInv, RevokeMatched, Undisturbed
  <2>3. ASSUME NEW i \in txn[q].todo, i \in DOMAIN sessions'
        PROVE  sessions'[i].owner = txn[q].acct
    <3>1. i # nextSid
      BY <1>1, <2>1, <2>3
    <3>2. i \in DOMAIN sessions
      BY <2>3, <3>1 DEF Undisturbed
    <3> QED BY <2>1, <2>3, <3>2 DEF RevokeInv, Undisturbed
  <2>4. ASSUME NEW i, RevokeMatched(q, i)' PROVE RevokeMatched(q, i)
    <3>1. i \in DOMAIN sessions' /\ sessions'[i].owner = txn[q].acct /\ ~sessions'[i].revoked
            /\ (Spared(q) = 0 \/ i # Spared(q))
      BY <1>6, <2>4 DEF RevokeMatched
    <3>2. i \in DOMAIN sessions
      BY <2>1, <3>1 DEF Undisturbed
    <3> QED BY <3>1, <3>2 DEF RevokeMatched, Undisturbed
  <2> QED BY <2>1, <2>2, <2>3, <2>4 DEF RevokeInv
<1>8. PurgeInv(q)'
  BY <1>1 DEF TxnInv, PurgeInv, In, Undisturbed
<1> QED BY <1>3, <1>4, <1>7, <1>8 DEF TxnInv

\* The rows a step locks are free.
LEMMA SetKept ==
    ASSUME PgInv, NEW p \in Shells, NEW t \in Txn, SetTxn(p, t),
           t.row => AccountFree(p, t.acct) \/ (txn[p].row /\ t.acct = txn[p].acct),
           \A i \in t.held : i \in txn[p].held \/ SessionFree(p, i)
    PROVE  /\ txn' \in [Shells -> Txn] /\ Exclusive' /\ txn'[p] = t
           /\ \A q \in Shells \ {p} : txn'[q] = txn[q]
<1>1. /\ txn' \in [Shells -> Txn] /\ txn'[p] = t
      /\ \A q \in Shells \ {p} : txn'[q] = txn[q]
  BY DEF PgInv, PgTypes, SetTxn
<1>2. ASSUME NEW q \in Shells \ {p}
      PROVE  /\ ~(t.row /\ txn[q].row /\ t.acct = txn[q].acct)
             /\ t.held \cap txn[q].held = {}
  BY DEF PgInv, Exclusive, AccountFree, SessionFree
<1>3. Exclusive'
  BY <1>1, <1>2 DEF PgInv, Exclusive
<1> QED BY <1>1, <1>3

LEMMA NoTxnType == NoTxn \in Txn /\ Starting \in Txn
  BY DEF NoTxn, Starting, Txn, Stages, Unset

\* What is left to show of a step of p once OthersKept has dealt with the others.
OwnStep(p) ==
    /\ PgTypes' /\ Exclusive' /\ TxnInv(p)'
    /\ \A q \in Shells \ {p} : txn'[q] = txn[q]

LEMMA EndOwn ==
    ASSUME TypeOK, PgInv, NEW p \in Shells, End(p), calls' \in Nat, clock' = clock
    PROVE  OwnStep(p)
<1>1. ~NoTxn.row /\ NoTxn.held = {} /\ NoTxn.todo = {} /\ NoTxn.now = 0 /\ NoTxn.stage = "none"
  BY DEF NoTxn, Unset
<1>2. /\ txn' \in [Shells -> Txn] /\ Exclusive' /\ txn'[p] = NoTxn
      /\ \A q \in Shells \ {p} : txn'[q] = txn[q]
  BY <1>1, NoTxnType, SetKept DEF End
<1>3. TxnInv(p)'
  BY <1>1, <1>2 DEF TxnInv, CallInv, LockInv, RevokeInv, PurgeInv, In, TxStages, TypeOK
<1> QED BY <1>2, <1>3 DEF OwnStep, PgTypes

\* A step of a shell that has no transaction open, and opens none.
LEMMA OutsideOwn ==
    ASSUME TypeOK, PgInv, NEW p \in Shells, In(p, "none"), txn' = txn, calls' \in Nat,
           clock' = clock
    PROVE  OwnStep(p)
<1>1. PgTypes' /\ Exclusive'
  BY DEF PgInv, PgTypes, Exclusive
<1>2. TxnInv(p)'
  BY DEF PgInv, TxnInv, CallInv, LockInv, RevokeInv, PurgeInv, In, TxStages
<1> QED BY <1>1, <1>2 DEF OwnStep

LEMMA BeginOwn ==
    ASSUME TypeOK, PgInv, NEW p \in Shells, NEW a \in Accounts,
           BeginTx(p) \/ BeginRegister(p, a)
    PROVE  OwnStep(p)
<1>1. /\ TxnInv(p) /\ In(p, "none") /\ UNCHANGED vars /\ clock \in Nat /\ calls' \in Nat
      /\ op[p] \in Call
  BY DEF PgInv, PgTypes, BeginTx, BeginRegister, NoTxnOpen, CountCall, TypeOK
<1>2. PICK t : /\ SetTxn(p, t) /\ t \in Txn
               /\ t.stage = "account" /\ ~t.row /\ t.todo = {} /\ t.held = {} /\ t.now <= clock
               /\ Ready(p) => t.acct \in Accounts
               /\ ~Ready(p) => t.acct = op[p].acct /\ t.now = clock
  <2>1. CASE BeginTx(p)
    <3> DEFINE t == [NoTxn EXCEPT !.stage = "account", !.acct = op[p].acct, !.now = clock]
    <3>1. SetTxn(p, t) /\ ~Ready(p)
      BY <2>1 DEF BeginTx, CountsFailure, PasswordAccepted, ChangesPosture, Running, Ready
    <3>2. t \in Txn
      BY <1>1 DEF NoTxn, Txn, Stages, Call
    <3>3. /\ t.stage = "account" /\ ~t.row /\ t.todo = {} /\ t.held = {}
          /\ t.acct = op[p].acct /\ t.now = clock
      BY DEF NoTxn
    <3> HIDE DEF t
    <3> QED BY <1>1, <3>1, <3>2, <3>3
  <2>2. CASE BeginRegister(p, a)
    <3> DEFINE t == [NoTxn EXCEPT !.stage = "account", !.acct = a]
    <3>1. SetTxn(p, t) /\ Ready(p)
      BY <2>2 DEF BeginRegister
    <3>2. t \in Txn
      BY DEF NoTxn, Txn, Stages, Unset
    <3>3. /\ t.stage = "account" /\ ~t.row /\ t.todo = {} /\ t.held = {}
          /\ t.acct = a /\ t.now = 0
      BY DEF NoTxn, Unset
    <3> HIDE DEF t
    <3> QED BY <1>1, <3>1, <3>2, <3>3
  <2> QED BY <2>1, <2>2
<1>3. /\ txn' \in [Shells -> Txn] /\ Exclusive' /\ txn'[p] = t
      /\ \A q \in Shells \ {p} : txn'[q] = txn[q]
  BY <1>2, SetKept
<1>4. op' = op /\ clock' = clock /\ users' = users /\ sessions' = sessions
  BY <1>1 DEF vars
<1>5. ~Ready(p) => /\ op[p].pc \in TxCalls
                   /\ Running(p, "verify") /\ op[p].good =>
                         PasswordAccepted(p) /\ ~op[p].row.enabled
  BY DEF BeginTx, BeginRegister, CountsFailure, PasswordAccepted, ChangesPosture, Running,
     Ready, TxCalls
<1>6. CallInv(p)'
  <2>1. op[p].at <= clock
    BY DEF PgInv, CallTimes
  <2> QED BY <1>2, <1>3, <1>4, <1>5, <2>1
      DEF CallInv, In, Ready, Running, PasswordAccepted
<1>7. LockInv(p)' /\ RevokeInv(p)' /\ PurgeInv(p)'
  BY <1>2, <1>3 DEF LockInv, RevokeInv, PurgeInv, In
<1> QED BY <1>1, <1>3, <1>6, <1>7 DEF OwnStep, PgTypes, TxnInv

\* The account row is locked, and the call goes on to its sessions or to COMMIT.
LEMMA LockOwn ==
    ASSUME TypeOK, PgInv, NEW p \in Shells, UpdateAccount(p) \/ InsertAccount(p)
    PROVE  OwnStep(p)
<1>1. /\ TxnInv(p) /\ In(p, "account") /\ UNCHANGED <<vars, calls>> /\ clock \in Nat
      /\ txn[p] \in Txn /\ AccountFree(p, txn[p].acct)
      /\ InsertAccount(p) => txn[p].acct \notin DOMAIN users
  BY DEF PgInv, PgTypes, UpdateAccount, InsertAccount, TypeOK
<1>2. PICK t : /\ SetTxn(p, t) /\ t \in Txn
               /\ t.stage \in {"revoke", "rows"} /\ t.row /\ t.acct = txn[p].acct
               /\ t.todo = {} /\ t.held = {} /\ t.now \in {txn[p].now, clock}
               /\ t.stage = "revoke" => Revokes(p)
               /\ t.stage = "rows" => ~Revokes(p)
               /\ Ready(p) <=> InsertAccount(p)
  <2>1. CASE UpdateAccount(p)
    <3> DEFINE t == [txn[p] EXCEPT !.stage = IF Revokes(p) THEN "revoke" ELSE "rows",
                                   !.row = TRUE,
                                   !.now = IF LogsIn(p) THEN clock ELSE @]
    <3>1. SetTxn(p, t) /\ ~Ready(p) /\ ~InsertAccount(p)
      BY <2>1 DEF UpdateAccount, InsertAccount, Registering
    <3>2. t \in Txn
      BY <1>1 DEF Txn, Stages
    <3>3. txn[p].todo = {} /\ txn[p].held = {}
      BY <1>1 DEF TxnInv, LockInv, In
    <3>4. /\ t.stage = (IF Revokes(p) THEN "revoke" ELSE "rows")
          /\ t.row /\ t.acct = txn[p].acct /\ t.todo = txn[p].todo /\ t.held = txn[p].held
          /\ t.now = IF LogsIn(p) THEN clock ELSE txn[p].now
      BY <1>1 DEF Txn
    <3> HIDE DEF t
    <3> QED BY <3>1, <3>2, <3>3, <3>4
  <2>2. CASE InsertAccount(p)
    <3> DEFINE t == [txn[p] EXCEPT !.stage = "rows", !.row = TRUE]
    <3>1. SetTxn(p, t) /\ Ready(p)
      BY <2>2 DEF InsertAccount, Registering
    <3>2. t \in Txn
      BY <1>1 DEF Txn, Stages
    <3>3. txn[p].todo = {} /\ txn[p].held = {}
      BY <1>1 DEF TxnInv, LockInv, In
    <3>4. /\ t.stage = "rows" /\ t.row /\ t.acct = txn[p].acct /\ t.todo = txn[p].todo
          /\ t.held = txn[p].held /\ t.now = txn[p].now
      BY <1>1 DEF Txn
    <3>5. ~Revokes(p)
      BY <3>1 DEF Ready, Running, Revokes, ChangesPosture, CountsFailure
    <3> HIDE DEF t
    <3> QED BY <2>2, <3>1, <3>2, <3>3, <3>4, <3>5
  <2> QED BY <2>1, <2>2
<1>3. /\ txn' \in [Shells -> Txn] /\ Exclusive' /\ txn'[p] = t
      /\ \A q \in Shells \ {p} : txn'[q] = txn[q]
  BY <1>1, <1>2, SetKept
<1>4. op' = op /\ clock' = clock /\ users' = users /\ sessions' = sessions /\ nextSid' = nextSid
  BY <1>1 DEF vars
<1>5. Revokes(p)' <=> Revokes(p)
  BY <1>4 DEF Revokes, ChangesPosture, CountsFailure, Running
<1>6. CallInv(p)'
  <2>1. CallInv(p) /\ op[p].at <= clock
    BY <1>1 DEF PgInv, CallTimes, TxnInv
  <2>2. /\ txn[p].now <= clock /\ clock <= clock
        /\ Ready(p) => txn[p].acct \in Accounts
        /\ ~Ready(p) =>
             /\ op[p].pc \in TxCalls /\ txn[p].acct = op[p].acct /\ op[p].at <= txn[p].now
             /\ Running(p, "verify") /\ op[p].good =>
                   PasswordAccepted(p) /\ ~op[p].row.enabled
    BY <1>1, <2>1 DEF CallInv, In, TxStages
  <2>3. /\ t.now <= clock
        /\ ~Ready(p) => op[p].at <= t.now
    BY <1>2, <2>1, <2>2
  <2> QED BY <1>1, <1>2, <1>3, <1>4, <1>5, <2>2, <2>3
      DEF CallInv, In, Ready, Running, PasswordAccepted
<1>7. LockInv(p)' /\ PurgeInv(p)'
  BY <1>2, <1>3 DEF LockInv, PurgeInv, In
<1>8. RevokeInv(p)'
  BY <1>2, <1>3, <1>5 DEF RevokeInv, In
<1> QED BY <1>1, <1>3, <1>6, <1>7, <1>8 DEF OwnStep, PgTypes, TxnInv, PgInv

\* The rows a revocation has to look at, and each of them.
LEMMA RevokeOwn ==
    ASSUME TypeOK, PgInv, NEW p \in Shells,
           BeginRevoke(p) \/ \E i \in txn[p].todo : RevokeRow(p, i)
    PROVE  OwnStep(p)
<1> DEFINE All == {i \in DOMAIN sessions : RevokeMatched(p, i)}
<1>1. /\ TxnInv(p) /\ txn[p] \in Txn /\ txn[p].row
      /\ In(p, "revoke") \/ In(p, "rows")
      /\ UNCHANGED <<vars, calls>> /\ nextSid \in Nat
      /\ DOMAIN sessions \subseteq 1 .. nextSid - 1
  BY DEF PgInv, PgTypes, TxnInv, LockInv, BeginRevoke, RevokeRow, In, TypeOK
<1>2. PICK t : /\ SetTxn(p, t) /\ t \in Txn
               /\ t.stage = "rows" /\ t.row /\ t.acct = txn[p].acct /\ t.now = txn[p].now
               /\ t.todo \subseteq 1 .. nextSid - 1
               /\ \A i \in t.held : RevokeMatched(p, i)
               /\ \A i \in t.held : i \in txn[p].held \/ SessionFree(p, i)
               /\ \A i \in t.todo : i \in DOMAIN sessions => sessions[i].owner = txn[p].acct
               /\ \A i \in All : i \in t.todo \cup t.held
               /\ Revokes(p)
  <2>1. CASE BeginRevoke(p)
    <3> DEFINE t == [txn[p] EXCEPT !.stage = "rows", !.todo = All]
    <3>1. SetTxn(p, t)
      BY <2>1 DEF BeginRevoke
    <3>5. All \in SUBSET Nat
      BY <1>1
    <3>2. t \in Txn
      BY <1>1, <3>5 DEF Txn, Stages
    <3>3. txn[p].held = {} /\ Revokes(p)
      BY <1>1, <2>1 DEF TxnInv, LockInv, CallInv, In, BeginRevoke
    <3>4. /\ t.stage = "rows" /\ t.row /\ t.acct = txn[p].acct /\ t.todo = All
          /\ t.held = txn[p].held /\ t.now = txn[p].now
      BY <1>1 DEF Txn
    <3> HIDE DEF t
    <3> QED BY <1>1, <3>1, <3>2, <3>3, <3>4 DEF RevokeMatched
  <2>2. ASSUME NEW j \in txn[p].todo, RevokeRow(p, j)
        PROVE  \E t : /\ SetTxn(p, t) /\ t \in Txn
                      /\ t.stage = "rows" /\ t.row /\ t.acct = txn[p].acct
                      /\ t.now = txn[p].now
                      /\ t.todo \subseteq 1 .. nextSid - 1
                      /\ \A i \in t.held : RevokeMatched(p, i)
                      /\ \A i \in t.held : i \in txn[p].held \/ SessionFree(p, i)
                      /\ \A i \in t.todo :
                            i \in DOMAIN sessions => sessions[i].owner = txn[p].acct
                      /\ \A i \in All : i \in t.todo \cup t.held
                      /\ Revokes(p)
    <3> DEFINE t == [txn[p] EXCEPT !.todo = @ \ {j},
                                   !.held = IF RevokeMatched(p, j) THEN @ \cup {j} ELSE @]
    <3>1. SetTxn(p, t) /\ SessionFree(p, j) /\ In(p, "rows")
      BY <2>2 DEF RevokeRow
    <3>2. t \in Txn
      BY <1>1 DEF Txn
    <3>3. RevokeInv(p) /\ Revokes(p) /\ txn[p].todo \subseteq 1 .. nextSid - 1
      BY <1>1, <3>1 DEF TxnInv, LockInv, RevokeInv
    <3>4. /\ t.stage = txn[p].stage /\ t.row /\ t.acct = txn[p].acct
          /\ t.todo = txn[p].todo \ {j} /\ t.now = txn[p].now
          /\ t.held = IF RevokeMatched(p, j) THEN txn[p].held \cup {j} ELSE txn[p].held
      BY <1>1 DEF Txn
    <3> HIDE DEF t
    <3>5. /\ \A i \in t.held : RevokeMatched(p, i) /\ (i \in txn[p].held \/ SessionFree(p, i))
          /\ \A i \in t.todo : i \in DOMAIN sessions => sessions[i].owner = txn[p].acct
          /\ \A i \in All : i \in t.todo \cup t.held
      BY <3>1, <3>3, <3>4 DEF RevokeInv
    <3> QED BY <3>1, <3>2, <3>3, <3>4, <3>5 DEF In
  <2> QED BY <2>1, <2>2
<1>3. /\ txn' \in [Shells -> Txn] /\ Exclusive' /\ txn'[p] = t
      /\ \A q \in Shells \ {p} : txn'[q] = txn[q]
  BY <1>1, <1>2, SetKept
<1>4. op' = op /\ clock' = clock /\ users' = users /\ sessions' = sessions /\ nextSid' = nextSid
  BY <1>1 DEF vars
<1>5. /\ Revokes(p)' /\ ~Ready(p)
      /\ \A i : RevokeMatched(p, i)' <=> RevokeMatched(p, i)
  BY <1>2, <1>3, <1>4
  DEF Revokes, Spared, RevokeMatched, ChangesPosture, CountsFailure, Running, Ready
<1>6. CallInv(p)'
  BY <1>1, <1>2, <1>3, <1>4, <1>5
  DEF TxnInv, CallInv, In, TxStages, Ready, Running, PasswordAccepted
<1>7. LockInv(p)' /\ PurgeInv(p)'
  BY <1>2, <1>3, <1>4 DEF LockInv, PurgeInv, In, RevokeMatched
<1>8. RevokeInv(p)'
  <2>1. \A i : RevokeMatched(p, i) => i \in t.todo \cup t.held
    BY <1>2 DEF RevokeMatched
  <2> QED BY <1>2, <1>3, <1>4, <1>5, <2>1 DEF RevokeInv
<1> QED BY <1>1, <1>3, <1>6, <1>7, <1>8 DEF OwnStep, PgTypes, TxnInv, PgInv

LEMMA PurgeOwn ==
    ASSUME TypeOK, PgInv, NEW p \in Shells,
           BeginPurge(p) \/ \E i \in txn[p].todo : PurgeRow(p, i)
    PROVE  OwnStep(p)
<1>1. /\ TxnInv(p) /\ txn[p] \in Txn
      /\ In(p, "start") \/ In(p, "purge")
      /\ UNCHANGED <<vars, calls>> /\ nextSid \in Nat /\ clock \in Nat
      /\ DOMAIN sessions \subseteq 1 .. nextSid - 1
  BY DEF PgInv, PgTypes, BeginPurge, PurgeRow, TypeOK
<1>2. PICK t : /\ SetTxn(p, t) /\ t \in Txn
               /\ t.stage = "purge" /\ t.now <= clock
               /\ t.row => txn[p].row /\ t.acct = txn[p].acct
               /\ t.todo \subseteq 1 .. nextSid - 1 /\ t.held \subseteq DOMAIN sessions
               /\ \A i \in t.held : Purgeable(sessions[i], t.now)
               /\ \A i \in t.held : i \in txn[p].held \/ SessionFree(p, i)
  <2>1. CASE BeginPurge(p)
    <3> DEFINE t == [NoTxn EXCEPT !.stage = "purge", !.todo = PurgeableIds, !.now = clock]
    <3>1. SetTxn(p, t)
      BY <2>1 DEF BeginPurge
    <3>2. PurgeableIds \subseteq 1 .. nextSid - 1 /\ PurgeableIds \in SUBSET Nat
      BY <1>1 DEF PurgeableIds
    <3>3. t \in Txn
      BY <1>1, <3>2 DEF NoTxn, Txn, Stages
    <3>4. /\ t.stage = "purge" /\ ~t.row /\ t.todo = PurgeableIds /\ t.held = {}
          /\ t.now = clock
      BY DEF NoTxn
    <3> HIDE DEF t
    <3>5. clock <= clock
      BY <1>1
    <3> QED BY <3>1, <3>2, <3>3, <3>4, <3>5
  <2>2. ASSUME NEW j \in txn[p].todo, PurgeRow(p, j)
        PROVE  \E t : /\ SetTxn(p, t) /\ t \in Txn
                      /\ t.stage = "purge" /\ t.now <= clock
                      /\ t.row => txn[p].row /\ t.acct = txn[p].acct
                      /\ t.todo \subseteq 1 .. nextSid - 1 /\ t.held \subseteq DOMAIN sessions
                      /\ \A i \in t.held : Purgeable(sessions[i], t.now)
                      /\ \A i \in t.held : i \in txn[p].held \/ SessionFree(p, i)
    <3> DEFINE dead == j \in DOMAIN sessions /\ Purgeable(sessions[j], txn[p].now)
               t == [txn[p] EXCEPT !.todo = @ \ {j},
                                   !.held = IF dead THEN @ \cup {j} ELSE @]
    <3>1. SetTxn(p, t) /\ SessionFree(p, j) /\ In(p, "purge")
      BY <2>2 DEF PurgeRow
    <3>2. t \in Txn
      BY <1>1 DEF Txn
    <3>3. /\ PurgeInv(p) /\ txn[p].todo \subseteq 1 .. nextSid - 1
          /\ txn[p].held \subseteq DOMAIN sessions /\ txn[p].now <= clock
      BY <1>1, <3>1 DEF TxnInv, LockInv, CallInv
    <3>4. /\ t.stage = txn[p].stage /\ t.row = txn[p].row /\ t.acct = txn[p].acct
          /\ t.todo = txn[p].todo \ {j} /\ t.now = txn[p].now
          /\ t.held = IF dead THEN txn[p].held \cup {j} ELSE txn[p].held
      BY <1>1 DEF Txn
    <3> HIDE DEF t
    <3>5. \A i \in t.held : /\ i \in DOMAIN sessions /\ Purgeable(sessions[i], txn[p].now)
                            /\ i \in txn[p].held \/ SessionFree(p, i)
      BY <3>1, <3>3, <3>4 DEF PurgeInv
    <3> QED BY <3>1, <3>2, <3>3, <3>4, <3>5 DEF In
  <2> QED BY <2>1, <2>2
<1>3. /\ txn' \in [Shells -> Txn] /\ Exclusive' /\ txn'[p] = t
      /\ \A q \in Shells \ {p} : txn'[q] = txn[q]
  BY <1>1, <1>2, SetKept
<1>4. UNCHANGED <<op, clock, users, sessions, nextSid, challenges>>
  BY <1>1 DEF vars
<1>5. Ready(p) /\ challenges[p] = {}
  BY <1>1 DEF TxnInv, CallInv, In
<1>6. CallInv(p)' /\ LockInv(p)' /\ RevokeInv(p)' /\ PurgeInv(p)'
  BY <1>2, <1>3, <1>4, <1>5
  DEF CallInv, LockInv, RevokeInv, PurgeInv, In, TxStages, Ready, Running
<1> QED BY <1>1, <1>3, <1>6 DEF OwnStep, PgTypes, TxnInv, PgInv

LEMMA KillOwn ==
    ASSUME TypeOK, PgInv, NEW p \in Shells, KillProcess(p)
    PROVE  OwnStep(p)
<1>1. /\ op'[p] = Idle /\ challenges'[p] = {} /\ clock' = clock /\ calls' \in Nat
      /\ nextSid' = nextSid /\ clock \in Nat
  BY DEF KillProcess, Restart, TypeOK, PgInv, PgTypes
<1>2. /\ ~Starting.row /\ Starting.held = {} /\ Starting.todo = {} /\ Starting.now = 0
      /\ Starting.stage = "start"
  BY DEF Starting, NoTxn, Unset
<1>3. /\ txn' \in [Shells -> Txn] /\ Exclusive' /\ txn'[p] = Starting
      /\ \A q \in Shells \ {p} : txn'[q] = txn[q]
  BY <1>2, NoTxnType, SetKept DEF KillProcess
<1>4. TxnInv(p)'
  BY <1>1, <1>2, <1>3
  DEF TxnInv, CallInv, LockInv, RevokeInv, PurgeInv, In, TxStages, Ready, Running, Idle
<1> QED BY <1>1, <1>3, <1>4 DEF OwnStep, PgTypes

\* A step of p leaves the stacks and the challenges of the others alone.
OnlyOwn(p) ==
    \A q \in Shells \ {p} : op'[q] = op[q] /\ challenges'[q] = challenges[q]

LEMMA OnlyOwnStep ==
    ASSUME TypeOK, NEW p \in Shells, StepOf(p)
    PROVE  OnlyOwn(p)
<1>1. ASSUME UNCHANGED <<op, challenges>> PROVE OnlyOwn(p)
  BY <1>1 DEF OnlyOwn
<1>2. ASSUME NEW call, op' = [op EXCEPT ![p] = call], UNCHANGED challenges PROVE OnlyOwn(p)
  BY <1>2 DEF OnlyOwn, TypeOK
<1>3. ASSUME NEW call, NEW store, op' = [op EXCEPT ![p] = call],
             challenges' = [challenges EXCEPT ![p] = store]
      PROVE  OnlyOwn(p)
  BY <1>3 DEF OnlyOwn, TypeOK
<1>4. ASSUME NEW store, UNCHANGED op, challenges' = [challenges EXCEPT ![p] = store]
      PROVE  OnlyOwn(p)
  BY <1>4 DEF OnlyOwn, TypeOK
<1>5. CASE TxStep(p)
  <2>1. ASSUME NEW acked \in BOOLEAN, CommitFailure(p, acked) PROVE OnlyOwn(p)
    BY <1>2, <1>3, <2>1 DEF CommitFailure, DeleteChallenge, Return
  <2>2. CASE CommitRegister(p) \/ CommitLogin(p) \/ CommitPosture(p)
    BY <1>1, <1>2, <2>2 DEF CommitRegister, CommitLogin, CommitPosture, Return
  <2> QED BY <1>1, <1>5, <2>1, <2>2
      DEF TxStep, BeginTx, UpdateAccount, InsertAccount, NameTaken, BeginRevoke, RevokeRow,
          vars
<1>6. CASE PurgeStep(p)
  BY <1>1, <1>6 DEF PurgeStep, BeginPurge, PurgeRow, CommitPurge, vars
<1>7. CASE SaveAccount(p)
  <2>1. CASE ClearLockSave(p)
    BY <1>2, <2>1 DEF ClearLockSave
  <2>2. CASE Rehash(p)
    BY <1>2, <2>2 DEF Rehash
  <2>3. CASE SaveRow(p)
    BY <1>2, <2>3 DEF SaveRow, Return
  <2> QED BY <1>7, <2>1, <2>2, <2>3 DEF SaveAccount
<1>8. CASE SaveSession(p) \/ CallFails(p) \/ Rollback(p)
  BY <1>2, <1>8 DEF SaveSession, Touch, LogoutRevoke, CallFails, DBError, Rollback, Return
<1>9. CASE BeginCall(p) \/ AnswerCode(p)
  <2>1. CASE AnswerStep(p)
    <3>1. ASSUME NEW c, FindChallenge(p, c) \/ LoadUser(p) PROVE OnlyOwn(p)
      BY <1>2, <3>1 DEF FindChallenge, LoadUser, Proceed
    <3>2. ASSUME NEW code, CodeWrong(p, code) \/ CodeRight(p, code) PROVE OnlyOwn(p)
      BY <3>2
      DEF CodeWrong, CodeRight, Decide, SaveChallenge, DeleteChallenge, OnlyOwn, TypeOK
    <3>3. CASE Discards(p)
      BY <1>1, <1>2, <1>3, <1>4, <3>3 DEF Discards, Return, DeleteChallenge
    <3> QED BY <2>1, <3>1, <3>2, <3>3, AnswerCases
  <2>2. ASSUME NEW a, NEW good, NEW code, NEW keep, NEW i,
               \/ AuthenticateLoad(p, a, good) \/ BeginLoad(p, a) \/ CancelLoad(p, a)
               \/ ConfirmLoad(p, a, code, keep) \/ DisableLoad(p, a, code, keep)
               \/ ResolveLoad(p, i) \/ LogoutLoad(p, i)
        PROVE  OnlyOwn(p)
    BY <1>2, <2>2
    DEF AuthenticateLoad, BeginLoad, CancelLoad, ConfirmLoad, DisableLoad, Proceed,
        ResolveLoad, LogoutLoad
  <2> QED BY <1>9, <2>1, <2>2 DEF BeginCall, AnswerCode
<1>10. CASE ParkLogin(p)
  BY <1>3, <1>10 DEF ParkLogin, Park, SaveChallenge, Return
<1>11. CASE (\E a \in Accounts : BeginRegister(p, a)) \/ PurgeFails(p)
  BY <1>1, <1>11 DEF BeginRegister, PurgeFails, vars
<1>12. CASE KillProcess(p)
  BY <1>3, <1>12 DEF KillProcess, Restart
<1> QED BY <1>5, <1>6, <1>7, <1>8, <1>9, <1>10, <1>11, <1>12 DEF StepOf

LEMMA OwnKept ==
    ASSUME TypeOK, PgInv, NEW p \in Shells, StepOf(p)
    PROVE  OwnStep(p)
<1> calls \in Nat
  BY DEF PgInv, PgTypes
<1>1. CASE BeginTx(p) \/ \E a \in Accounts : BeginRegister(p, a)
  <2>1. CASE BeginTx(p)
    <3>1. op[p].acct \in Accounts
      BY <2>1 DEF BeginTx, CountsFailure, PasswordAccepted, ChangesPosture, Running, Ready,
         TypeOK
    <3> QED BY <2>1, <3>1, BeginOwn
  <2> QED BY <1>1, <2>1, BeginOwn
<1>2. CASE UpdateAccount(p) \/ InsertAccount(p)
  BY <1>2, LockOwn
<1>3. CASE BeginRevoke(p) \/ \E i \in txn[p].todo : RevokeRow(p, i)
  BY <1>3, RevokeOwn
<1>4. CASE BeginPurge(p) \/ \E i \in txn[p].todo : PurgeRow(p, i)
  BY <1>4, PurgeOwn
<1>5. CASE KillProcess(p)
  BY <1>5, KillOwn
<1>6. ASSUME End(p), UNCHANGED <<calls, clock>> PROVE OwnStep(p)
  BY <1>6, EndOwn
<1>7. CASE \/ NameTaken(p) \/ CommitRegister(p) \/ CommitLogin(p) \/ CommitPosture(p)
           \/ (\E acked \in BOOLEAN : CommitFailure(p, acked))
           \/ CommitPurge(p) \/ Rollback(p) \/ PurgeFails(p)
  BY <1>6, <1>7
  DEF NameTaken, CommitRegister, CommitLogin, CommitPosture, CommitFailure, CommitPurge,
      Rollback, PurgeFails, vars
<1>8. CASE \/ SaveAccount(p) \/ SaveSession(p) \/ BeginCall(p) \/ AnswerCode(p)
           \/ ParkLogin(p) \/ CallFails(p)
  <2>1. In(p, "none") /\ txn' = txn /\ calls' \in Nat
    BY <1>8
    DEF SaveAccount, SaveSession, BeginCall, AnswerCode, ParkLogin, CallFails, NoTxnOpen, CountCall
  <2>2. clock' = clock
    <3>1. CASE BeginCall(p) \/ AnswerCode(p)
      <4>1. CASE AnswerStep(p)
        BY <4>1, AnswerQuiet
      <4> QED BY <3>1, <4>1
          DEF BeginCall, AnswerCode, AuthenticateLoad, BeginLoad, CancelLoad, ConfirmLoad,
              DisableLoad, ResolveLoad, LogoutLoad
    <3>2. CASE SaveAccount(p)
      BY <3>2 DEF SaveAccount, ClearLockSave, Rehash, SaveRow
    <3>3. CASE SaveSession(p) \/ ParkLogin(p) \/ CallFails(p)
      BY <3>3 DEF SaveSession, Touch, LogoutRevoke, ParkLogin, Park, CallFails, DBError
    <3> QED BY <1>8, <3>1, <3>2, <3>3
  <2> QED BY <2>1, <2>2, OutsideOwn
<1> QED BY <1>1, <1>2, <1>3, <1>4, <1>5, <1>7, <1>8 DEF StepOf, TxStep, PurgeStep

LEMMA PgStep == TypeOK /\ PgInv /\ [PgNext]_pgVars => PgInv'
<1> SUFFICES ASSUME TypeOK, PgInv, [PgNext]_pgVars PROVE PgInv'
  OBVIOUS
<1>1. CallTimes'
  BY PgStepMaps, TimesStep DEF PgInv
<1>2. CASE UNCHANGED pgVars \/ (Tick /\ UNCHANGED <<txn, calls>>)
  <2>1. UNCHANGED <<users, sessions, nextSid, challenges, op, txn, calls>>
    BY <1>2 DEF pgVars, vars, Tick, tables
  <2>2. clock \in Nat /\ clock' \in Nat /\ clock <= clock'
    BY PgStepMaps, Monotone DEF TypeOK
  <2>3. PgTypes' /\ Exclusive'
    BY <2>1 DEF PgInv, PgTypes, Exclusive
  <2>4. ASSUME NEW q \in Shells PROVE TxnInv(q)'
    <3>1. TxnInv(q) /\ txn[q].held \subseteq DOMAIN sessions
      BY DEF PgInv, TxnInv, LockInv
    <3>2. Undisturbed(q)
      BY <2>1, <2>2, <3>1 DEF Undisturbed, TypeOK
    <3> QED BY <2>1, <3>2, OthersKept
  <2> QED BY <1>1, <2>3, <2>4 DEF PgInv
<1>3. ASSUME NEW p \in Shells, StepOf(p) PROVE PgInv'
  <2>1. OwnStep(p) /\ OnlyOwn(p)
    BY <1>3, OwnKept, OnlyOwnStep
  <2>2. ASSUME NEW q \in Shells \ {p} PROVE TxnInv(q)'
    <3>1. txn'[q] = txn[q] /\ op'[q] = op[q] /\ challenges'[q] = challenges[q]
      BY <2>1 DEF OwnStep, OnlyOwn
    <3>2. Undisturbed(q)
      BY <1>3, UndisturbedStep
    <3> QED BY <3>1, <3>2, OthersKept
  <2> QED BY <1>1, <2>1, <2>2 DEF PgInv, OwnStep
<1> QED BY <1>2, <1>3 DEF PgNext, StepOf

LEMMA PgInvariant == PgSpec => [](TypeOK /\ PgInv)
<1>1. PgInit => TypeOK /\ PgInv
  BY InitType, PgInitInv DEF PgInit
<1>2. TypeOK /\ PgInv /\ [PgNext]_pgVars => TypeOK' /\ PgInv'
  BY PgStepMaps, TypeStep, PgStep
<1> QED BY <1>1, <1>2, PTL DEF PgSpec

(***************************************************************************)
(* Theorems                                                                *)
(***************************************************************************)
\* The transactions of the code are atomic: however their statements, waits,
\* rollbacks and the purges of starting processes interleave, the committed tables
\* change only as in AuthService, where WithinTx is one step. What is proved of
\* AuthService holds of the transactions.
THEOREM TransactionsAreAtomic == PgSpec => Spec
<1>1. PgInit => Init
  BY DEF PgInit
<1> QED BY <1>1, PgInvariant, PgStepMaps, PTL DEF PgSpec, Spec

\* A process that has the database to itself keeps LoginPromise statement by
\* statement: with rollbacks, kills and purges in the middle of its transactions.
THEOREM LoneStatementsKeepPromise == ASSUME Alone PROVE PgSpec => KeepsPromise
<1>1. Spec => KeepsPromise
  BY OneShellKeepsPromise
<1> QED BY <1>1, TransactionsAreAtomic, PTL

\* Row locks exclude each other, and a service transaction holds the row of its
\* account while it revokes, and only sessions of that account.
THEOREM LocksAreExclusive == PgSpec => []PgTypeOK
<1>1. PgInv => PgTypeOK
  <2> SUFFICES ASSUME PgInv, NEW p \in Shells
               PROVE  /\ txn[p].row => AccountFree(p, txn[p].acct)
                      /\ \A i \in txn[p].held : SessionFree(p, i) /\ i \in DOMAIN sessions
                      /\ txn[p].stage \in {"revoke", "rows"} => txn[p].row
                      /\ txn[p].stage = "rows" =>
                            \A i \in txn[p].held : sessions[i].owner = txn[p].acct
                      /\ txn[p].stage \in {"start", "none", "account"} => HoldsNothing(p)
    BY DEF PgTypeOK, PgInv, PgTypes
  <2>1. TxnInv(p) /\ Exclusive
    BY DEF PgInv
  <2> QED BY <2>1
      DEF TxnInv, LockInv, RevokeInv, RevokeMatched, Exclusive, AccountFree, SessionFree,
          HoldsNothing, In
<1> QED BY <1>1, PgInvariant, PTL

\* A service call never waits for another one while it holds a lock: two shells
\* that lock accounts, log in and revoke sessions cannot deadlock each other.
THEOREM WaitsEmptyHanded == PgSpec => []ServiceWaitsEmptyHanded
<1>1. PgInv => ServiceWaitsEmptyHanded
  <2> SUFFICES ASSUME PgInv, NEW p \in Shells, NEW q \in Shells, q \in Blockers(p),
                      ~In(p, "purge"), ~In(q, "purge")
               PROVE  HoldsNothing(p)
    BY DEF ServiceWaitsEmptyHanded
  <2>1. TxnInv(p) /\ TxnInv(q) /\ q # p
    BY DEF PgInv, Blockers
  <2>2. CASE In(p, "account") \/ NoTxnOpen(p)
    BY <2>1, <2>2 DEF TxnInv, LockInv, In, NoTxnOpen, HoldsNothing
  <2>3. CASE txn[p].todo \cap txn[q].held # {}
    <3>1. PICK i : i \in txn[p].todo /\ i \in txn[q].held
      BY <2>3
    <3>2. In(p, "rows") /\ In(q, "rows") /\ i \in DOMAIN sessions
      BY <2>1, <3>1 DEF TxnInv, LockInv, In
    <3>3. sessions[i].owner = txn[p].acct /\ sessions[i].owner = txn[q].acct
      BY <2>1, <3>1, <3>2 DEF TxnInv, RevokeInv, RevokeMatched
    <3>4. txn[p].row /\ txn[q].row
      BY <2>1, <3>2 DEF TxnInv, LockInv, In
    <3> QED BY <2>1, <3>3, <3>4 DEF PgInv, Exclusive
  <2> QED BY <2>2, <2>3 DEF Blockers
<1> QED BY <1>1, PgInvariant, PTL
=============================================================================
