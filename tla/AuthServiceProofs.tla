------------------------- MODULE AuthServiceProofs --------------------------
(***************************************************************************)
(* Proofs about AuthService for any number of shells and accounts, any     *)
(* valid configuration and any bounds.                                     *)
(***************************************************************************)
EXTENDS AuthService, TLAPS

(***************************************************************************)
(* The rules of AuthDomain stay within their types.                        *)
(***************************************************************************)
LEMMA UserRules ==
    ASSUME NEW user \in User, NEW now \in Nat
    PROVE  /\ RegisterFailure(user, now) \in User
           /\ ClearLock(user) \in User
           /\ ClearExpiredLock(user, now) \in User
<1>1. RegisterFailure(user, now) \in User
  <2> DEFINE until == now + LockDuration
  <2>0. until \in Nat
    BY ConfigValid
  <2> HIDE DEF until
  <2>1. [user EXCEPT !.failed = 0, !.lockedUntil = until] \in User
    BY <2>0 DEF User
  <2>2. [user EXCEPT !.failed = @ + 1] \in User
    BY DEF User
  <2> QED BY <2>1, <2>2 DEF RegisterFailure, until
<1>2. ClearLock(user) \in User
  BY DEF User, ClearLock, Unset
<1>3. ClearExpiredLock(user, now) \in User
  BY <1>2 DEF ClearExpiredLock, LockRanOut, User, Unset
<1> QED BY <1>1, <1>2, <1>3

LEMMA NewUserType == \A cost \in Nat : NewUser(cost) \in User
BY DEF NewUser, User, NoSecret, NoKey, Unset

LEMMA SessionRules ==
    ASSUME NEW Owner, NEW owner \in Owner, NEW now \in Nat
    PROVE  NewSession(owner, now) \in Session(Owner)
BY ConfigValid DEF NewSession, Session

LEMMA IdleDeadlineType ==
    ASSUME NEW Owner, NEW session \in Session(Owner), NEW now \in Nat
    PROVE  IdleDeadline(session, now) \in Nat
BY ConfigValid DEF IdleDeadline, Earlier, Session

LEMMA InsertType ==
    ASSUME NEW S, NEW table, table \in [DOMAIN table -> S], NEW key, NEW row \in S
    PROVE  /\ DOMAIN Insert(table, key, row) = DOMAIN table \cup {key}
           /\ Insert(table, key, row) \in [DOMAIN table \cup {key} -> S]
BY DEF Insert

\* A step of CompleteTOTPChallenge or AbandonChallenge that ends the call or makes
\* none, and may drop a challenge.
Discards(p) ==
    /\ Return(p) \/ (Ready(p) /\ UNCHANGED op)
    /\ UNCHANGED challenges \/ \E id : DeleteChallenge(p, id)

\* What a step on a parked login does, apart from the statements of its end.
LEMMA AnswerQuiet ==
    ASSUME NEW p \in Shells, AnswerStep(p)
    PROVE  UNCHANGED <<clock, users, sessions, nextSid, nextSecret>>
BY DEF AnswerStep, FindChallenge, ChallengeExpired, AbandonChallenge, LoadUser,
   LoadUserFailed, ChallengeRefused, Refuse, SecretUnreadable, CodeWrong, CodeRight, tables

LEMMA AnswerCases ==
    ASSUME NEW p \in Shells, AnswerStep(p)
    PROVE  \/ \E c \in challenges[p] : FindChallenge(p, c)
           \/ LoadUser(p)
           \/ \E code \in Codes : CodeWrong(p, code) \/ CodeRight(p, code)
           \/ Discards(p)
BY DEF AnswerStep, ChallengeExpired, AbandonChallenge, LoadUserFailed, ChallengeRefused,
   Refuse, SecretUnreadable, Discards

LEMMA IdleType == Idle \in Call
BY NewUserType DEF Idle, Call, PCs, Unset

(***************************************************************************)
(* Type correctness                                                        *)
(***************************************************************************)
LEMMA InitType == Init => TypeOK
BY IdleType, ServiceConstants DEF Init, TypeOK, EmptyTable, Ready, Running, Idle, Unset, NoSecret

\* The part of TypeOK about the tables.
TablesType ==
    /\ DOMAIN users \subseteq Accounts
    /\ users \in [DOMAIN users -> User]
    /\ nextSid \in Nat \ {0}
    /\ DOMAIN sessions \subseteq 1 .. nextSid - 1
    /\ sessions \in [DOMAIN sessions -> Session(DOMAIN users)]

LEMMA UpdateUserType ==
    ASSUME TypeOK, NEW a \in DOMAIN users, NEW row \in User, UpdateUser(a, row)
    PROVE  /\ DOMAIN users' = DOMAIN users
           /\ users' \in [DOMAIN users -> User]
BY DEF TypeOK, UpdateUser

LEMMA RevokeMatchingType ==
    ASSUME TypeOK, NEW a, NEW keep, RevokeMatching(a, keep)
    PROVE  /\ DOMAIN sessions' = DOMAIN sessions
           /\ sessions' \in [DOMAIN sessions -> Session(DOMAIN users)]
BY DEF TypeOK, RevokeMatching, Session

LEMMA RecordFailureType ==
    ASSUME TypeOK, NEW a \in DOMAIN users, NEW row \in User, NEW now \in Nat,
           RecordFailure(a, row, now)
    PROVE  TablesType' /\ DOMAIN users' = DOMAIN users
<1>1. RegisterFailure(row, now) \in User
  BY UserRules
<1>2. DOMAIN users' = DOMAIN users /\ users' \in [DOMAIN users -> User]
  BY <1>1, UpdateUserType DEF RecordFailure
<1>3. /\ DOMAIN sessions' = DOMAIN sessions
      /\ sessions' \in [DOMAIN sessions -> Session(DOMAIN users)]
  BY RevokeMatchingType DEF RecordFailure, TypeOK
<1> QED BY <1>2, <1>3 DEF RecordFailure, TypeOK, TablesType

LEMMA CompleteLoginType ==
    ASSUME TypeOK, NEW a \in DOMAIN users, NEW row \in User, NEW now \in Nat,
           CompleteLogin(a, row, now)
    PROVE  TablesType' /\ DOMAIN users' = DOMAIN users
<1>1. NewSession(a, now) \in Session(DOMAIN users)
  BY SessionRules
<1>2. ClearLock(row) \in User
  BY UserRules
<1>3. DOMAIN users' = DOMAIN users /\ users' \in [DOMAIN users -> User]
  BY <1>2, UpdateUserType DEF CompleteLogin
<1>4. sessions \in [DOMAIN sessions -> Session(DOMAIN users)]
  BY DEF TypeOK
<1>5. /\ DOMAIN sessions' = DOMAIN sessions \cup {nextSid}
      /\ sessions' \in [DOMAIN sessions \cup {nextSid} -> Session(DOMAIN users)]
  BY <1>1, <1>4 DEF CompleteLogin, Insert
<1> QED BY <1>3, <1>5 DEF CompleteLogin, TypeOK, TablesType

LEMMA ElapsedType ==
    ASSUME TypeOK, NEW p \in Shells, NEW now \in Elapsed(p)
    PROVE  now \in Nat
BY DEF TypeOK, Elapsed, Call

\* A stack that is built from Idle by filling in fields of the right type.
LEMMA CallType ==
    ASSUME NEW pc \in PCs, NEW a \in Accounts, NEW row \in User, NEW at \in Nat,
           NEW good \in BOOLEAN, NEW ref \in Nat
    PROVE  /\ [Idle EXCEPT !.pc = pc, !.acct = a, !.row = row, !.ref = ref] \in Call
           /\ [Idle EXCEPT !.pc = pc, !.acct = a, !.row = row, !.at = at,
                           !.good = good] \in Call
           /\ [Idle EXCEPT !.pc = pc, !.acct = a, !.row = row, !.at = at,
                           !.ref = ref] \in Call
BY IdleType DEF Call

LEMMA SessionCallType ==
    ASSUME NEW pc \in PCs, NEW a \in Accounts, NEW until \in Nat, NEW ref \in Nat
    PROVE  /\ [Idle EXCEPT !.pc = pc, !.acct = a, !.ref = ref,
                           !.until = until] \in Call
           /\ [Idle EXCEPT !.pc = pc, !.acct = a, !.ref = ref] \in Call
BY IdleType DEF Call

\* The type of op survives a step that returns, or that goes on with a stack of
\* type Call for a registered account.
LEMMA OpReturns ==
    ASSUME TypeOK, NEW p \in Shells, Return(p), DOMAIN users \subseteq DOMAIN users'
    PROVE  /\ op' \in [Shells -> Call]
           /\ \A q \in Shells : ~Ready(q)' => op'[q].acct \in DOMAIN users'
BY IdleType DEF TypeOK, Return, Ready, Running, Idle

LEMMA OpGoesOn ==
    ASSUME TypeOK, NEW p \in Shells, NEW call \in Call, call.acct \in DOMAIN users,
           op' = [op EXCEPT ![p] = call], DOMAIN users \subseteq DOMAIN users'
    PROVE  /\ op' \in [Shells -> Call]
           /\ \A q \in Shells : ~Ready(q)' => op'[q].acct \in DOMAIN users'
BY DEF TypeOK, Ready, Running

\* The part of TypeOK about the calls.
OpType ==
    /\ op \in [Shells -> Call]
    /\ \A p \in Shells : ~Ready(p) => op[p].acct \in DOMAIN users

LEMMA ProceedType ==
    ASSUME TypeOK, NEW p \in Shells, NEW pc \in PCs, NEW a \in DOMAIN users,
           NEW row \in User, NEW ref \in Nat, Proceed(p, pc, a, row, ref),
           UNCHANGED users
    PROVE  OpType'
<1> DEFINE call == [Idle EXCEPT !.pc = pc, !.acct = a, !.row = row, !.ref = ref]
<1>1. a \in Accounts
  BY DEF TypeOK
<1>2. call \in Call /\ call.acct = a
  BY <1>1, CallType DEF Idle
<1>3. op' = [op EXCEPT ![p] = call]
  BY DEF Proceed
<1> HIDE DEF call
<1> QED BY <1>2, <1>3, OpGoesOn DEF OpType

\* The store keeps its type when a challenge is saved or deleted.
LEMMA SaveType ==
    ASSUME TypeOK, NEW p \in Shells, NEW c \in Challenge, c.acct \in DOMAIN users,
           SaveChallenge(p, c)
    PROVE  /\ challenges' \in [Shells -> SUBSET Challenge]
           /\ \A q \in Shells : \A d \in challenges'[q] : d.acct \in DOMAIN users
BY DEF TypeOK, SaveChallenge

LEMMA DeleteType ==
    ASSUME TypeOK, NEW p \in Shells, NEW id, DeleteChallenge(p, id)
    PROVE  /\ challenges' \in [Shells -> SUBSET Challenge]
           /\ \A q \in Shells : \A d \in challenges'[q] : d.acct \in DOMAIN users
BY DEF TypeOK, DeleteChallenge

\* Every step keeps the types: one case per action.
LEMMA TypeStep == TypeOK /\ [Next]_vars => TypeOK'
<1> SUFFICES ASSUME TypeOK, [Next]_vars PROVE TypeOK'
  OBVIOUS
<1> USE ServiceConstants DEF tables
<1>1. CASE Tick
  BY <1>1 DEF Tick, TypeOK, Ready, Running, Unset
<1>2. ASSUME NEW p \in Shells, NEW a \in Accounts, Register(p, a) PROVE TypeOK'
  <2>1. NewUser(HashCost[p]) \in User
    BY NewUserType
  <2>2. users' \in [DOMAIN users \cup {a} -> User] /\ DOMAIN users' = DOMAIN users \cup {a}
    BY <1>2, <2>1 DEF Register, Insert, TypeOK
  <2>3. sessions' \in [DOMAIN sessions' -> Session(DOMAIN users')]
    BY <1>2, <2>2 DEF Register, TypeOK, Session
  <2> QED BY <1>2, <2>2, <2>3 DEF Register, TypeOK, Ready, Running
<1>3. ASSUME NEW p \in Shells, NEW a \in Accounts, NEW good \in BOOLEAN,
             AuthenticateLoad(p, a, good)
      PROVE TypeOK'
  <2>1. users[a] \in User /\ clock \in Nat /\ a \in DOMAIN users
    BY <1>3 DEF AuthenticateLoad, TypeOK
  <2>2. ClearExpiredLock(users[a], clock) \in User
    BY <2>1, UserRules
  <2> DEFINE next == IF LockRanOut(users[a], clock) THEN "clearLock" ELSE "verify"
             call == [Idle EXCEPT !.pc = next, !.acct = a,
                                  !.row = ClearExpiredLock(users[a], clock),
                                  !.at = clock, !.good = good]
  <2>3. next \in PCs
    BY DEF PCs
  <2>5. op' = [op EXCEPT ![p] = call]
    BY <1>3 DEF AuthenticateLoad
  <2>6. call.acct = a
    BY DEF Idle
  <2> HIDE DEF next
  <2>4. call \in Call
    BY <2>1, <2>2, <2>3, CallType
  <2> HIDE DEF call
  <2> QED BY <1>3, <2>1, <2>4, <2>5, <2>6, OpGoesOn DEF AuthenticateLoad, TypeOK
<1>4. ASSUME NEW p \in Shells, ClearLockSave(p) PROVE TypeOK'
  <2>1. op[p].row \in User /\ op[p].acct \in DOMAIN users
    BY <1>4 DEF ClearLockSave, TypeOK, Ready, Running, Call
  <2>2. DOMAIN users' = DOMAIN users /\ users' \in [DOMAIN users -> User]
    BY <1>4, <2>1, UpdateUserType DEF ClearLockSave
  <2>3. op' \in [Shells -> Call]
    BY <1>4 DEF ClearLockSave, TypeOK, Call, PCs
  <2>4. \A q \in Shells : op'[q].acct = op[q].acct /\ (Ready(q)' <=> Ready(q))
    BY <1>4 DEF ClearLockSave, TypeOK, Call, Ready, Running
  <2> QED BY <1>4, <2>2, <2>3, <2>4 DEF ClearLockSave, TypeOK
<1>5. ASSUME NEW p \in Shells, PasswordFailed(p) PROVE TypeOK'
  <2>1. op[p].row \in User /\ op[p].acct \in DOMAIN users
    BY <1>5 DEF PasswordFailed, TypeOK, Ready, Running, Call
  <2>2. PICK now \in Elapsed(p) : RecordFailure(op[p].acct, op[p].row, now)
    BY <1>5 DEF PasswordFailed
  <2>3. now \in Nat
    BY ElapsedType
  <2>4. TablesType' /\ DOMAIN users' = DOMAIN users
    BY <2>1, <2>2, <2>3, RecordFailureType
  <2> QED BY <1>5, <2>4, OpReturns DEF PasswordFailed, TypeOK, TablesType
<1>6. ASSUME NEW p \in Shells, Rehash(p) PROVE TypeOK'
  <2> DEFINE row == [op[p].row EXCEPT !.cost = HashCost[p]]
  <2>1. row \in User /\ op[p].acct \in DOMAIN users
    BY <1>6 DEF Rehash, TypeOK, Ready, Running, Call, User
  <2>2. UpdateUser(op[p].acct, row) /\ op' = [op EXCEPT ![p].row = row]
    BY <1>6 DEF Rehash
  <2> HIDE DEF row
  <2>3. DOMAIN users' = DOMAIN users /\ users' \in [DOMAIN users -> User]
    BY <2>1, <2>2, UpdateUserType
  <2>4. op' \in [Shells -> Call]
    BY <2>1, <2>2 DEF TypeOK, Call
  <2>5. \A q \in Shells : op'[q].acct = op[q].acct /\ (Ready(q)' <=> Ready(q))
    BY <2>2 DEF TypeOK, Call, Ready, Running
  <2> QED BY <1>6, <2>3, <2>4, <2>5 DEF Rehash, TypeOK
<1>7. ASSUME NEW p \in Shells, NEW id \in 1 .. MaxChallenges, Park(p, id) PROVE TypeOK'
  <2> DEFINE c == [id |-> id, acct |-> op[p].acct, expires |-> op[p].at + ChallengeTTL]
  <2>1. op[p].acct \in DOMAIN users /\ op[p].at + ChallengeTTL \in Nat
    BY <1>7, ConfigValid DEF Park, PasswordAccepted, TypeOK, Ready, Running, Call
  <2>2. c \in Challenge /\ c.acct \in DOMAIN users
    BY <2>1 DEF Challenge, TypeOK
  <2>3. SaveChallenge(p, c)
    BY <1>7 DEF Park
  <2> HIDE DEF c
  <2> QED BY <1>7, <2>2, <2>3, SaveType, OpReturns DEF Park, TypeOK
<1>8. ASSUME NEW p \in Shells, PasswordLogin(p) PROVE TypeOK'
  <2>1. op[p].row \in User /\ op[p].acct \in DOMAIN users
    BY <1>8 DEF PasswordLogin, PasswordAccepted, TypeOK, Ready, Running, Call
  <2>2. PICK now \in Elapsed(p) : CompleteLogin(op[p].acct, op[p].row, now)
    BY <1>8 DEF PasswordLogin
  <2>3. now \in Nat
    BY ElapsedType
  <2>4. TablesType' /\ DOMAIN users' = DOMAIN users
    BY <2>1, <2>2, <2>3, CompleteLoginType
  <2> QED BY <1>8, <2>4, OpReturns DEF PasswordLogin, TypeOK, TablesType
<1>9. ASSUME NEW p \in Shells, AnswerStep(p), Discards(p) PROVE TypeOK'
  <2>1. UNCHANGED <<clock, users, sessions, nextSid, nextSecret>>
    BY <1>9, AnswerQuiet
  <2>2. OpType'
    BY <1>9, <2>1, OpReturns DEF Discards, OpType, TypeOK, Ready, Running
  <2>3. /\ challenges' \in [Shells -> SUBSET Challenge]
        /\ \A q \in Shells : \A d \in challenges'[q] : d.acct \in DOMAIN users
    BY <1>9, DeleteType DEF Discards, TypeOK
  <2> QED BY <2>1, <2>2, <2>3 DEF TypeOK, OpType
<1>10. ASSUME NEW p \in Shells, AnswerStep(p) PROVE TypeOK'
  <2>1. UNCHANGED <<clock, users, sessions, nextSid, nextSecret>>
    BY <1>10, AnswerQuiet
  <2>2. ASSUME NEW c \in challenges[p], FindChallenge(p, c) PROVE TypeOK'
    <3>1. c \in Challenge /\ c.acct \in DOMAIN users /\ c.id \in Nat
      BY DEF TypeOK, Challenge
    <3>2. "loadUser" \in PCs /\ NewUser(0) \in User
      BY NewUserType DEF PCs
    <3>3. Proceed(p, "loadUser", c.acct, NewUser(0), c.id)
      BY <2>2 DEF FindChallenge
    <3>4. OpType'
      BY <2>1, <3>1, <3>2, <3>3, ProceedType
    <3> QED BY <2>1, <2>2, <3>4 DEF FindChallenge, TypeOK, OpType
  <2>3. CASE LoadUser(p)
    <3>1. op[p].acct \in DOMAIN users /\ op[p].ref \in Nat
      BY <2>3 DEF LoadUser, TypeOK, Ready, Running, Call
    <3>2. "checkCode" \in PCs /\ users[op[p].acct] \in User
      BY <3>1 DEF PCs, TypeOK
    <3>3. Proceed(p, "checkCode", op[p].acct, users[op[p].acct], op[p].ref)
      BY <2>3 DEF LoadUser
    <3>4. OpType'
      BY <2>1, <3>1, <3>2, <3>3, ProceedType
    <3> QED BY <2>1, <2>3, <3>4 DEF LoadUser, TypeOK, OpType
  <2>4. ASSUME NEW code, CodeWrong(p, code) \/ CodeRight(p, code) PROVE TypeOK'
    <3>1. /\ op[p] \in Call /\ op[p].acct \in DOMAIN users /\ clock \in Nat
      BY <2>4 DEF CodeWrong, CodeRight, Passes, TypeOK, Ready, Running
    <3>2. PICK pc \in PCs \ {"idle"} : Decide(p, pc)
      BY <2>4 DEF CodeWrong, CodeRight, PCs
    <3> DEFINE call == [op[p] EXCEPT !.pc = pc, !.at = clock]
    <3>3. call \in Call /\ call.acct = op[p].acct
      BY <3>1 DEF Call
    <3>4. op' = [op EXCEPT ![p] = call]
      BY <3>2 DEF Decide
    <3> HIDE DEF call
    <3>5. /\ challenges' \in [Shells -> SUBSET Challenge]
          /\ \A q \in Shells : \A d \in challenges'[q] : d.acct \in DOMAIN users
      <4>1. CASE CodeWrong(p, code)
        <5>1. PICK c \in challenges[p] : SaveChallenge(p, c)
          BY <4>1 DEF CodeWrong
        <5>2. c \in Challenge /\ c.acct \in DOMAIN users
          BY DEF TypeOK
        <5> QED BY <5>1, <5>2, SaveType
      <4>2. CASE CodeRight(p, code)
        BY <4>2, DeleteType DEF CodeRight
      <4> QED BY <2>4, <4>1, <4>2
    <3> QED BY <2>1, <3>1, <3>3, <3>4, <3>5, OpGoesOn DEF TypeOK
  <2> QED BY <1>9, <1>10, <2>2, <2>3, <2>4, AnswerCases
<1>11. ASSUME NEW p \in Shells, NEW acked \in BOOLEAN, CodeFailed(p, acked) PROVE TypeOK'
  <2>1. op[p].row \in User /\ op[p].acct \in DOMAIN users
    BY <1>11 DEF CodeFailed, TypeOK, Ready, Running, Call
  <2>2. PICK now \in Elapsed(p) : RecordFailure(op[p].acct, op[p].row, now)
    BY <1>11 DEF CodeFailed
  <2>3. now \in Nat
    BY ElapsedType
  <2>4. TablesType' /\ DOMAIN users' = DOMAIN users
    BY <2>1, <2>2, <2>3, RecordFailureType
  <2>5. /\ challenges' \in [Shells -> SUBSET Challenge]
        /\ \A q \in Shells : \A d \in challenges'[q] : d.acct \in DOMAIN users
    BY <1>11, DeleteType DEF CodeFailed, TypeOK
  <2> QED BY <1>11, <2>4, <2>5, OpReturns DEF CodeFailed, TypeOK, TablesType
<1>12. ASSUME NEW p \in Shells, CodeLogin(p) PROVE TypeOK'
  <2>1. op[p].row \in User /\ op[p].acct \in DOMAIN users
    BY <1>12 DEF CodeLogin, TypeOK, Ready, Running, Call
  <2>2. PICK now \in Elapsed(p) : CompleteLogin(op[p].acct, op[p].row, now)
    BY <1>12 DEF CodeLogin
  <2>3. now \in Nat
    BY ElapsedType
  <2>4. TablesType' /\ DOMAIN users' = DOMAIN users
    BY <2>1, <2>2, <2>3, CompleteLoginType
  <2> QED BY <1>12, <2>4, OpReturns DEF CodeLogin, TypeOK, TablesType
<1>14. ASSUME NEW p \in Shells, NEW a \in Accounts, BeginLoad(p, a) PROVE TypeOK'
  <2> DEFINE row == [users[a] EXCEPT !.secret = nextSecret, !.key = KeyOf[p],
                                     !.enabled = FALSE]
  <2>1. a \in DOMAIN users /\ row \in User
    BY <1>14 DEF BeginLoad, TypeOK, User
  <2>2. Proceed(p, "save", a, row, 0)
    BY <1>14 DEF BeginLoad
  <2> HIDE DEF row
  <2>3. OpType'
    BY <1>14, <2>1, <2>2, ProceedType DEF BeginLoad, PCs
  <2> QED BY <1>14, <2>3 DEF BeginLoad, TypeOK, OpType, NoSecret
<1>15. ASSUME NEW p \in Shells, NEW a \in Accounts, CancelLoad(p, a) PROVE TypeOK'
  <2> DEFINE row == [users[a] EXCEPT !.secret = NoSecret, !.key = NoKey]
  <2>1. a \in DOMAIN users /\ row \in User
    BY <1>15 DEF CancelLoad, TypeOK, User, NoSecret, NoKey
  <2>2. Proceed(p, "save", a, row, 0)
    BY <1>15 DEF CancelLoad
  <2> HIDE DEF row
  <2>3. OpType'
    BY <1>15, <2>1, <2>2, ProceedType DEF CancelLoad, PCs
  <2> QED BY <1>15, <2>3 DEF CancelLoad, TypeOK, OpType
<1>16. ASSUME NEW p \in Shells, SaveRow(p) PROVE TypeOK'
  <2>1. op[p].row \in User /\ op[p].acct \in DOMAIN users
    BY <1>16 DEF SaveRow, TypeOK, Ready, Running, Call
  <2>2. DOMAIN users' = DOMAIN users /\ users' \in [DOMAIN users -> User]
    BY <1>16, <2>1, UpdateUserType DEF SaveRow
  <2> QED BY <1>16, <2>2, OpReturns DEF SaveRow, TypeOK
<1>17. ASSUME NEW p \in Shells, NEW a \in Accounts, NEW code, NEW keep \in Keepable(a),
              ConfirmLoad(p, a, code, keep)
       PROVE TypeOK'
  <2> DEFINE row == [users[a] EXCEPT !.enabled = TRUE]
  <2>0. keep \in Nat
    BY <1>17 DEF TypeOK, Keepable
  <2>1. a \in DOMAIN users /\ row \in User
    BY <1>17 DEF ConfirmLoad, TypeOK, User
  <2>2. Proceed(p, "confirm", a, row, keep)
    BY <1>17 DEF ConfirmLoad
  <2> HIDE DEF row
  <2>3. OpType'
    BY <1>17, <2>0, <2>1, <2>2, ProceedType DEF ConfirmLoad, PCs
  <2> QED BY <1>17, <2>3 DEF ConfirmLoad, TypeOK, OpType
<1>18. ASSUME NEW p \in Shells, NEW a \in Accounts, NEW code, NEW keep \in Keepable(a),
              DisableLoad(p, a, code, keep)
       PROVE TypeOK'
  <2> DEFINE row == [users[a] EXCEPT !.enabled = FALSE, !.secret = NoSecret, !.key = NoKey]
  <2>0. keep \in Nat
    BY <1>18 DEF TypeOK, Keepable
  <2>1. a \in DOMAIN users /\ row \in User
    BY <1>18 DEF DisableLoad, TypeOK, User, NoSecret, NoKey
  <2>2. Proceed(p, "disable", a, row, keep)
    BY <1>18 DEF DisableLoad
  <2> HIDE DEF row
  <2>3. OpType'
    BY <1>18, <2>0, <2>1, <2>2, ProceedType DEF DisableLoad, PCs
  <2> QED BY <1>18, <2>3 DEF DisableLoad, TypeOK, OpType
<1>19. ASSUME NEW p \in Shells, ConfirmSave(p) \/ DisableSave(p) PROVE TypeOK'
  <2>1. PostureSave(p) /\ op[p].row \in User /\ op[p].acct \in DOMAIN users
    BY <1>19 DEF ConfirmSave, DisableSave, TypeOK, Ready, Running, Call
  <2>2. DOMAIN users' = DOMAIN users /\ users' \in [DOMAIN users -> User]
    BY <2>1, UpdateUserType DEF PostureSave
  <2>3. /\ DOMAIN sessions' = DOMAIN sessions
        /\ sessions' \in [DOMAIN sessions -> Session(DOMAIN users)]
    BY <2>1, RevokeMatchingType DEF PostureSave
  <2> QED BY <2>1, <2>2, <2>3, OpReturns DEF PostureSave, TypeOK
<1>20. ASSUME NEW p \in Shells, NEW i \in DOMAIN sessions, ResolveLoad(p, i) PROVE TypeOK'
  <2>1. sessions[i] \in Session(DOMAIN users) /\ clock \in Nat /\ i \in Nat
    BY DEF TypeOK
  <2>2. sessions[i].owner \in DOMAIN users /\ sessions[i].owner \in Accounts
    BY <2>1 DEF Session, TypeOK
  <2>3. IdleDeadline(sessions[i], clock) \in Nat
    BY <2>1, IdleDeadlineType
  <2> DEFINE call == [Idle EXCEPT !.pc = "touch", !.acct = sessions[i].owner, !.ref = i,
                                  !.until = IdleDeadline(sessions[i], clock)]
  <2>6. "touch" \in PCs
    BY DEF PCs
  <2>7. call \in Call
    BY <2>1, <2>2, <2>3, <2>6, SessionCallType
  <2>4. call.acct = sessions[i].owner
    BY DEF Idle
  <2>5. op' = [op EXCEPT ![p] = call]
    BY <1>20 DEF ResolveLoad
  <2> HIDE DEF call
  <2> QED BY <1>20, <2>2, <2>4, <2>5, <2>7, OpGoesOn DEF ResolveLoad, TypeOK
<1>21. ASSUME NEW p \in Shells, Touch(p) PROVE TypeOK'
  <2>1. op[p].until \in Nat
    BY DEF TypeOK, Call
  <2>2. /\ DOMAIN sessions' = DOMAIN sessions
        /\ sessions' \in [DOMAIN sessions -> Session(DOMAIN users)]
    BY <1>21, <2>1 DEF Touch, TouchSession, TypeOK, Session
  <2> QED BY <1>21, <2>2, OpReturns DEF Touch, TypeOK
<1>22. ASSUME NEW p \in Shells, NEW i \in DOMAIN sessions, LogoutLoad(p, i) PROVE TypeOK'
  <2>1. sessions[i] \in Session(DOMAIN users) /\ i \in Nat
    BY DEF TypeOK
  <2>2. sessions[i].owner \in DOMAIN users /\ sessions[i].owner \in Accounts
    BY <2>1 DEF Session, TypeOK
  <2> DEFINE call == [Idle EXCEPT !.pc = "revoke", !.acct = sessions[i].owner, !.ref = i]
  <2>5. "revoke" \in PCs
    BY DEF PCs
  <2>6. call \in Call
    BY <2>1, <2>2, <2>5, SessionCallType
  <2>3. call.acct = sessions[i].owner
    BY DEF Idle
  <2>4. op' = [op EXCEPT ![p] = call]
    BY <1>22 DEF LogoutLoad
  <2> HIDE DEF call
  <2> QED BY <1>22, <2>2, <2>3, <2>4, <2>6, OpGoesOn DEF LogoutLoad, TypeOK
<1>23. ASSUME NEW p \in Shells, LogoutRevoke(p) PROVE TypeOK'
  <2>1. /\ DOMAIN sessions' = DOMAIN sessions
        /\ sessions' \in [DOMAIN sessions -> Session(DOMAIN users)]
    BY <1>23 DEF LogoutRevoke, RevokeSession, TypeOK, Session
  <2> QED BY <1>23, <2>1, OpReturns DEF LogoutRevoke, TypeOK
<1>24. ASSUME NEW p \in Shells, DBError(p) PROVE TypeOK'
  BY <1>24, OpReturns DEF DBError, TypeOK
<1>25. ASSUME NEW p \in Shells, NEW gone, Restart(p, gone) PROVE TypeOK'
  <2>1. /\ DOMAIN sessions' \subseteq DOMAIN sessions
        /\ sessions' \in [DOMAIN sessions' -> Session(DOMAIN users)]
    BY <1>25 DEF Restart, DeleteExpired, TypeOK
  <2>2. /\ challenges' \in [Shells -> SUBSET Challenge]
        /\ \A q \in Shells : \A d \in challenges'[q] : d.acct \in DOMAIN users
    BY <1>25 DEF Restart, TypeOK
  <2>3. Return(p)
    BY <1>25 DEF Restart, Return
  <2> QED BY <1>25, <2>1, <2>2, <2>3, OpReturns DEF Restart, TypeOK
<1>26. CASE UNCHANGED vars
  BY <1>26 DEF vars, TypeOK, Ready, Running
<1> QED
  BY <1>1, <1>2, <1>3, <1>4, <1>5, <1>6, <1>7, <1>8, <1>10, <1>11, <1>12, <1>14,
      <1>15, <1>16, <1>17, <1>18, <1>19, <1>20, <1>21, <1>22, <1>23, <1>24, <1>25,
     <1>26
  DEF Next, LoginStep, ChallengeStep, EnrollmentStep, SessionStep, FailureStep

\* In every reachable state the variables have their types, the session ids are
\* below the sequence, and no call or challenge refers to an unknown account.
THEOREM TypeCorrect == Spec => []TypeOK
<1> QED BY InitType, TypeStep, PTL DEF Spec

(***************************************************************************)
(* What a step may do, one lemma per table: where the rows it writes come  *)
(* from. The invariants below follow from these without a look at the      *)
(* actions.                                                                *)
(***************************************************************************)
\* A row written over an account comes from the copy of some call.
RowWritten(row) ==
    \E p \in Shells :
        \/ row = NewUser(HashCost[p])
        \/ row = op[p].row
        \/ row = ClearLock(op[p].row)
        \/ row = [op[p].row EXCEPT !.cost = HashCost[p]]
        \/ /\ Running(p, "verify") \/ Running(p, "codeFailed")
           /\ \E now \in Elapsed(p) : row = RegisterFailure(op[p].row, now)

UsersStep ==
    \A a \in DOMAIN users' :
        (a \in DOMAIN users /\ users'[a] = users[a]) \/ RowWritten(users'[a])

LEMMA UpdateUserStep ==
    ASSUME TypeOK, NEW a, NEW row, UpdateUser(a, row), RowWritten(row)
    PROVE  UsersStep
BY DEF TypeOK, UpdateUser, UsersStep

LEMMA UsersFlow == TypeOK /\ [Next]_vars => UsersStep
<1> SUFFICES ASSUME TypeOK, [Next]_vars PROVE UsersStep
  OBVIOUS
<1>1. ASSUME UNCHANGED users PROVE UsersStep
  BY <1>1 DEF UsersStep
<1>2. ASSUME NEW p \in Shells, NEW a, Register(p, a) PROVE UsersStep
  BY <1>2 DEF Register, Insert, UsersStep, RowWritten
<1>3. ASSUME NEW p \in Shells, ClearLockSave(p) \/ SaveRow(p) \/ ConfirmSave(p) \/ DisableSave(p)
      PROVE UsersStep
  <2>1. UpdateUser(op[p].acct, op[p].row)
    BY <1>3 DEF ClearLockSave, SaveRow, ConfirmSave, DisableSave, PostureSave
  <2>2. RowWritten(op[p].row)
    BY DEF RowWritten
  <2> QED BY <2>1, <2>2, UpdateUserStep
<1>4. ASSUME NEW p \in Shells, NEW acked, PasswordFailed(p) \/ CodeFailed(p, acked)
      PROVE UsersStep
  <2>1. /\ Running(p, "verify") \/ Running(p, "codeFailed")
        /\ \E now \in Elapsed(p) : RecordFailure(op[p].acct, op[p].row, now)
    BY <1>4 DEF PasswordFailed, CodeFailed
  <2>2. PICK now \in Elapsed(p) : UpdateUser(op[p].acct, RegisterFailure(op[p].row, now))
    BY <2>1 DEF RecordFailure
  <2>3. RowWritten(RegisterFailure(op[p].row, now))
    BY <2>1 DEF RowWritten
  <2> QED BY <2>2, <2>3, UpdateUserStep
<1>5. ASSUME NEW p \in Shells, PasswordLogin(p) \/ CodeLogin(p) PROVE UsersStep
  <2>1. UpdateUser(op[p].acct, ClearLock(op[p].row))
    BY <1>5 DEF PasswordLogin, CodeLogin, CompleteLogin
  <2>2. RowWritten(ClearLock(op[p].row))
    BY DEF RowWritten
  <2> QED BY <2>1, <2>2, UpdateUserStep
<1>6. ASSUME NEW p \in Shells, Rehash(p) PROVE UsersStep
  <2>1. UpdateUser(op[p].acct, [op[p].row EXCEPT !.cost = HashCost[p]])
    BY <1>6 DEF Rehash
  <2>2. RowWritten([op[p].row EXCEPT !.cost = HashCost[p]])
    BY DEF RowWritten
  <2> QED BY <2>1, <2>2, UpdateUserStep
<1>7. ASSUME NEW p \in Shells, LoginStep(p) PROVE UsersStep
  BY <1>1, <1>2, <1>3, <1>4, <1>5, <1>6, <1>7
  DEF LoginStep, AuthenticateLoad, Park, tables
<1>8. ASSUME NEW p \in Shells, ChallengeStep(p) PROVE UsersStep
  BY <1>1, <1>4, <1>5, <1>8, AnswerQuiet DEF ChallengeStep
<1>9. ASSUME NEW p \in Shells, EnrollmentStep(p) PROVE UsersStep
  BY <1>1, <1>3, <1>9
  DEF EnrollmentStep, BeginLoad, CancelLoad, ConfirmLoad, DisableLoad, tables
<1>10. ASSUME NEW p \in Shells, SessionStep(p) \/ FailureStep(p) PROVE UsersStep
  BY <1>1, <1>10
  DEF SessionStep, FailureStep, ResolveLoad, Touch, LogoutLoad, LogoutRevoke, DBError,
      Restart, tables
<1> QED BY <1>1, <1>7, <1>8, <1>9, <1>10 DEF Next, Tick, tables, vars

\* The session rows: a step leaves a row alone, revokes it, touches it on behalf
\* of a call that found it alive, deletes it if it is dead, or issues a new one.
SessionsStep ==
    /\ \A i \in DOMAIN sessions' :
          \/ i \in DOMAIN sessions /\ sessions'[i] = sessions[i]
          \/ i \in DOMAIN sessions /\ sessions'[i] = [sessions[i] EXCEPT !.revoked = TRUE]
          \/ /\ i \in DOMAIN sessions /\ ~sessions[i].revoked
             /\ \E p \in Shells : /\ Running(p, "touch") /\ op[p].ref = i
                                  /\ sessions'[i] = [sessions[i] EXCEPT !.idle = op[p].until]
          \/ /\ i = nextSid /\ nextSid' = nextSid + 1
             /\ \E p \in Shells : \E now \in Elapsed(p) :
                   sessions'[i] = NewSession(op[p].acct, now)
    /\ \A i \in DOMAIN sessions \ DOMAIN sessions' : Purgeable(sessions[i], clock)
    /\ nextSid' >= nextSid

LEMMA SessionsFlow == TypeOK /\ [Next]_vars => SessionsStep
<1> SUFFICES ASSUME TypeOK, [Next]_vars PROVE SessionsStep
  OBVIOUS
<1> nextSid \in Nat
  BY DEF TypeOK
<1>1. ASSUME UNCHANGED <<sessions, nextSid>> PROVE SessionsStep
  BY <1>1 DEF SessionsStep
<1>2. ASSUME NEW a, NEW keep, RevokeMatching(a, keep), UNCHANGED nextSid PROVE SessionsStep
  BY <1>2 DEF RevokeMatching, SessionsStep
<1>3. ASSUME NEW p \in Shells, NEW acked, PasswordFailed(p) \/ CodeFailed(p, acked)
      PROVE SessionsStep
  <2>1. PICK now \in Elapsed(p) : RecordFailure(op[p].acct, op[p].row, now)
    BY <1>3 DEF PasswordFailed, CodeFailed
  <2>2. UNCHANGED <<sessions, nextSid>>
          \/ (RevokeMatching(op[p].acct, 0) /\ UNCHANGED nextSid)
    BY <2>1 DEF RecordFailure
  <2> QED BY <2>2, <1>1, <1>2
<1>4. ASSUME NEW p \in Shells, PasswordLogin(p) \/ CodeLogin(p) PROVE SessionsStep
  <2>1. PICK now \in Elapsed(p) : CompleteLogin(op[p].acct, op[p].row, now)
    BY <1>4 DEF PasswordLogin, CodeLogin
  <2>2. sessions' = Insert(sessions, nextSid, NewSession(op[p].acct, now))
          /\ nextSid' = nextSid + 1
    BY <2>1 DEF CompleteLogin
  <2> QED BY <2>2 DEF Insert, SessionsStep
<1>5. ASSUME NEW p \in Shells, ConfirmSave(p) \/ DisableSave(p) PROVE SessionsStep
  BY <1>2, <1>5 DEF ConfirmSave, DisableSave, PostureSave
<1>6. ASSUME NEW p \in Shells, Touch(p) PROVE SessionsStep
  BY <1>6 DEF Touch, TouchSession, SessionsStep
<1>7. ASSUME NEW p \in Shells, LogoutRevoke(p) PROVE SessionsStep
  BY <1>7 DEF LogoutRevoke, RevokeSession, SessionsStep
<1>8. ASSUME NEW p \in Shells, NEW gone, Restart(p, gone) PROVE SessionsStep
  <2>1. gone \subseteq PurgeableIds /\ DeleteExpired(gone) /\ UNCHANGED nextSid
    BY <1>8 DEF Restart
  <2> QED BY <2>1 DEF DeleteExpired, PurgeableIds, SessionsStep
<1>9. ASSUME NEW p \in Shells, LoginStep(p) PROVE SessionsStep
  BY <1>1, <1>3, <1>4, <1>9
  DEF LoginStep, Register, AuthenticateLoad, ClearLockSave, Rehash, Park, tables
<1>10. ASSUME NEW p \in Shells, ChallengeStep(p) PROVE SessionsStep
  BY <1>1, <1>3, <1>4, <1>10, AnswerQuiet DEF ChallengeStep
<1>11. ASSUME NEW p \in Shells, EnrollmentStep(p) PROVE SessionsStep
  BY <1>1, <1>5, <1>11
  DEF EnrollmentStep, BeginLoad, CancelLoad, SaveRow, ConfirmLoad, DisableLoad, tables
<1>12. ASSUME NEW p \in Shells, SessionStep(p) \/ FailureStep(p) PROVE SessionsStep
  BY <1>1, <1>6, <1>7, <1>8, <1>12
  DEF SessionStep, FailureStep, ResolveLoad, LogoutLoad, DBError, tables
<1> QED BY <1>1, <1>9, <1>10, <1>11, <1>12 DEF Next, Tick, tables, vars

(***************************************************************************)
(* Sessions                                                                *)
(***************************************************************************)
\* A revoked session row never changes again, whatever Touch was under way, and
\* owner and absolute deadline of a row never change at all.
THEOREM RevocationFinal == Spec => RevocationIsFinal
<1>1. TypeOK /\ [Next]_vars =>
        [\A i \in DOMAIN sessions \cap DOMAIN sessions' :
           /\ sessions'[i].owner = sessions[i].owner
           /\ sessions'[i].abs = sessions[i].abs
           /\ sessions[i].revoked => sessions'[i] = sessions[i]]_vars
  <2> SUFFICES ASSUME TypeOK, [Next]_vars, NEW i \in DOMAIN sessions \cap DOMAIN sessions'
               PROVE  /\ sessions'[i].owner = sessions[i].owner
                      /\ sessions'[i].abs = sessions[i].abs
                      /\ sessions[i].revoked => sessions'[i] = sessions[i]
    OBVIOUS
  <2>1. SessionsStep
    BY SessionsFlow
  <2>2. sessions[i] \in Session(DOMAIN users) /\ i # nextSid
    BY DEF TypeOK
  <2>3. CASE sessions'[i] = sessions[i]
    BY <2>3
  <2>4. CASE sessions'[i] = [sessions[i] EXCEPT !.revoked = TRUE]
    BY <2>2, <2>4 DEF Session
  <2>5. CASE /\ ~sessions[i].revoked
             /\ \E p \in Shells : sessions'[i] = [sessions[i] EXCEPT !.idle = op[p].until]
    BY <2>2, <2>5 DEF Session
  <2> QED BY <2>1, <2>2, <2>3, <2>4, <2>5 DEF SessionsStep
<1> QED BY <1>1, TypeCorrect, PTL DEF Spec, RevocationIsFinal

\* Only a session that no token can resolve any more is ever deleted.
THEOREM PurgeSparesLiveSessions == Spec => PurgeSparesLive
<1>1. TypeOK /\ [Next]_vars =>
        [\A i \in DOMAIN sessions \ DOMAIN sessions' : ~IsActive(sessions[i], clock)]_vars
  <2> SUFFICES ASSUME TypeOK, [Next]_vars, NEW i \in DOMAIN sessions \ DOMAIN sessions'
               PROVE  ~IsActive(sessions[i], clock)
    OBVIOUS
  <2>1. Purgeable(sessions[i], clock)
    BY SessionsFlow DEF SessionsStep
  <2>2. sessions[i] \in Session(DOMAIN users) /\ clock \in Nat
    BY DEF TypeOK
  <2> QED BY <2>1, <2>2 DEF Purgeable, IsActive, ExpiresAt, Earlier, Session
<1> QED BY <1>1, TypeCorrect, PTL DEF Spec, PurgeSparesLive

(***************************************************************************)
(* What a step may do to the stack of a call.                              *)
(***************************************************************************)
\* Shell p has loaded account a to change its enrollment.
EnrollmentLoaded(p, a) ==
    /\ op'[p].at = Unset /\ op'[p].until = Unset
    /\ \/ /\ op'[p].pc = "save" /\ nextSecret' = nextSecret + 1
          /\ op'[p].row = [users[a] EXCEPT !.secret = nextSecret, !.key = KeyOf[p],
                                           !.enabled = FALSE]
       \/ /\ op'[p].pc = "save" /\ HasPendingTOTPEnrollment(users[a])
          /\ op'[p].row = [users[a] EXCEPT !.secret = NoSecret, !.key = NoKey]
       \/ /\ op'[p].pc = "confirm" /\ HasPendingTOTPEnrollment(users[a])
          /\ Decrypts(users[a], KeyOf[p])
          /\ op'[p].row = [users[a] EXCEPT !.enabled = TRUE]
       \/ /\ op'[p].pc = "disable"
          /\ op'[p].row = [users[a] EXCEPT !.enabled = FALSE, !.secret = NoSecret,
                                           !.key = NoKey]

\* Shell p has loaded account a, which is not locked, for a login.
LoginLoaded(p, a) ==
    /\ ~IsLocked(users[a], clock)
    /\ op'[p].at = clock /\ op'[p].until = Unset
    /\ op'[p].pc \in {"clearLock", "verify"}
    /\ op'[p].row = ClearExpiredLock(users[a], clock)

\* Shell p has found a parked login, or read the account it is for.
ParkedLoaded(p) ==
    /\ op'[p].at = Unset /\ op'[p].until = Unset
    /\ \/ op'[p].pc = "loadUser" /\ op'[p].row = NewUser(0)
       \/ op'[p].pc = "checkCode" /\ \E a \in DOMAIN users : op'[p].row = users[a]

\* Shell p has come to a verdict on the code, on the copy it had.
CodeJudged(p) ==
    /\ Passes(p) /\ Decrypts(op[p].row, KeyOf[p])
    /\ \E pc \in {"codeFailed", "codeLogin"} :
          op'[p] = [op[p] EXCEPT !.pc = pc, !.at = clock]

\* Shell p has loaded session i to touch or to revoke it.
SessionLoaded(p, i) ==
    /\ op'[p].at = Unset /\ op'[p].row = NewUser(0) /\ op'[p].ref = i
    /\ \/ op'[p].pc = "touch" /\ op'[p].until = IdleDeadline(sessions[i], clock)
       \/ op'[p].pc = "revoke" /\ op'[p].until = Unset

CallStep(p) ==
    \/ op'[p] = op[p]
    \/ op'[p] = Idle
    \/ Running(p, "clearLock") /\ op'[p] = [op[p] EXCEPT !.pc = "verify"]
    \/ /\ Running(p, "verify")
       /\ op'[p] = [op[p] EXCEPT !.row = [op[p].row EXCEPT !.cost = HashCost[p]]]
    \/ \E a \in DOMAIN users : LoginLoaded(p, a) \/ EnrollmentLoaded(p, a)
    \/ ParkedLoaded(p) \/ CodeJudged(p)
    \/ \E i \in DOMAIN sessions : SessionLoaded(p, i)

CallsStep == \A p \in Shells : CallStep(p)

\* It is enough to look at the shell that takes the step.
LEMMA OneCallSteps ==
    ASSUME TypeOK, NEW p \in Shells, NEW call, op' = [op EXCEPT ![p] = call], CallStep(p)
    PROVE  CallsStep
<1>1. \A q \in Shells \ {p} : op'[q] = op[q]
  BY DEF TypeOK
<1> QED BY <1>1 DEF CallsStep, CallStep

LEMMA CallsFlow == TypeOK /\ [Next]_vars => CallsStep
<1> SUFFICES ASSUME TypeOK, [Next]_vars PROVE CallsStep
  OBVIOUS
<1> op \in [Shells -> Call]
  BY DEF TypeOK
<1>1. ASSUME UNCHANGED op PROVE CallsStep
  BY <1>1 DEF CallsStep, CallStep
<1>2. ASSUME NEW p \in Shells, Return(p) PROVE CallsStep
  <2>1. op'[p] = Idle /\ op' = [op EXCEPT ![p] = Idle]
    BY <1>2 DEF Return
  <2>2. CallStep(p)
    BY <2>1 DEF CallStep
  <2> QED BY <2>1, <2>2, OneCallSteps
<1>3. ASSUME NEW p \in Shells, NEW a, NEW good, AuthenticateLoad(p, a, good)
      PROVE CallsStep
  <2>1. PICK call : op' = [op EXCEPT ![p] = call] /\ op'[p] = call
    BY <1>3 DEF AuthenticateLoad
  <2>2. LoginLoaded(p, a) /\ a \in DOMAIN users
    BY <1>3 DEF AuthenticateLoad, LoginLoaded, Idle
  <2>3. CallStep(p)
    BY <2>2 DEF CallStep
  <2> QED BY <2>1, <2>3, OneCallSteps
<1>4. ASSUME NEW p \in Shells, ClearLockSave(p) PROVE CallsStep
  <2>1. op' = [op EXCEPT ![p] = [op[p] EXCEPT !.pc = "verify"]]
    BY <1>4 DEF ClearLockSave
  <2>2. CallStep(p)
    BY <1>4, <2>1 DEF ClearLockSave, CallStep
  <2> QED BY <2>1, <2>2, OneCallSteps
<1>5. ASSUME NEW p \in Shells, Rehash(p) PROVE CallsStep
  <2>1. op' = [op EXCEPT ![p] = [op[p] EXCEPT !.row = [op[p].row EXCEPT !.cost = HashCost[p]]]]
    BY <1>5 DEF Rehash
  <2>2. CallStep(p)
    BY <1>5, <2>1 DEF Rehash, CallStep
  <2> QED BY <2>1, <2>2, OneCallSteps
<1>6. ASSUME NEW p \in Shells, AnswerStep(p) PROVE CallsStep
  <2>1. ASSUME NEW c \in challenges[p], FindChallenge(p, c) PROVE CallsStep
    <3>1. PICK call : op' = [op EXCEPT ![p] = call] /\ op'[p] = call
      BY <2>1 DEF FindChallenge, Proceed
    <3>2. ParkedLoaded(p)
      BY <2>1 DEF FindChallenge, Proceed, ParkedLoaded, Idle
    <3>3. CallStep(p)
      BY <3>2 DEF CallStep
    <3> QED BY <3>1, <3>3, OneCallSteps
  <2>2. CASE LoadUser(p)
    <3>1. PICK call : op' = [op EXCEPT ![p] = call] /\ op'[p] = call
      BY <2>2 DEF LoadUser, Proceed
    <3>2. op[p].acct \in DOMAIN users
      BY <2>2 DEF LoadUser, TypeOK, Ready, Running
    <3>3. ParkedLoaded(p)
      BY <2>2, <3>2 DEF LoadUser, Proceed, ParkedLoaded, Idle
    <3>4. CallStep(p)
      BY <3>3 DEF CallStep
    <3> QED BY <3>1, <3>4, OneCallSteps
  <2>3. ASSUME NEW code, CodeWrong(p, code) \/ CodeRight(p, code) PROVE CallsStep
    <3>1. PICK pc \in {"codeFailed", "codeLogin"} : Decide(p, pc)
      BY <2>3 DEF CodeWrong, CodeRight
    <3>2. /\ op' = [op EXCEPT ![p] = [op[p] EXCEPT !.pc = pc, !.at = clock]]
          /\ op'[p] = [op[p] EXCEPT !.pc = pc, !.at = clock]
      BY <3>1 DEF Decide
    <3>3. CodeJudged(p)
      BY <2>3, <3>2 DEF CodeWrong, CodeRight, CodeJudged
    <3>4. CallStep(p)
      BY <3>3 DEF CallStep
    <3> QED BY <3>2, <3>4, OneCallSteps
  <2> QED BY <1>1, <1>2, <1>6, <2>1, <2>2, <2>3, AnswerCases DEF Discards
<1>7. ASSUME NEW p \in Shells, NEW a, NEW code, NEW keep,
             \/ BeginLoad(p, a) \/ CancelLoad(p, a)
             \/ ConfirmLoad(p, a, code, keep) \/ DisableLoad(p, a, code, keep)
      PROVE CallsStep
  <2>1. PICK call : op' = [op EXCEPT ![p] = call] /\ op'[p] = call
    BY <1>7 DEF BeginLoad, CancelLoad, ConfirmLoad, DisableLoad, Proceed
  <2>2. ASSUME BeginLoad(p, a) PROVE EnrollmentLoaded(p, a)
    BY <2>2 DEF BeginLoad, Proceed, EnrollmentLoaded, Idle
  <2>3. ASSUME CancelLoad(p, a) PROVE EnrollmentLoaded(p, a)
    BY <2>3 DEF CancelLoad, Proceed, EnrollmentLoaded, Idle
  <2>4. ASSUME ConfirmLoad(p, a, code, keep) PROVE EnrollmentLoaded(p, a)
    BY <2>4 DEF ConfirmLoad, Proceed, EnrollmentLoaded, Idle
  <2>5. ASSUME DisableLoad(p, a, code, keep) PROVE EnrollmentLoaded(p, a)
    BY <2>5 DEF DisableLoad, Proceed, EnrollmentLoaded, Idle
  <2>6. EnrollmentLoaded(p, a) /\ a \in DOMAIN users
    BY <1>7, <2>2, <2>3, <2>4, <2>5 DEF BeginLoad, CancelLoad, ConfirmLoad, DisableLoad
  <2>7. CallStep(p)
    BY <2>6 DEF CallStep
  <2> QED BY <2>1, <2>7, OneCallSteps
<1>8. ASSUME NEW p \in Shells, NEW i \in DOMAIN sessions,
             ResolveLoad(p, i) \/ LogoutLoad(p, i)
      PROVE CallsStep
  <2>1. PICK call : op' = [op EXCEPT ![p] = call] /\ op'[p] = call
    BY <1>8 DEF ResolveLoad, LogoutLoad
  <2>2. SessionLoaded(p, i)
    <3>1. CASE ResolveLoad(p, i)
      <4>1. op'[p] = [Idle EXCEPT !.pc = "touch", !.acct = sessions[i].owner, !.ref = i,
                                  !.until = IdleDeadline(sessions[i], clock)]
        BY <3>1 DEF ResolveLoad
      <4> QED BY <4>1 DEF SessionLoaded, Idle
    <3>2. CASE LogoutLoad(p, i)
      <4>1. op'[p] = [Idle EXCEPT !.pc = "revoke", !.acct = sessions[i].owner, !.ref = i]
        BY <3>2 DEF LogoutLoad
      <4> QED BY <4>1 DEF SessionLoaded, Idle
    <3> QED BY <1>8, <3>1, <3>2
  <2>3. CallStep(p)
    BY <2>2 DEF CallStep
  <2> QED BY <2>1, <2>3, OneCallSteps
<1>9. ASSUME NEW p \in Shells, LoginStep(p) PROVE CallsStep
  BY <1>1, <1>2, <1>3, <1>4, <1>5, <1>9
  DEF LoginStep, Register, PasswordFailed, Park, PasswordLogin
<1>10. ASSUME NEW p \in Shells, ChallengeStep(p) PROVE CallsStep
  BY <1>2, <1>6, <1>10 DEF ChallengeStep, CodeFailed, CodeLogin
<1>11. ASSUME NEW p \in Shells, EnrollmentStep(p) PROVE CallsStep
  BY <1>2, <1>7, <1>11
  DEF EnrollmentStep, SaveRow, ConfirmSave, DisableSave, PostureSave
<1>12. ASSUME NEW p \in Shells, SessionStep(p) \/ FailureStep(p) PROVE CallsStep
  BY <1>2, <1>8, <1>12
  DEF SessionStep, FailureStep, Touch, LogoutRevoke, DBError, Restart, Return
<1> QED BY <1>1, <1>9, <1>10, <1>11, <1>12 DEF Next, Tick, vars

\* Time and the supply of secrets only move forward.
LEMMA Monotone ==
    TypeOK /\ [Next]_vars =>
        /\ clock' \in Nat /\ clock <= clock'
        /\ nextSecret' \in Nat /\ nextSecret <= nextSecret'
<1> SUFFICES ASSUME TypeOK, [Next]_vars
             PROVE  /\ clock' = clock \/ clock' = clock + 1
                    /\ nextSecret' = nextSecret \/ nextSecret' = nextSecret + 1
  BY DEF TypeOK
<1>1. ASSUME NEW p \in Shells, LoginStep(p) PROVE UNCHANGED <<clock, nextSecret>>
  BY <1>1 DEF LoginStep, Register, AuthenticateLoad, ClearLockSave, PasswordFailed,
     Rehash, Park, PasswordLogin
<1>2. ASSUME NEW p \in Shells, ChallengeStep(p) PROVE UNCHANGED <<clock, nextSecret>>
  BY <1>2, AnswerQuiet DEF ChallengeStep, CodeFailed, CodeLogin
<1>3. ASSUME NEW p \in Shells, EnrollmentStep(p)
      PROVE  UNCHANGED clock /\ (nextSecret' = nextSecret \/ nextSecret' = nextSecret + 1)
  BY <1>3 DEF EnrollmentStep, BeginLoad, CancelLoad, SaveRow, ConfirmLoad, ConfirmSave,
     DisableLoad, DisableSave, PostureSave
<1>4. ASSUME NEW p \in Shells, SessionStep(p) \/ FailureStep(p)
      PROVE  UNCHANGED <<clock, nextSecret>>
  BY <1>4 DEF SessionStep, ResolveLoad, Touch, LogoutLoad, LogoutRevoke, FailureStep,
     DBError, Restart
<1> QED BY <1>1, <1>2, <1>3, <1>4 DEF Next, Tick, vars

(***************************************************************************)
(* Account rows                                                            *)
(***************************************************************************)
\* RowCoherent is preserved by every rule that makes a row from another one.
LEMMA CoherentRules ==
    ASSUME NEW row \in User, RowCoherent(row), NEW now \in Nat, NEW p \in Shells
    PROVE  /\ RowCoherent(RegisterFailure(row, now))
           /\ RowCoherent(ClearLock(row))
           /\ RowCoherent(ClearExpiredLock(row, now))
           /\ RowCoherent([row EXCEPT !.cost = HashCost[p]])
<1>1. ASSUME TripsLock(row) PROVE RowCoherent(RegisterFailure(row, now))
  BY <1>1, ConfigValid DEF RowCoherent, RegisterFailure, User
<1>2. ASSUME ~TripsLock(row) PROVE RowCoherent(RegisterFailure(row, now))
  BY <1>2, ConfigValid DEF RowCoherent, RegisterFailure, TripsLock, User
<1>3. RowCoherent(ClearLock(row))
  BY ConfigValid DEF RowCoherent, ClearLock, User
<1>4. RowCoherent([row EXCEPT !.cost = HashCost[p]])
  BY DEF RowCoherent, User
<1> QED BY <1>1, <1>2, <1>3, <1>4 DEF ClearExpiredLock

LEMMA NewUserCoherent == \A cost : RowCoherent(NewUser(cost))
BY ConfigValid DEF RowCoherent, NewUser, NoSecret, NoKey

\* A row is coherent when it is loaded to change the enrollment.
LEMMA CoherentEnrollment ==
    ASSUME TypeOK, NEW p \in Shells, NEW a \in DOMAIN users,
           RowCoherent(users[a]), EnrollmentLoaded(p, a)
    PROVE  RowCoherent(op'[p].row)
<1>1. users[a] \in User /\ nextSecret # NoSecret /\ KeyOf[p] # NoKey
  BY ServiceConstants DEF TypeOK
<1> QED BY <1>1 DEF EnrollmentLoaded, RowCoherent, HasPendingTOTPEnrollment, User,
           NoSecret, NoKey

\* Each row written or loaded by a step is coherent if the rows before were.
LEMMA CoherentStep ==
    TypeOK /\ UserRowsCoherent /\ [Next]_vars => UserRowsCoherent'
<1> SUFFICES ASSUME TypeOK, UserRowsCoherent, [Next]_vars PROVE UserRowsCoherent'
  OBVIOUS
<1>1. /\ \A p \in Shells : op[p].row \in User /\ RowCoherent(op[p].row)
      /\ \A a \in DOMAIN users : users[a] \in User /\ RowCoherent(users[a])
      /\ clock \in Nat
  BY DEF TypeOK, Call, UserRowsCoherent
<1>2. ASSUME NEW a \in DOMAIN users' PROVE RowCoherent(users'[a])
  <2>1. CASE a \in DOMAIN users /\ users'[a] = users[a]
    BY <2>1, <1>1
  <2>2. CASE RowWritten(users'[a])
    <3>1. PICK p \in Shells :
            \/ users'[a] = NewUser(HashCost[p])
            \/ users'[a] = op[p].row
            \/ users'[a] = ClearLock(op[p].row)
            \/ users'[a] = [op[p].row EXCEPT !.cost = HashCost[p]]
            \/ \E now \in Elapsed(p) : users'[a] = RegisterFailure(op[p].row, now)
      BY <2>2 DEF RowWritten
    <3>2. \A now \in Elapsed(p) : now \in Nat
      BY ElapsedType
    <3>3. CASE users'[a] = NewUser(HashCost[p])
      BY <3>3, NewUserCoherent
    <3>4. CASE users'[a] = op[p].row \/ users'[a] = ClearLock(op[p].row)
      BY <3>4, <1>1, CoherentRules
    <3>5. CASE users'[a] = [op[p].row EXCEPT !.cost = HashCost[p]]
      BY <3>5, <1>1, CoherentRules
    <3>6. CASE \E now \in Elapsed(p) : users'[a] = RegisterFailure(op[p].row, now)
      BY <3>6, <3>2, <1>1, CoherentRules
    <3> QED BY <3>1, <3>3, <3>4, <3>5, <3>6
  <2> QED BY <2>1, <2>2, UsersFlow DEF UsersStep
<1>3. ASSUME NEW p \in Shells PROVE RowCoherent(op'[p].row)
  <2>1. CallStep(p)
    BY CallsFlow DEF CallsStep
  <2>2. CASE op'[p] = op[p] \/ op'[p] = [op[p] EXCEPT !.pc = "verify"]
    BY <2>2, <1>1 DEF TypeOK, Call
  <2>3. CASE op'[p] = Idle \/ \E i \in DOMAIN sessions : SessionLoaded(p, i)
    BY <2>3, NewUserCoherent DEF Idle, SessionLoaded
  <2>4. CASE op'[p] = [op[p] EXCEPT !.row = [op[p].row EXCEPT !.cost = HashCost[p]]]
    <3>1. op'[p].row = [op[p].row EXCEPT !.cost = HashCost[p]]
      BY <2>4 DEF TypeOK, Call
    <3> QED BY <3>1, <1>1, CoherentRules
  <2>5. CASE \E a \in DOMAIN users : LoginLoaded(p, a)
    BY <2>5, <1>1, CoherentRules DEF LoginLoaded
  <2>6. CASE \E a \in DOMAIN users : EnrollmentLoaded(p, a)
    BY <2>6, <1>1, CoherentEnrollment
  <2>7. CASE ParkedLoaded(p)
    BY <2>7, <1>1, NewUserCoherent DEF ParkedLoaded
  <2>8. CASE CodeJudged(p)
    <3>1. op'[p].row = op[p].row
      BY <2>8 DEF CodeJudged, TypeOK, Call
    <3> QED BY <3>1, <1>1
  <2> QED BY <2>1, <2>2, <2>3, <2>4, <2>5, <2>6, <2>7, <2>8 DEF CallStep
<1> QED BY <1>2, <1>3 DEF UserRowsCoherent

\* Whatever stale copies are written over each other, every row satisfies the
\* CHECK constraints of table users and keeps its counter below the limit.
THEOREM RowsCoherent == Spec => []UserRowsCoherent
<1>1. Init => UserRowsCoherent
  BY NewUserCoherent DEF Init, UserRowsCoherent, EmptyTable, Idle
<1> QED BY <1>1, TypeCorrect, CoherentStep, PTL DEF Spec

(***************************************************************************)
(* The lock and its counter                                                *)
(***************************************************************************)
\* A call that will count a failure, or write back a cleared lock, found the
\* account not locked when it read the row, and it read it in the past.
FailuresCountedUnlocked ==
    \A p \in Shells :
        /\ op[p].at <= clock
        /\ Running(p, "clearLock") \/ Running(p, "verify") \/ Running(p, "codeFailed")
              => ~IsLocked(op[p].row, op[p].at)

CounterRestarted(row, now) == IsLocked(row, now) => row.failed = 0

LEMMA CounterRules ==
    ASSUME NEW row \in User, NEW now \in Nat, NEW later \in Nat, now <= later,
           CounterRestarted(row, now)
    PROVE  /\ CounterRestarted(row, later)
           /\ CounterRestarted(ClearLock(row), later)
           /\ CounterRestarted(ClearExpiredLock(row, now), later)
           /\ \A cost : CounterRestarted([row EXCEPT !.cost = cost], later)
           /\ ~IsLocked(row, now) => \A t : CounterRestarted(RegisterFailure(row, t), later)
<1>1. CounterRestarted(row, later)
  BY DEF CounterRestarted, IsLocked, User
<1>2. CounterRestarted(ClearLock(row), later)
  BY DEF CounterRestarted, ClearLock, User
<1>3. \A cost : CounterRestarted([row EXCEPT !.cost = cost], later)
  BY <1>1 DEF CounterRestarted, IsLocked, User
<1>4. ASSUME ~IsLocked(row, now), NEW t PROVE CounterRestarted(RegisterFailure(row, t), later)
  <2>1. CASE TripsLock(row)
    <3>1. RegisterFailure(row, t).failed = 0
      BY <2>1 DEF RegisterFailure, User
    <3> QED BY <3>1 DEF CounterRestarted
  <2>2. CASE ~TripsLock(row)
    <3>1. RegisterFailure(row, t).lockedUntil = row.lockedUntil
      BY <2>2 DEF RegisterFailure, User
    <3> QED BY <3>1, <1>4 DEF CounterRestarted, IsLocked, User
  <2> QED BY <2>1, <2>2
<1> QED BY <1>1, <1>2, <1>3, <1>4 DEF ClearExpiredLock

LEMMA NewUserUnlocked == \A cost, now : ~IsLocked(NewUser(cost), now)
BY DEF IsLocked, NewUser

LEMMA ClearExpiredUnlocked ==
    ASSUME NEW row \in User, NEW now \in Nat, ~IsLocked(row, now)
    PROVE  ~IsLocked(ClearExpiredLock(row, now), now)
BY DEF IsLocked, ClearExpiredLock, LockRanOut, ClearLock, User, Unset

LEMMA FailuresStep ==
    TypeOK /\ FailuresCountedUnlocked /\ [Next]_vars => FailuresCountedUnlocked'
<1> SUFFICES ASSUME TypeOK, FailuresCountedUnlocked, [Next]_vars, NEW p \in Shells
             PROVE  /\ op'[p].at <= clock'
                    /\ op'[p].pc \in {"clearLock", "verify", "codeFailed"}
                          => ~IsLocked(op'[p].row, op'[p].at)
  BY DEF FailuresCountedUnlocked, Running
<1>1. /\ op[p] \in Call /\ op[p].at <= clock
      /\ op[p].pc \in {"clearLock", "verify", "codeFailed"} => ~IsLocked(op[p].row, op[p].at)
      /\ clock \in Nat /\ clock' \in Nat /\ clock <= clock'
      /\ \A a \in DOMAIN users : users[a] \in User
  BY Monotone DEF TypeOK, FailuresCountedUnlocked, Running
<1>2. CallStep(p)
  BY CallsFlow DEF CallsStep
<1>3. CASE op'[p] = op[p] \/ (Running(p, "clearLock") /\ op'[p] = [op[p] EXCEPT !.pc = "verify"])
  BY <1>1, <1>3 DEF Running, Call
<1>4. CASE op'[p] = Idle \/ \E i \in DOMAIN sessions : SessionLoaded(p, i)
  BY <1>1, <1>4, NewUserUnlocked DEF Idle, SessionLoaded, Unset
<1>5. CASE /\ Running(p, "verify")
           /\ op'[p] = [op[p] EXCEPT !.row = [op[p].row EXCEPT !.cost = HashCost[p]]]
  <2>1. op'[p].at = op[p].at /\ op'[p].row.lockedUntil = op[p].row.lockedUntil
    BY <1>1, <1>5 DEF Call, User
  <2> QED BY <1>1, <1>5, <2>1 DEF IsLocked, Running, Call
<1>6. CASE \E a \in DOMAIN users : LoginLoaded(p, a)
  BY <1>1, <1>6, ClearExpiredUnlocked DEF LoginLoaded
<1>7. CASE \E a \in DOMAIN users : EnrollmentLoaded(p, a)
  BY <1>1, <1>7 DEF EnrollmentLoaded, Unset
<1>8. CASE ParkedLoaded(p)
  BY <1>1, <1>8 DEF ParkedLoaded, Unset
<1>9. CASE CodeJudged(p)
  <2>1. op'[p].at = clock /\ op'[p].row = op[p].row
    BY <1>1, <1>9 DEF CodeJudged, Call
  <2>2. ~IsLocked(op[p].row, clock)
    BY <1>9 DEF CodeJudged, Passes
  <2> QED BY <1>1, <2>1, <2>2
<1> QED BY <1>2, <1>3, <1>4, <1>5, <1>6, <1>7, <1>8, <1>9 DEF CallStep

LEMMA FailuresUnlocked == Spec => []FailuresCountedUnlocked
<1>1. Init => FailuresCountedUnlocked
  BY DEF Init, FailuresCountedUnlocked, Running, Idle, Unset
<1> QED BY <1>1, TypeCorrect, FailuresStep, PTL DEF Spec

\* A row loaded to change the enrollment keeps its lock and its counter.
LEMMA EnrollmentKeepsLock ==
    ASSUME TypeOK, NEW p \in Shells, NEW a \in DOMAIN users, EnrollmentLoaded(p, a)
    PROVE  /\ op'[p].row.failed = users[a].failed
           /\ op'[p].row.lockedUntil = users[a].lockedUntil
<1>1. users[a] \in User
  BY DEF TypeOK
<1> QED BY <1>1 DEF EnrollmentLoaded, User

LEMMA CounterStep ==
    TypeOK /\ FailuresCountedUnlocked /\ LockRestartsCounter /\ [Next]_vars
        => LockRestartsCounter'
<1> SUFFICES ASSUME TypeOK, FailuresCountedUnlocked, LockRestartsCounter, [Next]_vars
             PROVE  LockRestartsCounter'
  OBVIOUS
<1>1. /\ \A p \in Shells : /\ op[p] \in Call /\ op[p].row \in User
                           /\ op[p].at \in Nat /\ op[p].at <= clock
                           /\ CounterRestarted(op[p].row, clock)
      /\ \A a \in DOMAIN users : users[a] \in User /\ CounterRestarted(users[a], clock)
      /\ clock \in Nat /\ clock' \in Nat /\ clock <= clock'
  BY Monotone DEF TypeOK, Call, LockRestartsCounter, CounterRestarted, FailuresCountedUnlocked
<1>2. ASSUME NEW p \in Shells
      PROVE  /\ CounterRestarted(op[p].row, clock')
             /\ CounterRestarted(ClearLock(op[p].row), clock')
             /\ CounterRestarted([op[p].row EXCEPT !.cost = HashCost[p]], clock')
  BY <1>1, CounterRules
<1>3. ASSUME NEW a \in DOMAIN users' PROVE CounterRestarted(users'[a], clock')
  <2>1. CASE a \in DOMAIN users /\ users'[a] = users[a]
    BY <2>1, <1>1, CounterRules
  <2>2. CASE RowWritten(users'[a])
    <3>1. PICK p \in Shells :
            \/ users'[a] = NewUser(HashCost[p])
            \/ users'[a] = op[p].row
            \/ users'[a] = ClearLock(op[p].row)
            \/ users'[a] = [op[p].row EXCEPT !.cost = HashCost[p]]
            \/ /\ Running(p, "verify") \/ Running(p, "codeFailed")
               /\ \E now \in Elapsed(p) : users'[a] = RegisterFailure(op[p].row, now)
      BY <2>2 DEF RowWritten
    <3>2. CASE users'[a] = NewUser(HashCost[p])
      BY <3>2, NewUserUnlocked DEF CounterRestarted
    <3>3. CASE \/ users'[a] = op[p].row
               \/ users'[a] = ClearLock(op[p].row)
               \/ users'[a] = [op[p].row EXCEPT !.cost = HashCost[p]]
      BY <3>3, <1>2
    <3>4. CASE /\ Running(p, "verify") \/ Running(p, "codeFailed")
               /\ \E now \in Elapsed(p) : users'[a] = RegisterFailure(op[p].row, now)
      <4>1. ~IsLocked(op[p].row, op[p].at)
        BY <3>4 DEF FailuresCountedUnlocked
      <4>2. ~IsLocked(op[p].row, clock)
        BY <4>1, <1>1 DEF IsLocked, User
      <4>3. PICK now \in Elapsed(p) : users'[a] = RegisterFailure(op[p].row, now)
        BY <3>4
      <4>4. CounterRestarted(RegisterFailure(op[p].row, now), clock')
        BY <4>2, <1>1, CounterRules
      <4> QED BY <4>3, <4>4
    <3> QED BY <3>1, <3>2, <3>3, <3>4
  <2> QED BY <2>1, <2>2, UsersFlow DEF UsersStep
<1>4. ASSUME NEW p \in Shells PROVE CounterRestarted(op'[p].row, clock')
  <2>1. CallStep(p)
    BY CallsFlow DEF CallsStep
  <2>2. CASE op'[p] = op[p] \/ op'[p] = [op[p] EXCEPT !.pc = "verify"]
    <3>1. op'[p].row = op[p].row
      BY <2>2, <1>1 DEF Call
    <3> QED BY <3>1, <1>2
  <2>3. CASE op'[p] = Idle \/ \E i \in DOMAIN sessions : SessionLoaded(p, i)
    BY <2>3, NewUserUnlocked DEF Idle, SessionLoaded, CounterRestarted
  <2>4. CASE op'[p] = [op[p] EXCEPT !.row = [op[p].row EXCEPT !.cost = HashCost[p]]]
    <3>1. op'[p].row = [op[p].row EXCEPT !.cost = HashCost[p]]
      BY <2>4, <1>1 DEF Call
    <3> QED BY <3>1, <1>2
  <2>5. CASE \E a \in DOMAIN users : LoginLoaded(p, a)
    <3>1. PICK a \in DOMAIN users : LoginLoaded(p, a)
      BY <2>5
    <3>2. /\ CounterRestarted(users[a], clock')
          /\ CounterRestarted(ClearExpiredLock(users[a], clock), clock')
      BY <1>1, CounterRules
    <3>3. op'[p].row = ClearExpiredLock(users[a], clock)
      BY <3>1 DEF LoginLoaded
    <3> QED BY <3>2, <3>3
  <2>6. CASE \E a \in DOMAIN users : EnrollmentLoaded(p, a)
    <3>1. PICK a \in DOMAIN users : EnrollmentLoaded(p, a)
      BY <2>6
    <3>2. CounterRestarted(users[a], clock')
      BY <1>1, CounterRules
    <3> QED BY <3>1, <3>2, EnrollmentKeepsLock DEF CounterRestarted, IsLocked
  <2>7. CASE ParkedLoaded(p)
    <3>1. \A a \in DOMAIN users : CounterRestarted(users[a], clock')
      BY <1>1, CounterRules
    <3> QED BY <2>7, <3>1, NewUserUnlocked DEF ParkedLoaded, CounterRestarted
  <2>8. CASE CodeJudged(p)
    <3>1. op'[p].row = op[p].row
      BY <2>8, <1>1 DEF CodeJudged, Call
    <3> QED BY <3>1, <1>2
  <2> QED BY <2>1, <2>2, <2>3, <2>4, <2>5, <2>6, <2>7, <2>8 DEF CallStep
<1> QED BY <1>3, <1>4 DEF LockRestartsCounter, CounterRestarted

\* While a lock is open its counter is 0, in the table and in every copy: no
\* interleaving of shells counts a failure during a lock.
THEOREM LockStartsOver == Spec => []LockRestartsCounter
<1>1. Init => LockRestartsCounter
  BY NewUserUnlocked DEF Init, LockRestartsCounter, EmptyTable, Idle
<1> QED BY <1>1, TypeCorrect, FailuresUnlocked, CounterStep, PTL DEF Spec

(***************************************************************************)
(* Deadlines                                                               *)
(***************************************************************************)
\* A call that will touch a session carries a deadline within the session's
\* absolute one, and the session is not one that is yet to be issued.
TouchBounded ==
    \A p \in Shells : Running(p, "touch") =>
        /\ op[p].ref < nextSid
        /\ op[p].ref \in DOMAIN sessions => op[p].until <= sessions[op[p].ref].abs

LEMMA TouchBoundedStep ==
    TypeOK /\ TouchBounded /\ [Next]_vars => TouchBounded'
<1> SUFFICES ASSUME TypeOK, TouchBounded, [Next]_vars, NEW p \in Shells, op'[p].pc = "touch"
             PROVE  /\ op'[p].ref < nextSid'
                    /\ op'[p].ref \in DOMAIN sessions' =>
                          op'[p].until <= sessions'[op'[p].ref].abs
  BY DEF TouchBounded, Running
<1>1. /\ op[p] \in Call /\ nextSid \in Nat /\ clock \in Nat
      /\ DOMAIN sessions \subseteq 1 .. nextSid - 1
      /\ \A i \in DOMAIN sessions : sessions[i] \in Session(DOMAIN users)
  BY DEF TypeOK
<1>2. SessionsStep /\ CallStep(p)
  BY SessionsFlow, CallsFlow DEF CallsStep
<1>3. nextSid' \in Nat
  BY TypeStep DEF TypeOK
<1>4. /\ op'[p].ref < nextSid
      /\ op'[p].ref \in DOMAIN sessions => op'[p].until <= sessions[op'[p].ref].abs
  <2>1. CASE op'[p] = op[p]
    BY <2>1 DEF TouchBounded, Running
  <2>2. CASE \E i \in DOMAIN sessions : SessionLoaded(p, i)
    <3>1. PICK i \in DOMAIN sessions : SessionLoaded(p, i)
      BY <2>2
    <3>2. op'[p].ref = i /\ op'[p].until = IdleDeadline(sessions[i], clock)
      BY <3>1 DEF SessionLoaded
    <3>3. IdleDeadline(sessions[i], clock) <= sessions[i].abs
      BY <1>1, ConfigValid DEF IdleDeadline, Earlier, Session
    <3> QED BY <3>2, <3>3, <1>1
  <2>3. CASE op'[p] = Idle
    BY <2>3 DEF Idle
  <2>4. CASE op'[p] = [op[p] EXCEPT !.pc = "verify"]
    BY <2>4, <1>1 DEF Call
  <2>5. CASE /\ Running(p, "verify")
             /\ op'[p] = [op[p] EXCEPT !.row = [op[p].row EXCEPT !.cost = HashCost[p]]]
    BY <2>5, <1>1 DEF Call, Running
  <2>6. CASE \E a \in DOMAIN users : LoginLoaded(p, a) \/ EnrollmentLoaded(p, a)
    BY <2>6 DEF LoginLoaded, EnrollmentLoaded
  <2>7. CASE ParkedLoaded(p) \/ CodeJudged(p)
    BY <2>7, <1>1 DEF ParkedLoaded, CodeJudged, Call
  <2> QED BY <1>2, <2>1, <2>2, <2>3, <2>4, <2>5, <2>6, <2>7 DEF CallStep
<1>5. \A i \in DOMAIN sessions \cap DOMAIN sessions' : sessions'[i].abs = sessions[i].abs
  BY <1>1, <1>2 DEF SessionsStep, Session
<1>6. DOMAIN sessions' \subseteq DOMAIN sessions \cup {nextSid}
  BY <1>2 DEF SessionsStep
<1>7. nextSid <= nextSid'
  BY <1>2 DEF SessionsStep
<1>8. op'[p].ref \in Nat
  BY TypeStep DEF TypeOK, Call
<1> QED BY <1>1, <1>3, <1>4, <1>5, <1>6, <1>7, <1>8

LEMMA TouchIsBounded == Spec => []TouchBounded
<1>1. Init => TouchBounded
  BY DEF Init, TouchBounded, Running, Idle
<1> QED BY <1>1, TypeCorrect, TouchBoundedStep, PTL DEF Spec

\* A challenge in a store was there before, or is a login parked in this step.
ChallengesStep ==
    \A p \in Shells : \A c \in challenges'[p] :
        c \in challenges[p] \/ c.expires = op[p].at + ChallengeTTL

LEMMA ChallengesFlow == TypeOK /\ [Next]_vars => ChallengesStep
<1> SUFFICES ASSUME TypeOK, [Next]_vars PROVE ChallengesStep
  OBVIOUS
<1> challenges \in [Shells -> SUBSET Challenge]
  BY DEF TypeOK
<1>1. ASSUME UNCHANGED challenges PROVE ChallengesStep
  BY <1>1 DEF ChallengesStep
<1>2. ASSUME NEW p \in Shells, NEW id, DeleteChallenge(p, id) PROVE ChallengesStep
  BY <1>2 DEF DeleteChallenge, ChallengesStep
<1>3. ASSUME NEW p \in Shells, NEW c, SaveChallenge(p, c),
             c \in challenges[p] \/ c.expires = op[p].at + ChallengeTTL
      PROVE ChallengesStep
  BY <1>3 DEF SaveChallenge, ChallengesStep
<1>4. ASSUME NEW p \in Shells, NEW id, Park(p, id) PROVE ChallengesStep
  <2> DEFINE c == [id |-> id, acct |-> op[p].acct, expires |-> op[p].at + ChallengeTTL]
  <2>1. SaveChallenge(p, c)
    BY <1>4 DEF Park
  <2>2. c.expires = op[p].at + ChallengeTTL
    OBVIOUS
  <2> HIDE DEF c
  <2> QED BY <2>1, <2>2, <1>3
<1>5. ASSUME NEW p \in Shells, LoginStep(p) PROVE ChallengesStep
  BY <1>1, <1>4, <1>5
  DEF LoginStep, Register, AuthenticateLoad, ClearLockSave, PasswordFailed, Rehash,
      PasswordLogin
<1>6. ASSUME NEW p \in Shells, ChallengeStep(p) PROVE ChallengesStep
  <2>1. ASSUME AnswerStep(p) PROVE ChallengesStep
    BY <1>1, <1>2, <1>3, <2>1, AnswerCases
    DEF FindChallenge, LoadUser, CodeWrong, CodeRight, Discards
  <2> QED BY <1>1, <1>2, <1>6, <2>1 DEF ChallengeStep, CodeFailed, CodeLogin
<1>7. ASSUME NEW p \in Shells, EnrollmentStep(p) PROVE ChallengesStep
  BY <1>1, <1>7
  DEF EnrollmentStep, BeginLoad, CancelLoad, SaveRow, ConfirmLoad, ConfirmSave,
      DisableLoad, DisableSave, PostureSave
<1>8. ASSUME NEW p \in Shells, SessionStep(p) PROVE ChallengesStep
  BY <1>1, <1>8 DEF SessionStep, ResolveLoad, Touch, LogoutLoad, LogoutRevoke
<1>9. ASSUME NEW p \in Shells, FailureStep(p) PROVE ChallengesStep
  BY <1>1, <1>9 DEF FailureStep, DBError, Restart, ChallengesStep
<1> QED BY <1>1, <1>5, <1>6, <1>7, <1>8, <1>9 DEF Next, Tick, vars

LockWithin(row, now) == row.lockedUntil <= now + LockDuration

LEMMA LockWithinRules ==
    ASSUME NEW row \in User, NEW now \in Nat, NEW later \in Nat, now <= later,
           LockWithin(row, now)
    PROVE  /\ LockWithin(row, later)
           /\ LockWithin(ClearLock(row), later)
           /\ LockWithin(ClearExpiredLock(row, now), later)
           /\ \A cost : LockWithin([row EXCEPT !.cost = cost], later)
           /\ \A t \in Nat : t <= now => LockWithin(RegisterFailure(row, t), later)
<1> USE ConfigValid
<1>1. LockWithin(row, later)
  BY DEF LockWithin, User
<1>2. LockWithin(ClearLock(row), later)
  BY DEF LockWithin, ClearLock, User, Unset
<1>3. \A cost : LockWithin([row EXCEPT !.cost = cost], later)
  BY <1>1 DEF LockWithin, User
<1>4. ASSUME NEW t \in Nat, t <= now PROVE LockWithin(RegisterFailure(row, t), later)
  <2>1. CASE TripsLock(row)
    <3>1. RegisterFailure(row, t).lockedUntil = t + LockDuration
      BY <2>1 DEF RegisterFailure, User
    <3> QED BY <3>1, <1>4 DEF LockWithin
  <2>2. CASE ~TripsLock(row)
    <3>1. RegisterFailure(row, t).lockedUntil = row.lockedUntil
      BY <2>2 DEF RegisterFailure, User
    <3> QED BY <3>1, <1>1 DEF LockWithin
  <2> QED BY <2>1, <2>2
<1> QED BY <1>1, <1>2, <1>3, <1>4 DEF ClearExpiredLock

LEMMA NewUserWithin == \A cost : \A now \in Nat : LockWithin(NewUser(cost), now)
BY ConfigValid DEF LockWithin, NewUser, Unset

LEMMA NewSessionWithin ==
    ASSUME NEW owner, NEW now \in Nat
    PROVE  LET s == NewSession(owner, now)
           IN  /\ s.idle <= s.abs
               /\ s.idle = now + IdleTimeout
               /\ s.abs = now + MaxLifetime
BY ConfigValid DEF NewSession

LEMMA AddMonotone == \A x, y, z \in Nat : x <= y => x + z <= y + z
OBVIOUS

LEMMA DeadlinesStep ==
    TypeOK /\ FailuresCountedUnlocked /\ TouchBounded /\ DeadlinesBounded /\ [Next]_vars
        => DeadlinesBounded'
<1> SUFFICES ASSUME TypeOK, FailuresCountedUnlocked, TouchBounded, DeadlinesBounded,
                    [Next]_vars
             PROVE  DeadlinesBounded'
  OBVIOUS
<1>1. /\ \A p \in Shells : /\ op[p] \in Call /\ op[p].row \in User
                           /\ op[p].at \in Nat /\ op[p].at <= clock
                           /\ op[p].until \in Nat /\ op[p].until <= clock + IdleTimeout
                           /\ LockWithin(op[p].row, clock)
      /\ \A a \in DOMAIN users : users[a] \in User /\ LockWithin(users[a], clock)
      /\ clock \in Nat /\ clock' \in Nat /\ clock <= clock'
  BY Monotone DEF TypeOK, Call, DeadlinesBounded, LockWithin, FailuresCountedUnlocked
<1>2. ASSUME NEW p \in Shells
      PROVE  /\ LockWithin(op[p].row, clock')
             /\ LockWithin(ClearLock(op[p].row), clock')
             /\ LockWithin([op[p].row EXCEPT !.cost = HashCost[p]], clock')
             /\ \A now \in Elapsed(p) : LockWithin(RegisterFailure(op[p].row, now), clock')
  <2>1. op[p].row \in User /\ LockWithin(op[p].row, clock)
    BY <1>1
  <2>2. \A cost : LockWithin([op[p].row EXCEPT !.cost = cost], clock')
    BY <2>1, <1>1, LockWithinRules
  <2>3. \A t \in Nat : t <= clock => LockWithin(RegisterFailure(op[p].row, t), clock')
    BY <2>1, <1>1, LockWithinRules
  <2>4. \A now \in Elapsed(p) : now \in Nat /\ now <= clock
    BY <1>1 DEF Elapsed
  <2>5. LockWithin(op[p].row, clock') /\ LockWithin(ClearLock(op[p].row), clock')
    BY <2>1, <1>1, LockWithinRules
  <2> QED BY <2>2, <2>3, <2>4, <2>5
<1>3. ASSUME NEW a \in DOMAIN users' PROVE LockWithin(users'[a], clock')
  <2>1. CASE a \in DOMAIN users /\ users'[a] = users[a]
    BY <2>1, <1>1, LockWithinRules
  <2>2. CASE RowWritten(users'[a])
    BY <2>2, <1>1, <1>2, NewUserWithin DEF RowWritten
  <2> QED BY <2>1, <2>2, UsersFlow DEF UsersStep
<1>4. ASSUME NEW p \in Shells
      PROVE  LockWithin(op'[p].row, clock') /\ op'[p].until <= clock' + IdleTimeout
  <2>0. 0 <= clock' + IdleTimeout
    <3>1. clock' \in Nat /\ IdleTimeout \in Nat
      BY <1>1, ConfigValid
    <3>2. \A n, m \in Nat : 0 <= n + m
      OBVIOUS
    <3> QED BY <3>1, <3>2
  <2>1. CallStep(p)
    BY CallsFlow DEF CallsStep
  <2>2. CASE op'[p] = op[p] \/ op'[p] = [op[p] EXCEPT !.pc = "verify"]
    <3>1. op'[p].row = op[p].row /\ op'[p].until = op[p].until
      BY <2>2, <1>1 DEF Call
    <3>2. op[p].until <= clock' + IdleTimeout
      BY <1>1, ConfigValid
    <3> QED BY <3>1, <3>2, <1>2
  <2>3. CASE op'[p] = Idle
    BY <2>3, <1>1, NewUserWithin, ConfigValid DEF Idle, Unset
  <2>4. CASE op'[p] = [op[p] EXCEPT !.row = [op[p].row EXCEPT !.cost = HashCost[p]]]
    <3>1. op'[p].row = [op[p].row EXCEPT !.cost = HashCost[p]] /\ op'[p].until = op[p].until
      BY <2>4, <1>1 DEF Call
    <3> QED BY <3>1, <1>1, <1>2, ConfigValid
  <2>5. CASE \E a \in DOMAIN users : LoginLoaded(p, a)
    <3>1. PICK a \in DOMAIN users : LoginLoaded(p, a)
      BY <2>5
    <3>2. LockWithin(ClearExpiredLock(users[a], clock), clock')
      BY <1>1, LockWithinRules
    <3>3. /\ op'[p].row = ClearExpiredLock(users[a], clock)
          /\ op'[p].until = 0
      BY <3>1 DEF LoginLoaded, Unset
    <3> QED BY <3>2, <3>3, <2>0
  <2>6. CASE \E a \in DOMAIN users : EnrollmentLoaded(p, a)
    <3>1. PICK a \in DOMAIN users : EnrollmentLoaded(p, a)
      BY <2>6
    <3>2. LockWithin(users[a], clock')
      BY <1>1, LockWithinRules
    <3>3. op'[p].until = 0
      BY <3>1 DEF EnrollmentLoaded, Unset
    <3>4. LockWithin(op'[p].row, clock')
      BY <3>1, <3>2, EnrollmentKeepsLock DEF LockWithin
    <3> QED BY <3>3, <3>4, <2>0
  <2>7. CASE \E i \in DOMAIN sessions : SessionLoaded(p, i)
    <3>1. PICK i \in DOMAIN sessions : SessionLoaded(p, i)
      BY <2>7
    <3>2. op'[p].row = NewUser(0)
      BY <3>1 DEF SessionLoaded
    <3>3. op'[p].until \in {0, IdleDeadline(sessions[i], clock)}
      BY <3>1 DEF SessionLoaded, Unset
    <3>4. IdleDeadline(sessions[i], clock) <= clock + IdleTimeout
      BY <1>1, ConfigValid DEF IdleDeadline, Earlier, TypeOK, Session
    <3>5. IdleDeadline(sessions[i], clock) \in Nat
      BY <1>1, IdleDeadlineType DEF TypeOK
    <3>6. op'[p].until <= clock' + IdleTimeout
      BY <3>3, <3>4, <3>5, <1>1, ConfigValid
    <3> QED BY <3>2, <3>6, <1>1, NewUserWithin
  <2>8. CASE ParkedLoaded(p)
    <3>1. op'[p].until = 0
      BY <2>8 DEF ParkedLoaded, Unset
    <3>2. \A a \in DOMAIN users : LockWithin(users[a], clock')
      BY <1>1, LockWithinRules
    <3>3. LockWithin(op'[p].row, clock')
      BY <2>8, <3>2, <1>1, NewUserWithin DEF ParkedLoaded
    <3> QED BY <3>1, <3>3, <2>0
  <2>9. CASE CodeJudged(p)
    <3>1. op'[p].row = op[p].row /\ op'[p].until = op[p].until
      BY <2>9, <1>1 DEF CodeJudged, Call
    <3>2. op[p].until <= clock' + IdleTimeout
      BY <1>1, ConfigValid
    <3> QED BY <3>1, <3>2, <1>2
  <2>10. \/ op'[p] = op[p] \/ op'[p] = [op[p] EXCEPT !.pc = "verify"]
         \/ op'[p] = Idle
         \/ op'[p] = [op[p] EXCEPT !.row = [op[p].row EXCEPT !.cost = HashCost[p]]]
         \/ \E a \in DOMAIN users : LoginLoaded(p, a)
         \/ \E a \in DOMAIN users : EnrollmentLoaded(p, a)
         \/ \E i \in DOMAIN sessions : SessionLoaded(p, i)
         \/ ParkedLoaded(p) \/ CodeJudged(p)
    BY <2>1 DEF CallStep
  <2> QED BY <2>2, <2>3, <2>4, <2>5, <2>6, <2>7, <2>8, <2>9, <2>10
<1>5. ASSUME NEW p \in Shells, NEW c \in challenges'[p]
      PROVE  c.expires <= clock' + ChallengeTTL
  <2>1. c \in challenges[p] \/ c.expires = op[p].at + ChallengeTTL
    BY ChallengesFlow DEF ChallengesStep
  <2>2. CASE c \in challenges[p]
    BY <2>2, <1>1, ConfigValid DEF DeadlinesBounded, TypeOK, Challenge
  <2>3. CASE c.expires = op[p].at + ChallengeTTL
    BY <2>3, <1>1, ConfigValid
  <2> QED BY <2>1, <2>2, <2>3
<1>6. ASSUME NEW i \in DOMAIN sessions'
      PROVE  /\ sessions'[i].idle <= sessions'[i].abs
             /\ sessions'[i].idle <= clock' + IdleTimeout
             /\ sessions'[i].abs <= clock' + MaxLifetime
  <2>1. ASSUME i \in DOMAIN sessions
        PROVE  /\ sessions[i] \in Session(DOMAIN users)
               /\ sessions[i].idle <= sessions[i].abs
               /\ sessions[i].idle <= clock' + IdleTimeout
               /\ sessions[i].abs <= clock' + MaxLifetime
    BY <2>1, <1>1, ConfigValid DEF DeadlinesBounded, TypeOK, Session
  <2>2. CASE /\ i \in DOMAIN sessions
             /\ \/ sessions'[i] = sessions[i]
                \/ sessions'[i] = [sessions[i] EXCEPT !.revoked = TRUE]
    BY <2>1, <2>2 DEF Session
  <2>3. CASE /\ i \in DOMAIN sessions
             /\ \E p \in Shells : /\ Running(p, "touch") /\ op[p].ref = i
                                  /\ sessions'[i] = [sessions[i] EXCEPT !.idle = op[p].until]
    <3>1. PICK p \in Shells : /\ Running(p, "touch") /\ op[p].ref = i
                              /\ sessions'[i] = [sessions[i] EXCEPT !.idle = op[p].until]
      BY <2>3
    <3>2. sessions'[i].idle = op[p].until /\ sessions'[i].abs = sessions[i].abs
      BY <2>1, <2>3, <3>1 DEF Session
    <3>3. op[p].until <= sessions[i].abs
      BY <2>3, <3>1 DEF TouchBounded
    <3> QED BY <2>1, <2>3, <3>2, <3>3, <1>1, ConfigValid
  <2>4. CASE \E p \in Shells : \E now \in Elapsed(p) :
                sessions'[i] = NewSession(op[p].acct, now)
    <3>0. PICK p \in Shells : \E now \in Elapsed(p) :
                sessions'[i] = NewSession(op[p].acct, now)
      BY <2>4
    <3>1. PICK now \in Elapsed(p) : sessions'[i] = NewSession(op[p].acct, now)
      BY <3>0
    <3>2. now \in Nat /\ now <= clock
      BY <1>1 DEF Elapsed
    <3>3. /\ sessions'[i].idle <= sessions'[i].abs
          /\ sessions'[i].idle = now + IdleTimeout
          /\ sessions'[i].abs = now + MaxLifetime
      BY <3>1, <3>2, NewSessionWithin
    <3>4. now \in Nat /\ clock' \in Nat /\ now <= clock'
      BY <3>2, <1>1
    <3>5. now + IdleTimeout <= clock' + IdleTimeout
      BY <3>4, ConfigValid, AddMonotone
    <3>6. now + MaxLifetime <= clock' + MaxLifetime
      BY <3>4, ConfigValid, AddMonotone
    <3> QED BY <3>3, <3>5, <3>6, <1>1, ConfigValid
  <2> QED BY <2>2, <2>3, <2>4, SessionsFlow DEF SessionsStep
<1> QED BY <1>3, <1>4, <1>5, <1>6 DEF DeadlinesBounded, LockWithin

\* Locks, sessions and parked logins end within their configured windows, with
\* any number of shells and whatever copies they write back late.
THEOREM DeadlinesHold == Spec => []DeadlinesBounded
<1>1. Init => DeadlinesBounded
  BY ConfigValid DEF Init, DeadlinesBounded, EmptyTable, Idle, NewUser, Unset
<1> QED BY <1>1, TypeCorrect, FailuresUnlocked, TouchIsBounded, DeadlinesStep, PTL DEF Spec

(***************************************************************************)
(* Verdicts on codes                                                       *)
(***************************************************************************)
LEMMA VerdictStep ==
    TypeOK /\ UserRowsCoherent /\ VerdictUnderOwnKey /\ [Next]_vars => VerdictUnderOwnKey'
<1> SUFFICES ASSUME TypeOK, UserRowsCoherent, VerdictUnderOwnKey, [Next]_vars,
                    NEW p \in Shells,
                    op'[p].pc \in {"codeFailed", "codeLogin", "confirm"}
             PROVE  op'[p].row.key = KeyOf[p]
  BY DEF VerdictUnderOwnKey, Running
<1>1. op[p] \in Call /\ op[p].row \in User
  BY DEF TypeOK, Call
<1>2. CallStep(p)
  BY CallsFlow DEF CallsStep
<1>3. CASE op'[p] = op[p]
  BY <1>3 DEF VerdictUnderOwnKey, Running
<1>4. CASE op'[p] = Idle
  BY <1>4 DEF Idle
<1>5. CASE op'[p] = [op[p] EXCEPT !.pc = "verify"]
  BY <1>1, <1>5 DEF Call
<1>6. CASE /\ Running(p, "verify")
           /\ op'[p] = [op[p] EXCEPT !.row = [op[p].row EXCEPT !.cost = HashCost[p]]]
  BY <1>1, <1>6 DEF Call, Running
<1>7. CASE CodeJudged(p)
  <2>1. op[p].row.enabled => op[p].row.secret # NoSecret
    BY DEF UserRowsCoherent, RowCoherent
  <2>2. op'[p].row = op[p].row
    BY <1>1, <1>7 DEF CodeJudged, Call
  <2> QED BY <1>7, <2>1, <2>2 DEF CodeJudged, Passes, Decrypts
<1>8. ASSUME NEW a \in DOMAIN users, EnrollmentLoaded(p, a)
      PROVE  op'[p].row.key = KeyOf[p]
  <2>1. users[a] \in User
    BY DEF TypeOK
  <2> QED BY <1>8, <2>1
      DEF EnrollmentLoaded, Decrypts, HasPendingTOTPEnrollment, User
<1>9. ASSUME NEW i \in DOMAIN sessions, SessionLoaded(p, i)
      PROVE  op'[p].row.key = KeyOf[p]
  BY <1>9 DEF SessionLoaded
<1>10. CASE ParkedLoaded(p) \/ \E a \in DOMAIN users : LoginLoaded(p, a)
  BY <1>10 DEF ParkedLoaded, LoginLoaded
<1> QED BY <1>2, <1>3, <1>4, <1>5, <1>6, <1>7, <1>8, <1>9, <1>10 DEF CallStep

\* No process ever accepts a code, or counts one as a failure, for a secret that
\* is sealed under another AUTH_SECRET_KEY than its own.
THEOREM VerdictsUnderOwnKey == Spec => []VerdictUnderOwnKey
<1>1. Init => VerdictUnderOwnKey
  BY DEF Init, VerdictUnderOwnKey, Running, Idle
<1> QED BY <1>1, TypeCorrect, RowsCoherent, VerdictStep, PTL DEF Spec

(***************************************************************************)
(* Parked logins                                                           *)
(***************************************************************************)
\* The part of ParkedLoginConsumed about one shell.
Consumed(p) ==
    /\ Running(p, "codeLogin") => \A c \in challenges[p] : c.id # op[p].ref
    /\ op[p].pc \in {"loadUser", "checkCode", "codeFailed"} =>
          \E c \in challenges[p] : c.id = op[p].ref

\* Only the shell that takes the step can disturb it, as neither its stack nor
\* its store is seen by another.
LEMMA OthersConsumed ==
    ASSUME TypeOK, ParkedLoginConsumed, NEW p \in Shells, NEW call, NEW store,
           op' = [op EXCEPT ![p] = call] \/ op' = op,
           challenges' = [challenges EXCEPT ![p] = store] \/ challenges' = challenges,
           Consumed(p)'
    PROVE  ParkedLoginConsumed'
<1>1. ASSUME NEW q \in Shells \ {p} PROVE Consumed(q)'
  <2>1. op'[q] = op[q] /\ challenges'[q] = challenges[q]
    BY DEF TypeOK
  <2> QED BY <2>1 DEF ParkedLoginConsumed, Consumed, Running
<1> QED BY <1>1 DEF ParkedLoginConsumed, Consumed

\* A call that is not about a parked login has nothing to keep.
ParkedPCs == {"loadUser", "checkCode", "codeFailed", "codeLogin"}

LEMMA NothingParked ==
    ASSUME TypeOK, ParkedLoginConsumed, NEW p \in Shells, NEW call, NEW store,
           op' = [op EXCEPT ![p] = call],
           challenges' = [challenges EXCEPT ![p] = store] \/ challenges' = challenges,
           call.pc \notin ParkedPCs
    PROVE  ParkedLoginConsumed'
<1>1. op'[p] = call
  BY DEF TypeOK
<1>2. Consumed(p)'
  BY <1>1 DEF Consumed, Running, ParkedPCs
<1> QED BY <1>2, OthersConsumed

LEMMA ConsumedStep ==
    TypeOK /\ ParkedLoginConsumed /\ [Next]_vars => ParkedLoginConsumed'
<1> SUFFICES ASSUME TypeOK, ParkedLoginConsumed, [Next]_vars PROVE ParkedLoginConsumed'
  OBVIOUS
<1> op \in [Shells -> Call] /\ challenges \in [Shells -> SUBSET Challenge]
  BY DEF TypeOK
<1>1. ASSUME UNCHANGED <<op, challenges>> PROVE ParkedLoginConsumed'
  BY <1>1 DEF ParkedLoginConsumed, Running
<1>2. Idle.pc \notin ParkedPCs
  BY DEF Idle, ParkedPCs
<1>3. ASSUME NEW p \in Shells, NEW store, Return(p),
             challenges' = [challenges EXCEPT ![p] = store] \/ challenges' = challenges
      PROVE  ParkedLoginConsumed'
  BY <1>2, <1>3, NothingParked DEF Return
<1>4. ASSUME NEW p \in Shells, NEW pc \in PCs \ ParkedPCs, NEW a,
             NEW row, NEW ref, Proceed(p, pc, a, row, ref), UNCHANGED challenges
      PROVE  ParkedLoginConsumed'
  <2> DEFINE call == [Idle EXCEPT !.pc = pc, !.acct = a, !.row = row, !.ref = ref]
  <2>1. op' = [op EXCEPT ![p] = call]
    BY <1>4 DEF Proceed
  <2>2. call.pc = pc
    BY DEF Idle
  <2> HIDE DEF call
  <2> QED BY <2>1, <2>2, <1>4, NothingParked
<1>5. ASSUME NEW p \in Shells, Discards(p) PROVE ParkedLoginConsumed'
  <2>1. PICK store :
          challenges' = [challenges EXCEPT ![p] = store] \/ challenges' = challenges
    BY <1>5 DEF Discards, DeleteChallenge
  <2>2. CASE Return(p)
    BY <1>3, <2>1, <2>2
  <2>3. CASE Ready(p) /\ UNCHANGED op
    <3>1. Consumed(p)'
      BY <2>3 DEF Consumed, Ready, Running
    <3> QED BY <2>1, <2>3, <3>1, OthersConsumed
  <2> QED BY <1>5, <2>2, <2>3 DEF Discards
<1>6. ASSUME NEW p \in Shells, NEW c \in challenges[p], FindChallenge(p, c) \/ LoadUser(p)
      PROVE  ParkedLoginConsumed'
  <2>1. /\ op'[p].pc \in {"loadUser", "checkCode"} /\ UNCHANGED challenges
        /\ \E call : op' = [op EXCEPT ![p] = call]
        /\ op'[p].ref = c.id \/ (Running(p, "loadUser") /\ op'[p].ref = op[p].ref)
    BY <1>6 DEF FindChallenge, LoadUser, Proceed, Idle
  <2>2. \E d \in challenges[p] : d.id = op'[p].ref
    BY <2>1 DEF ParkedLoginConsumed, Running
  <2>3. Consumed(p)'
    BY <2>1, <2>2 DEF Consumed, Running
  <2> QED BY <2>1, <2>3, OthersConsumed
<1>7. ASSUME NEW p \in Shells, NEW code, CodeWrong(p, code) \/ CodeRight(p, code)
      PROVE  ParkedLoginConsumed'
  <2>1. CASE CodeWrong(p, code)
    <3>1. PICK c \in challenges[p] : c.id = op[p].ref /\ SaveChallenge(p, c)
      BY <2>1 DEF CodeWrong
    <3>2. op'[p].ref = op[p].ref /\ op'[p].pc = "codeFailed"
      BY <2>1 DEF CodeWrong, Decide, Call
    <3>3. c \in challenges'[p]
      BY <3>1 DEF SaveChallenge
    <3>4. Consumed(p)'
      BY <3>1, <3>2, <3>3 DEF Consumed, Running
    <3> QED BY <2>1, <3>1, <3>4, OthersConsumed DEF CodeWrong, SaveChallenge, Decide
  <2>2. CASE CodeRight(p, code)
    <3>1. op'[p].ref = op[p].ref /\ op'[p].pc = "codeLogin"
      BY <2>2 DEF CodeRight, Decide, Call
    <3>2. \A d \in challenges'[p] : d.id # op[p].ref
      BY <2>2 DEF CodeRight, DeleteChallenge
    <3>3. Consumed(p)'
      BY <3>1, <3>2 DEF Consumed, Running
    <3> QED BY <2>2, <3>3, OthersConsumed DEF CodeRight, DeleteChallenge, Decide
  <2> QED BY <1>7, <2>1, <2>2
<1>8. ASSUME NEW p \in Shells, NEW a, NEW good, AuthenticateLoad(p, a, good)
      PROVE  ParkedLoginConsumed'
  <2> DEFINE call == [Idle EXCEPT !.pc = IF LockRanOut(users[a], clock)
                                         THEN "clearLock" ELSE "verify",
                                  !.acct = a,
                                  !.row = ClearExpiredLock(users[a], clock),
                                  !.at = clock,
                                  !.good = good]
  <2>1. op' = [op EXCEPT ![p] = call] /\ UNCHANGED challenges
    BY <1>8 DEF AuthenticateLoad
  <2>2. call.pc \in {"clearLock", "verify"}
    BY DEF Idle
  <2> HIDE DEF call
  <2> QED BY <2>1, <2>2, NothingParked DEF ParkedPCs
<1>9. ASSUME NEW p \in Shells, ClearLockSave(p) \/ Rehash(p) PROVE ParkedLoginConsumed'
  <2>1. /\ op'[p].pc = "verify" /\ UNCHANGED challenges
        /\ \E call : op' = [op EXCEPT ![p] = call]
    BY <1>9 DEF ClearLockSave, Rehash, Running, Call
  <2>2. Consumed(p)'
    BY <2>1 DEF Consumed, Running
  <2> QED BY <2>1, <2>2, OthersConsumed
<1>10. ASSUME NEW p \in Shells, NEW i, ResolveLoad(p, i) \/ LogoutLoad(p, i)
       PROVE  ParkedLoginConsumed'
  <2>1. CASE ResolveLoad(p, i)
    <3> DEFINE call == [Idle EXCEPT !.pc = "touch", !.acct = sessions[i].owner, !.ref = i,
                                    !.until = IdleDeadline(sessions[i], clock)]
    <3>1. op' = [op EXCEPT ![p] = call] /\ UNCHANGED challenges
      BY <2>1 DEF ResolveLoad
    <3>2. call.pc = "touch"
      BY DEF Idle
    <3> HIDE DEF call
    <3> QED BY <3>1, <3>2, NothingParked DEF ParkedPCs
  <2>2. CASE LogoutLoad(p, i)
    <3> DEFINE call == [Idle EXCEPT !.pc = "revoke", !.acct = sessions[i].owner, !.ref = i]
    <3>1. op' = [op EXCEPT ![p] = call] /\ UNCHANGED challenges
      BY <2>2 DEF LogoutLoad
    <3>2. call.pc = "revoke"
      BY DEF Idle
    <3> HIDE DEF call
    <3> QED BY <3>1, <3>2, NothingParked DEF ParkedPCs
  <2> QED BY <1>10, <2>1, <2>2
<1>11. ASSUME NEW p \in Shells, LoginStep(p) PROVE ParkedLoginConsumed'
  BY <1>1, <1>3, <1>8, <1>9, <1>11
  DEF LoginStep, Register, PasswordFailed, Park, SaveChallenge, PasswordLogin
<1>12. ASSUME NEW p \in Shells, ChallengeStep(p) PROVE ParkedLoginConsumed'
  <2>1. ASSUME NEW c \in challenges[p], FindChallenge(p, c) PROVE ParkedLoginConsumed'
    BY <1>6, <2>1
  <2>2. ASSUME LoadUser(p) PROVE ParkedLoginConsumed'
    <3>1. PICK c \in challenges[p] : c.id = op[p].ref
      BY <2>2 DEF LoadUser, ParkedLoginConsumed, Running
    <3> QED BY <1>6, <2>2, <3>1
  <2>3. ASSUME AnswerStep(p) PROVE ParkedLoginConsumed'
    BY <1>5, <1>7, <2>1, <2>2, <2>3, AnswerCases
  <2>4. ASSUME NEW acked, CodeFailed(p, acked) PROVE ParkedLoginConsumed'
    <3>1. Return(p)
      BY <2>4 DEF CodeFailed
    <3>2. \E store :
            challenges' = [challenges EXCEPT ![p] = store] \/ challenges' = challenges
      BY <2>4 DEF CodeFailed, DeleteChallenge
    <3> QED BY <1>3, <3>1, <3>2
  <2> QED BY <1>3, <1>12, <2>3, <2>4 DEF ChallengeStep, CodeLogin
<1>13. ASSUME NEW p \in Shells, EnrollmentStep(p) PROVE ParkedLoginConsumed'
  BY <1>3, <1>4, <1>13
  DEF EnrollmentStep, BeginLoad, CancelLoad, SaveRow, ConfirmLoad, ConfirmSave,
      DisableLoad, DisableSave, PostureSave, PCs, ParkedPCs
<1>14. ASSUME NEW p \in Shells, SessionStep(p) PROVE ParkedLoginConsumed'
  BY <1>3, <1>10, <1>14 DEF SessionStep, Touch, LogoutRevoke
<1>15. ASSUME NEW p \in Shells, FailureStep(p) PROVE ParkedLoginConsumed'
  BY <1>3, <1>15 DEF FailureStep, DBError, Restart, Return
<1> QED BY <1>1, <1>11, <1>12, <1>13, <1>14, <1>15 DEF Next, Tick, vars

\* A parked login leaves the store before the session it pays for is issued, and
\* is still there while an answer to it is examined and a wrong one counted.
THEOREM ParkedLoginsConsumed == Spec => []ParkedLoginConsumed
<1>1. Init => ParkedLoginConsumed
  BY DEF Init, ParkedLoginConsumed, Running, Idle
<1> QED BY <1>1, TypeCorrect, ConsumedStep, PTL DEF Spec
=============================================================================
