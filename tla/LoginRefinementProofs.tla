------------------------ MODULE LoginRefinementProofs ------------------------
(***************************************************************************)
(* Proofs that one shell that has the database to itself keeps             *)
(* LoginPromise, for any number of accounts and sessions, any valid        *)
(* configuration, and calls that fail, are killed or take long.            *)
(***************************************************************************)
EXTENDS LoginRefinement, AuthServiceProofs

Alone == \E p \in Shells : Shells = {p}

LEMMA OnlyShell == ASSUME Alone, NEW p \in Shells PROVE Shells = {p}
  BY DEF Alone

(***************************************************************************)
(* The copy of the row is current: nobody else writes it, and no lock can  *)
(* come up while a call runs.                                              *)
(***************************************************************************)
LoginCalls == {"clearLock", "verify", "codeFailed", "codeLogin"}

SameLock(row, user) == row.failed = user.failed /\ row.lockedUntil = user.lockedUntil

CopyCurrent(p) ==
    LET row == op[p].row
        user == users[op[p].acct]
    IN  /\ op[p].pc \in LoginCalls => ~IsLocked(user, clock) /\ op[p].at >= 1
        /\ op[p].pc = "clearLock" => row = ClearLock(user)
        /\ op[p].pc \in {"verify", "checkCode", "codeFailed", "codeLogin"} => row = user
        /\ op[p].pc \in {"loadUser", "checkCode"} =>
              \E c \in challenges[p] : c.id = op[p].ref /\ c.acct = op[p].acct
        /\ op[p].pc = "save" => Seen(row) = Seen(user)
        /\ op[p].pc = "confirm" => SameLock(row, user) /\ row.enabled /\ ~user.enabled
        /\ op[p].pc = "disable" => SameLock(row, user) /\ ~row.enabled /\ user.enabled

CopiesCurrent == \A p \in Shells : CopyCurrent(p)

LEMMA IdleCurrent == ASSUME NEW p, op'[p] = Idle PROVE CopyCurrent(p)'
  BY DEF CopyCurrent, Idle, LoginCalls

LEMMA InitCurrent == Init => CopiesCurrent
  BY DEF Init, CopiesCurrent, CopyCurrent, Idle, LoginCalls

LEMMA TickCurrent ==
    ASSUME TypeOK, CopiesCurrent, Tick
    PROVE  CopiesCurrent'
<1> SUFFICES ASSUME NEW p \in Shells PROVE CopyCurrent(p)'
  BY DEF CopiesCurrent
<1>1. CopyCurrent(p)
  BY DEF CopiesCurrent
<1>2. /\ op' = op /\ users' = users /\ challenges' = challenges
      /\ clock \in Nat /\ clock' = clock + 1
  BY DEF Tick, tables, TypeOK
<1>3. op[p].pc \in LoginCalls => op[p].acct \in DOMAIN users
  BY DEF TypeOK, LoginCalls, Ready, Running
<1>4. \A a \in DOMAIN users : users[a].lockedUntil \in Nat
  BY DEF TypeOK, User
<1>5. op[p].pc \in LoginCalls =>
         (~IsLocked(users[op[p].acct], clock) => ~IsLocked(users[op[p].acct], clock + 1))
  BY <1>2, <1>3, <1>4 DEF IsLocked, Unset
<1> QED BY <1>1, <1>2, <1>5 DEF CopyCurrent

\* A call that loads a row has it as it is.
LEMMA LoadCurrent ==
    ASSUME TypeOK, NEW p \in Shells, NEW a, NEW good, NEW code, NEW keep,
           \/ AuthenticateLoad(p, a, good)
           \/ BeginLoad(p, a) \/ CancelLoad(p, a)
           \/ ConfirmLoad(p, a, code, keep) \/ DisableLoad(p, a, code, keep)
    PROVE  CopyCurrent(p)'
<1> clock \in Nat /\ clock >= 1 /\ op \in [Shells -> Call]
  BY DEF TypeOK, Unset
<1> users' = users /\ clock' = clock
  BY DEF AuthenticateLoad, BeginLoad, CancelLoad, ConfirmLoad, DisableLoad, tables
<1> \A b \in DOMAIN users : users[b] \in User
  BY DEF TypeOK
<1>1. CASE AuthenticateLoad(p, a, good)
  <2>1. /\ a \in DOMAIN users /\ ~IsLocked(users[a], clock)
        /\ op'[p].pc = IF LockRanOut(users[a], clock) THEN "clearLock" ELSE "verify"
        /\ op'[p].acct = a /\ op'[p].at = clock
        /\ op'[p].row = ClearExpiredLock(users[a], clock)
    BY <1>1 DEF AuthenticateLoad, Idle
  <2> QED BY <2>1 DEF CopyCurrent, ClearExpiredLock, LoginCalls
<1>2. CASE BeginLoad(p, a)
  <2>1. /\ a \in DOMAIN users /\ ~users[a].enabled
        /\ op'[p].pc = "save" /\ op'[p].acct = a
        /\ op'[p].row = [users[a] EXCEPT !.secret = nextSecret, !.key = KeyOf[p],
                                         !.enabled = FALSE]
    BY <1>2 DEF BeginLoad, Proceed, Idle
  <2>2. users[a].enabled = FALSE
    BY <2>1 DEF User
  <2>3. Seen(op'[p].row) = Seen(users[a])
    BY <2>1, <2>2 DEF Seen, User
  <2> QED BY <2>1, <2>3 DEF CopyCurrent, LoginCalls
<1>3. CASE CancelLoad(p, a)
  <2>1. /\ a \in DOMAIN users
        /\ op'[p].pc = "save" /\ op'[p].acct = a
        /\ op'[p].row = [users[a] EXCEPT !.secret = NoSecret, !.key = NoKey]
    BY <1>3 DEF CancelLoad, Proceed, Idle
  <2>2. Seen(op'[p].row) = Seen(users[a])
    BY <2>1 DEF Seen, User
  <2> QED BY <2>1, <2>2 DEF CopyCurrent, LoginCalls
<1>4. CASE ConfirmLoad(p, a, code, keep)
  <2>1. /\ a \in DOMAIN users /\ ~users[a].enabled
        /\ op'[p].pc = "confirm" /\ op'[p].acct = a
        /\ op'[p].row = [users[a] EXCEPT !.enabled = TRUE]
    BY <1>4 DEF ConfirmLoad, Proceed, Idle, HasPendingTOTPEnrollment
  <2>2. SameLock(op'[p].row, users[a]) /\ op'[p].row.enabled
    BY <2>1 DEF SameLock, User
  <2> QED BY <2>1, <2>2 DEF CopyCurrent, LoginCalls
<1>5. CASE DisableLoad(p, a, code, keep)
  <2>1. /\ a \in DOMAIN users /\ users[a].enabled
        /\ op'[p].pc = "disable" /\ op'[p].acct = a
        /\ op'[p].row = [users[a] EXCEPT !.enabled = FALSE, !.secret = NoSecret,
                                         !.key = NoKey]
    BY <1>5 DEF DisableLoad, Proceed, Idle
  <2>2. SameLock(op'[p].row, users[a]) /\ ~op'[p].row.enabled
    BY <2>1 DEF SameLock, User
  <2> QED BY <2>1, <2>2 DEF CopyCurrent, LoginCalls
<1> QED BY <1>1, <1>2, <1>3, <1>4, <1>5

\* The answer to a parked login is judged on the row as it is.
LEMMA AnswerCurrent ==
    ASSUME TypeOK, CopiesCurrent, NEW p \in Shells, AnswerStep(p)
    PROVE  CopyCurrent(p)'
<1>1. /\ clock \in Nat /\ clock >= 1 /\ op \in [Shells -> Call] /\ op[p] \in Call
      /\ challenges \in [Shells -> SUBSET Challenge]
  BY DEF TypeOK, Unset
<1>2. users' = users /\ clock' = clock
  BY AnswerQuiet
<1>3. CopyCurrent(p)
  BY DEF CopiesCurrent
<1>4. ASSUME NEW c \in challenges[p], FindChallenge(p, c) PROVE CopyCurrent(p)'
  <2>1. op'[p].pc = "loadUser" /\ op'[p].acct = c.acct /\ op'[p].ref = c.id
    BY <1>1, <1>4 DEF FindChallenge, Proceed, Idle
  <2>2. challenges' = challenges
    BY <1>4 DEF FindChallenge
  <2> QED BY <2>1, <2>2 DEF CopyCurrent, LoginCalls
<1>5. CASE LoadUser(p)
  <2>1. /\ op'[p].pc = "checkCode" /\ op'[p].acct = op[p].acct /\ op'[p].ref = op[p].ref
        /\ op'[p].row = users[op[p].acct]
    BY <1>1, <1>5 DEF LoadUser, Proceed, Idle
  <2>2. challenges' = challenges /\ op[p].pc = "loadUser"
    BY <1>5 DEF LoadUser, Running
  <2> QED BY <1>2, <1>3, <2>1, <2>2 DEF CopyCurrent, LoginCalls
<1>6. ASSUME NEW code, CodeWrong(p, code) \/ CodeRight(p, code) PROVE CopyCurrent(p)'
  <2>1. Passes(p) /\ \E pc \in {"codeFailed", "codeLogin"} : Decide(p, pc)
    BY <1>6 DEF CodeWrong, CodeRight
  <2>2. op[p].row = users[op[p].acct] /\ ~IsLocked(op[p].row, clock)
    BY <1>3, <2>1 DEF CopyCurrent, Passes, Running
  <2>3. /\ op'[p].pc \in {"codeFailed", "codeLogin"} /\ op'[p].at = clock
        /\ op'[p].acct = op[p].acct /\ op'[p].row = op[p].row
    BY <1>1, <2>1 DEF Decide, Call
  <2> QED BY <1>1, <1>2, <2>2, <2>3 DEF CopyCurrent
<1>7. CASE Discards(p)
  <2>1. op'[p] = Idle \/ op'[p].pc = "idle"
    BY <1>1, <1>7 DEF Discards, Return, Ready, Running
  <2>2. CASE op'[p].pc = "idle"
    BY <2>2 DEF CopyCurrent, LoginCalls
  <2> QED BY <2>1, <2>2, IdleCurrent
<1> QED BY <1>4, <1>5, <1>6, <1>7, AnswerCases

\* A call that goes on after a write has what it wrote.
LEMMA WriteCurrent ==
    ASSUME TypeOK, CopiesCurrent, NEW p \in Shells, ClearLockSave(p) \/ Rehash(p)
    PROVE  CopyCurrent(p)'
<1>1. op \in [Shells -> Call] /\ op[p] \in Call /\ op[p].row \in User /\ clock \in Nat
  BY DEF TypeOK, Call
<1>2. op[p].acct \in DOMAIN users /\ users[op[p].acct] \in User
  BY DEF TypeOK, ClearLockSave, Rehash, Ready, Running
<1>3. CopyCurrent(p)
  BY DEF CopiesCurrent
<1>4. CASE ClearLockSave(p)
  <2>1. /\ op[p].pc = "clearLock" /\ op'[p] = [op[p] EXCEPT !.pc = "verify"]
        /\ users'[op[p].acct] = op[p].row /\ clock' = clock
    BY <1>1, <1>2, <1>4 DEF ClearLockSave, UpdateUser, Running
  <2>2. op'[p].pc = "verify" /\ op'[p].row = op[p].row /\ op'[p].at = op[p].at
          /\ op'[p].acct = op[p].acct
    BY <1>1, <2>1 DEF Call
  <2>3. ~IsLocked(op[p].row, clock)
    BY <1>1, <1>2, <1>3, <2>1 DEF CopyCurrent, ClearLock, IsLocked, User, Unset
  <2> QED BY <1>3, <2>1, <2>2, <2>3 DEF CopyCurrent, LoginCalls
<1>5. CASE Rehash(p)
  <2> DEFINE row == [op[p].row EXCEPT !.cost = HashCost[p]]
  <2>1. /\ op[p].pc = "verify" /\ op'[p] = [op[p] EXCEPT !.row = row]
        /\ users'[op[p].acct] = row /\ clock' = clock
    BY <1>1, <1>2, <1>5 DEF Rehash, UpdateUser, Running
  <2>2. op'[p].pc = "verify" /\ op'[p].row = row /\ op'[p].at = op[p].at
          /\ op'[p].acct = op[p].acct
    BY <1>1, <2>1 DEF Call
  <2>3. ~IsLocked(row, clock)
    BY <1>1, <1>3, <2>1 DEF CopyCurrent, IsLocked, LoginCalls, User
  <2> QED BY <1>3, <2>1, <2>2, <2>3 DEF CopyCurrent, LoginCalls
<1> QED BY <1>4, <1>5

\* With nobody else at work, every step keeps the copy current.
LEMMA CurrentStep == ASSUME Alone PROVE TypeOK /\ CopiesCurrent /\ [Next]_vars => CopiesCurrent'
<1> SUFFICES ASSUME TypeOK, CopiesCurrent, [Next]_vars PROVE CopiesCurrent'
  OBVIOUS
<1> op \in [Shells -> Call]
  BY DEF TypeOK
<1>1. CASE Tick
  BY <1>1, TickCurrent
<1>2. CASE UNCHANGED vars
  BY <1>2 DEF vars, CopiesCurrent, CopyCurrent
<1>3. ASSUME NEW p \in Shells,
             LoginStep(p) \/ ChallengeStep(p) \/ EnrollmentStep(p) \/ SessionStep(p)
               \/ FailureStep(p)
      PROVE CopiesCurrent'
  <2>1. Shells = {p}
    BY OnlyShell
  <2> SUFFICES CopyCurrent(p)'
    BY <2>1 DEF CopiesCurrent
  <2>2. ASSUME op'[p] = Idle PROVE CopyCurrent(p)'
    BY <2>2, IdleCurrent
  <2>3. ASSUME Ready(p), op' = op PROVE CopyCurrent(p)'
    BY <2>3 DEF Ready, Running, CopyCurrent, LoginCalls
  <2>4. ASSUME Return(p) PROVE CopyCurrent(p)'
    BY <2>2, <2>4 DEF Return
  <2>5. CASE LoginStep(p)
    BY <2>3, <2>4, <2>5, LoadCurrent, WriteCurrent
    DEF LoginStep, Register, PasswordFailed, Park, PasswordLogin
  <2>6. CASE ChallengeStep(p)
    BY <2>4, <2>6, AnswerCurrent DEF ChallengeStep, CodeFailed, CodeLogin
  <2>7. CASE EnrollmentStep(p)
    BY <2>4, <2>7, LoadCurrent
    DEF EnrollmentStep, SaveRow, ConfirmSave, DisableSave, PostureSave
  <2>8. ASSUME NEW i, ResolveLoad(p, i) \/ LogoutLoad(p, i) PROVE CopyCurrent(p)'
    <3>1. op'[p].pc \in {"touch", "revoke"}
      BY <2>8 DEF ResolveLoad, LogoutLoad, Idle
    <3> QED BY <3>1 DEF CopyCurrent, LoginCalls
  <2>9. CASE SessionStep(p)
    BY <2>4, <2>8, <2>9 DEF SessionStep, Touch, LogoutRevoke
  <2>10. CASE FailureStep(p)
    BY <2>2, <2>4, <2>10 DEF FailureStep, DBError, Restart
  <2> QED BY <1>3, <2>5, <2>6, <2>7, <2>9, <2>10
<1> QED BY <1>1, <1>2, <1>3 DEF Next

LEMMA CopiesAreCurrent == ASSUME Alone PROVE Spec => []CopiesCurrent
<1> QED BY InitCurrent, CurrentStep, TypeCorrect, PTL DEF Spec

(***************************************************************************)
(* What the promise sees of a step                                         *)
(***************************************************************************)
LEMMA SeenWritten ==
    ASSUME TypeOK, NEW a \in DOMAIN users, NEW row, UpdateUser(a, row)
    PROVE  AccountsSeen' = [AccountsSeen EXCEPT ![a] = Seen(row)]
  BY DEF TypeOK, UpdateUser, AccountsSeen

LEMMA SeenRow ==
    ASSUME TypeOK, NEW a \in DOMAIN users
    PROVE  /\ a \in DOMAIN AccountsSeen /\ a \in Accounts
           /\ AccountsSeen[a] = Seen(users[a])
           /\ users[a] \in User
  BY DEF TypeOK, AccountsSeen

\* A lock is written over a row and over what is seen of it alike.
LEMMA SeenLock ==
    ASSUME NEW user \in User, NEW until
    PROVE  Seen([user EXCEPT !.failed = 0, !.lockedUntil = until])
             = Promise!CountFrom0(Seen(user), until)
<1> DEFINE row == [user EXCEPT !.failed = 0, !.lockedUntil = until]
<1>1. row.failed = 0 /\ row.lockedUntil = until /\ row.enabled = user.enabled
  BY DEF User
<1> HIDE DEF row
<1>2. Seen(row) = [failed |-> 0, lockedUntil |-> until, enabled |-> user.enabled]
  BY <1>1 DEF Seen
<1>3. Seen(user).enabled = user.enabled
  BY DEF Seen
<1> QED BY <1>2, <1>3 DEF Promise!CountFrom0, row

LEMMA NotLocked ==
    ASSUME TypeOK, NEW a \in DOMAIN users, ~IsLocked(users[a], clock)
    PROVE  ~Promise!Locked(a)
<1>1. clock \in Nat /\ users[a].lockedUntil \in Nat
  BY SeenRow DEF TypeOK, User
<1>2. AccountsSeen[a].lockedUntil = users[a].lockedUntil
  <2>1. AccountsSeen[a] = Seen(users[a])
    BY SeenRow
  <2> QED BY <2>1 DEF Seen
<1> QED BY <1>1, <1>2 DEF IsLocked, Unset, Promise!Locked

\* A call that runs works on a registered account and on its row as it is.
LEMMA RunningCall ==
    ASSUME TypeOK, CopiesCurrent, NEW p \in Shells, ~Ready(p)
    PROVE  /\ op[p].acct \in DOMAIN users /\ op[p].row \in User
           /\ op[p].at \in Nat /\ CopyCurrent(p)
  BY DEF TypeOK, CopiesCurrent, Call

\* No Touch is pending before or after the step: sessions are in use when active.
Untouched(p) == op[p].pc # "touch" /\ op'[p].pc # "touch"

LEMMA InUseActive ==
    ASSUME Alone, NEW p \in Shells, Untouched(p)
    PROVE  /\ \A i : InUse(i) <=> IsActive(sessions[i], clock)
           /\ \A i : InUse(i)' <=> IsActive(sessions'[i], clock')
<1>1. Shells = {p}
  BY OnlyShell
<1> QED BY <1>1 DEF InUse, Untouched, Running

LEMMA LiveSame ==
    ASSUME Alone, NEW p \in Shells, Untouched(p), UNCHANGED <<sessions, clock>>
    PROVE  SessionsInUse' = SessionsInUse
  BY InUseActive DEF SessionsInUse, SessionSeen

LEMMA LiveShrinks ==
    ASSUME DOMAIN sessions' \subseteq DOMAIN sessions,
           \A i \in DOMAIN sessions' :
              sessions'[i].owner = sessions[i].owner /\ (InUse(i)' => InUse(i))
    PROVE  SessionsInUse' \subseteq SessionsInUse
  BY DEF SessionsInUse, SessionSeen

\* A revocation ends the sessions of the account but the one it spares.
LEMMA LiveRevoked ==
    ASSUME TypeOK, Alone, NEW p \in Shells, Untouched(p), UNCHANGED clock,
           NEW a, NEW keep, RevokeMatching(a, keep)
    PROVE  SessionsInUse' = {s \in SessionsInUse : s.owner = a => keep # 0 /\ s.id = keep}
<1>1. /\ DOMAIN sessions' = DOMAIN sessions
      /\ \A i \in DOMAIN sessions :
            sessions'[i] = IF sessions[i].owner = a /\ (keep = 0 \/ i # keep)
                           THEN [sessions[i] EXCEPT !.revoked = TRUE] ELSE sessions[i]
  BY DEF RevokeMatching
<1>2. \A i \in DOMAIN sessions : sessions[i] \in Session(DOMAIN users)
  BY DEF TypeOK
<1>3. \A i \in DOMAIN sessions :
         /\ sessions'[i].owner = sessions[i].owner
         /\ InUse(i)' <=> InUse(i) /\ (sessions[i].owner = a => keep # 0 /\ i = keep)
  BY <1>1, <1>2, InUseActive DEF Session, IsActive, ExpiresAt, Earlier
<1> QED BY <1>1, <1>3 DEF SessionsInUse, SessionSeen

\* A login adds its session, unless it was too slow.
LEMMA LiveIssued ==
    ASSUME TypeOK, Alone, NEW p \in Shells, Untouched(p), UNCHANGED clock,
           NEW a, NEW t, sessions' = Insert(sessions, nextSid, NewSession(a, t))
    PROVE  SessionsInUse' \in {SessionsInUse, SessionsInUse \cup {[id |-> nextSid, owner |-> a]}}
<1>1. /\ nextSid \notin DOMAIN sessions
      /\ DOMAIN sessions' = DOMAIN sessions \cup {nextSid}
      /\ \A i \in DOMAIN sessions : sessions'[i] = sessions[i]
      /\ sessions'[nextSid].owner = a
  BY DEF TypeOK, Insert, NewSession
<1>2. \A i \in DOMAIN sessions : InUse(i)' <=> InUse(i)
  BY <1>1, InUseActive
<1>3. SessionsInUse \subseteq SessionsInUse'
  BY <1>1, <1>2 DEF SessionsInUse, SessionSeen
<1>4. \A s \in SessionsInUse' \ SessionsInUse : s = [id |-> nextSid, owner |-> a]
  BY <1>1, <1>2 DEF SessionsInUse, SessionSeen
<1> QED BY <1>3, <1>4

\* What is proved when the call returns or moves on without having proved more.
LEMMA VouchedShrinks ==
    ASSUME Alone, NEW p \in Shells, \A a \in Accounts : Vouched(p, a)' => Vouched(p, a)
    PROVE  AccountsVouched' \subseteq AccountsVouched
<1>1. Shells = {p}
  BY OnlyShell
<1> QED BY <1>1 DEF AccountsVouched

LEMMA CodedShrinks ==
    ASSUME Alone, NEW p \in Shells, \A a \in Accounts : Coded(p, a)' => Coded(p, a)
    PROVE  AccountsCoded' \subseteq AccountsCoded
<1>1. Shells = {p}
  BY OnlyShell
<1> QED BY <1>1 DEF AccountsCoded

Fewer(p) == \A c \in challenges'[p] : \E d \in challenges[p] : c.acct = d.acct

LEMMA ReturnForgets ==
    ASSUME TypeOK, Alone, NEW p \in Shells, op'[p] = Idle, Fewer(p)
    PROVE  Promise!Forget /\ AccountsCoded' = {}
<1>1. \A a \in Accounts : Vouched(p, a)' => Vouched(p, a)
  BY DEF Vouched, Fewer, Idle, Running
<1>2. Shells = {p}
  BY OnlyShell
<1>3. AccountsCoded' = {}
  BY <1>2 DEF AccountsCoded, Coded, Idle
<1> QED BY <1>1, <1>3, VouchedShrinks DEF Promise!Forget

LEMMA LapseStep ==
    ASSUME UNCHANGED <<users, clock, nextSid>>, SessionsInUse' \subseteq SessionsInUse,
           AccountsVouched' \subseteq AccountsVouched, AccountsCoded' \subseteq AccountsCoded
    PROVE  Promise!Lapse
<1>1. AccountsSeen' = AccountsSeen
  BY DEF AccountsSeen
<1> QED BY <1>1 DEF Promise!Lapse, Promise!Forget, Promise!Keep

(***************************************************************************)
(* Every step of the shell is a step of the promise                        *)
(***************************************************************************)
LEMMA FailKept ==
    ASSUME TypeOK, CopiesCurrent, Alone, NEW p \in Shells, NEW acked,
           PasswordFailed(p) \/ CodeFailed(p, acked)
    PROVE  Promise!Fail(op[p].acct)
<1> DEFINE a == op[p].acct
<1>1. PICK t \in Elapsed(p) : RecordFailure(a, op[p].row, t)
  BY DEF PasswordFailed, CodeFailed
<1>2. /\ op[p].pc \in {"verify", "codeFailed"} /\ ~Ready(p)
      /\ op'[p] = Idle /\ UNCHANGED clock
  BY DEF PasswordFailed, CodeFailed, Return, Running, Ready, TypeOK
<1>3. /\ a \in DOMAIN users /\ op[p].row = users[a] /\ op[p].row \in User
      /\ ~IsLocked(users[a], clock)
      /\ op[p].at \in Nat /\ op[p].at >= 1
  BY <1>2, RunningCall DEF CopyCurrent, LoginCalls
<1>4. t \in 1 .. clock
  BY <1>3 DEF Elapsed, TypeOK
<1>5. Fewer(p)
  BY DEF PasswordFailed, CodeFailed, DeleteChallenge, Fewer, TypeOK
<1>6. Promise!Forget
  BY <1>2, <1>5, ReturnForgets
<1>7. /\ a \in DOMAIN AccountsSeen /\ AccountsSeen[a] = Seen(users[a])
      /\ ~Promise!Locked(a)
  BY <1>3, SeenRow, NotLocked
<1>8. AccountsSeen' = [AccountsSeen EXCEPT ![a] = Seen(RegisterFailure(users[a], t))]
  BY <1>1, <1>3, SeenWritten DEF RecordFailure
<1>9. Untouched(p)
  BY <1>2 DEF Untouched, Idle
<1>10. nextSid' = nextSid
  BY <1>1 DEF RecordFailure
<1>11. CASE TripsLock(users[a])
  <2>1. AccountsSeen[a].failed + 1 >= MaxAttempts
    BY <1>7, <1>11 DEF TripsLock, Seen
  <2>2. Seen(RegisterFailure(users[a], t))
          = Promise!CountFrom0(AccountsSeen[a], t + LockDuration)
    BY <1>3, <1>7, <1>11, SeenLock DEF RegisterFailure
  <2>3. SessionsInUse' = SessionsInUse \ Promise!Of(a)
    <3>1. RevokeMatching(a, 0)
      BY <1>1, <1>3, <1>11 DEF RecordFailure
    <3> QED BY <3>1, <1>2, <1>9, LiveRevoked DEF Promise!Of
  <2>4. Promise!Set(a, Promise!CountFrom0(AccountsSeen[a], t + LockDuration))
    BY <1>8, <2>2 DEF Promise!Set
  <2> QED BY <1>2, <1>4, <1>6, <1>7, <1>10, <2>1, <2>3, <2>4 DEF Promise!Fail, Promise!Keep
<1>12. CASE ~TripsLock(users[a])
  <2>1. ~(AccountsSeen[a].failed + 1 >= MaxAttempts)
    BY <1>7, <1>12 DEF TripsLock, Seen
  <2>2. Seen(RegisterFailure(users[a], t)) = [AccountsSeen[a] EXCEPT !.failed = @ + 1]
    BY <1>3, <1>7, <1>12 DEF RegisterFailure, Seen, User
  <2>3. SessionsInUse' = SessionsInUse
    <3>1. sessions' = sessions
      BY <1>1, <1>3, <1>12 DEF RecordFailure
    <3> QED BY <3>1, <1>2, <1>9, LiveSame
  <2>4. Promise!Set(a, [AccountsSeen[a] EXCEPT !.failed = @ + 1])
    BY <1>8, <2>2 DEF Promise!Set
  <2> QED BY <1>2, <1>6, <1>7, <1>10, <2>1, <2>3, <2>4 DEF Promise!Fail, Promise!Keep
<1> QED BY <1>11, <1>12

LEMMA LoginKept ==
    ASSUME TypeOK, CopiesCurrent, Alone, NEW p \in Shells, PasswordLogin(p) \/ CodeLogin(p)
    PROVE  Promise!Login(op[p].acct)
<1> DEFINE a == op[p].acct
<1>1. PICK t \in Elapsed(p) : CompleteLogin(a, op[p].row, t)
  BY DEF PasswordLogin, CodeLogin
<1>2. /\ op[p].pc \in {"verify", "codeLogin"} /\ ~Ready(p)
      /\ op'[p] = Idle /\ UNCHANGED clock
  BY DEF PasswordLogin, PasswordAccepted, CodeLogin, Return, Running, Ready, TypeOK
<1>3. /\ a \in DOMAIN users /\ op[p].row = users[a] /\ op[p].row \in User
      /\ ~IsLocked(users[a], clock)
  BY <1>2, RunningCall DEF CopyCurrent, LoginCalls
<1>4. Fewer(p)
  BY DEF PasswordLogin, CodeLogin, Fewer
<1>5. Promise!Forget /\ a \notin AccountsCoded'
  BY <1>2, <1>4, ReturnForgets
<1>6. /\ a \in DOMAIN AccountsSeen /\ a \in Accounts /\ AccountsSeen[a] = Seen(users[a])
      /\ ~Promise!Locked(a)
  BY <1>3, SeenRow, NotLocked
<1>7. a \in AccountsVouched
  <2>1. Vouched(p, a)
    BY DEF PasswordLogin, PasswordAccepted, CodeLogin, Vouched, Running
  <2> QED BY <1>6, <2>1 DEF AccountsVouched
<1>8. AccountsSeen[a].enabled => a \in AccountsCoded
  <2>1. CASE PasswordLogin(p)
    BY <2>1, <1>3, <1>6 DEF PasswordLogin, Seen
  <2>2. CASE CodeLogin(p)
    BY <2>2, <1>6 DEF CodeLogin, Running, AccountsCoded, Coded
  <2> QED BY <2>1, <2>2
<1>9. Promise!Set(a, Promise!CountFrom0(AccountsSeen[a], 0))
  <2>1. AccountsSeen' = [AccountsSeen EXCEPT ![a] = Seen(ClearLock(users[a]))]
    BY <1>1, <1>3, SeenWritten DEF CompleteLogin
  <2>2. Seen(ClearLock(users[a])) = Promise!CountFrom0(AccountsSeen[a], 0)
    BY <1>3, <1>6, SeenLock DEF ClearLock, Unset
  <2> QED BY <2>1, <2>2 DEF Promise!Set
<1>10. Untouched(p)
  BY <1>2 DEF Untouched, Idle
<1>11. nextSid' - 1 = (nextSid - 1) + 1 /\ nextSid' - 1 = nextSid
  BY <1>1 DEF CompleteLogin, TypeOK
<1>12. SessionsInUse' \in {SessionsInUse, SessionsInUse \cup {[id |-> nextSid, owner |-> a]}}
  BY <1>1, <1>2, <1>10, LiveIssued DEF CompleteLogin
<1>13. SessionsInUse' \in {SessionsInUse,
                           SessionsInUse \cup {[id |-> nextSid' - 1, owner |-> a]}}
  BY <1>11, <1>12
<1> HIDE DEF a
<1> QED BY <1>2, <1>5, <1>6, <1>7, <1>8, <1>9, <1>11, <1>13 DEF Promise!Login, a

LEMMA PostureKept ==
    ASSUME TypeOK, CopiesCurrent, Alone, NEW p \in Shells, ConfirmSave(p) \/ DisableSave(p)
    PROVE  Promise!ChangePosture(op[p].acct)
<1> DEFINE a == op[p].acct
           keep == op[p].ref
<1>1. /\ op[p].pc \in {"confirm", "disable"} /\ ~Ready(p)
      /\ op'[p] = Idle /\ UNCHANGED <<clock, nextSid, challenges>>
      /\ UpdateUser(a, op[p].row) /\ RevokeMatching(a, keep)
  BY DEF ConfirmSave, DisableSave, PostureSave, Return, Running, Ready, TypeOK
<1>2. /\ a \in DOMAIN users /\ op[p].row \in User /\ users[a] \in User
      /\ SameLock(op[p].row, users[a]) /\ op[p].row.enabled = ~users[a].enabled
  <2>1. CopyCurrent(p) /\ a \in DOMAIN users /\ op[p].row \in User
    BY <1>1, RunningCall
  <2>2. users[a] \in User
    BY <2>1, SeenRow
  <2>3. op[p].row.enabled \in BOOLEAN /\ users[a].enabled \in BOOLEAN
    BY <2>1, <2>2 DEF User
  <2> QED BY <1>1, <2>1, <2>2, <2>3 DEF CopyCurrent
<1>3. Promise!Forget /\ a \notin AccountsCoded'
  BY <1>1, ReturnForgets DEF Fewer
<1>4. a \in DOMAIN AccountsSeen /\ a \in Accounts /\ AccountsSeen[a] = Seen(users[a])
  BY <1>2, SeenRow
<1>5. a \in AccountsCoded
  BY <1>1, <1>4 DEF AccountsCoded, Coded
<1>6. Promise!Set(a, [AccountsSeen[a] EXCEPT !.enabled = ~@])
  <2>1. AccountsSeen' = [AccountsSeen EXCEPT ![a] = Seen(op[p].row)]
    BY <1>1, <1>2, SeenWritten
  <2>2. Seen(op[p].row) = [AccountsSeen[a] EXCEPT !.enabled = ~@]
    BY <1>2, <1>4 DEF Seen, SameLock
  <2> QED BY <2>1, <2>2 DEF Promise!Set
<1>7. Untouched(p)
  BY <1>1 DEF Untouched, Idle
<1>8. SessionsInUse' = {s \in SessionsInUse : s.owner = a => keep # 0 /\ s.id = keep}
  BY <1>1, <1>7, LiveRevoked
<1>9. \E kept \in {{}} \cup {{s} : s \in Promise!Of(a)} :
         SessionsInUse' = (SessionsInUse \ Promise!Of(a)) \cup kept
  <2>1. \A s, r \in SessionsInUse : s.id = r.id => s = r
    BY DEF SessionsInUse, SessionSeen
  <2>2. CASE \E s \in SessionsInUse : s.owner = a /\ keep # 0 /\ s.id = keep
    <3>1. PICK s \in SessionsInUse : s.owner = a /\ keep # 0 /\ s.id = keep
      BY <2>2
    <3>2. s \in Promise!Of(a)
      BY <3>1 DEF Promise!Of
    <3>3. SessionsInUse' = (SessionsInUse \ Promise!Of(a)) \cup {s}
      BY <1>8, <2>1, <3>1 DEF Promise!Of
    <3> QED BY <3>2, <3>3
  <2>3. CASE ~\E s \in SessionsInUse : s.owner = a /\ keep # 0 /\ s.id = keep
    <3>1. SessionsInUse' = (SessionsInUse \ Promise!Of(a)) \cup {}
      BY <1>8, <2>3 DEF Promise!Of
    <3> QED BY <3>1
  <2> QED BY <2>2, <2>3
<1> QED BY <1>1, <1>3, <1>5, <1>6, <1>9 DEF Promise!ChangePosture, Promise!Keep

\* Steps that write an account row without anybody noticing, or nothing at all.
LEMMA SeenSame ==
    ASSUME TypeOK, NEW a \in DOMAIN users, NEW row, UpdateUser(a, row),
           Seen(row) = Seen(users[a])
    PROVE  AccountsSeen' = AccountsSeen
  BY SeenWritten, SeenRow DEF AccountsSeen

LEMMA RegisterKept ==
    ASSUME TypeOK, Alone, NEW p \in Shells, NEW a \in Accounts, Register(p, a)
    PROVE  Promise!Register(a)
<1>1. /\ a \notin DOMAIN AccountsSeen
      /\ users' = Insert(users, a, NewUser(HashCost[p]))
      /\ DOMAIN AccountsSeen = DOMAIN users
  BY DEF Register, AccountsSeen
<1>2. Seen(NewUser(HashCost[p])) = Promise!Fresh
  BY DEF Seen, NewUser, Promise!Fresh, Unset
<1>3. AccountsSeen' = [b \in DOMAIN AccountsSeen \cup {a} |->
                         IF b = a THEN Promise!Fresh ELSE AccountsSeen[b]]
  BY <1>1, <1>2 DEF AccountsSeen, Insert
<1>4. SessionsInUse' = SessionsInUse
  <2>1. op'[p].pc = "idle" /\ op[p].pc = "idle"
    BY DEF Register, Ready, Running
  <2> QED BY <2>1, LiveSame DEF Untouched, Register
<1>5. AccountsVouched' = AccountsVouched /\ AccountsCoded' = AccountsCoded
  BY DEF Register, AccountsVouched, AccountsCoded, Vouched, Coded, Running
<1> QED BY <1>1, <1>3, <1>4, <1>5 DEF Promise!Register, Promise!Keep, Register

LEMMA ClearLockKept ==
    ASSUME TypeOK, CopiesCurrent, Alone, NEW p \in Shells, ClearLockSave(p)
    PROVE  Promise!Unlock(op[p].acct)
<1> DEFINE a == op[p].acct
<1>1. /\ op[p].pc = "clearLock" /\ ~Ready(p) /\ UpdateUser(a, op[p].row)
      /\ op' = [op EXCEPT ![p] = [op[p] EXCEPT !.pc = "verify"]]
      /\ UNCHANGED <<clock, sessions, nextSid, challenges>>
  BY DEF ClearLockSave, Running, Ready
<1>2. /\ a \in DOMAIN users /\ op[p].row = ClearLock(users[a]) /\ users[a] \in User
      /\ ~IsLocked(users[a], clock)
  BY <1>1, RunningCall, SeenRow DEF CopyCurrent, LoginCalls
<1>3. a \in DOMAIN AccountsSeen /\ ~Promise!Locked(a) /\ AccountsSeen[a] = Seen(users[a])
  BY <1>2, SeenRow, NotLocked
<1>4. Promise!Set(a, Promise!CountFrom0(AccountsSeen[a], 0))
  <2>1. AccountsSeen' = [AccountsSeen EXCEPT ![a] = Seen(ClearLock(users[a]))]
    BY <1>1, <1>2, SeenWritten
  <2>2. Seen(ClearLock(users[a])) = Promise!CountFrom0(AccountsSeen[a], 0)
    BY <1>2, <1>3, SeenLock DEF ClearLock, Unset
  <2> QED BY <2>1, <2>2 DEF Promise!Set
<1>5. /\ op'[p].pc = "verify" /\ op'[p].acct = a /\ op'[p].good = op[p].good
      /\ Shells = {p}
  BY <1>1, OnlyShell DEF TypeOK, Call
<1>6. SessionsInUse' = SessionsInUse
  BY <1>1, <1>5, LiveSame DEF Untouched
<1>7. AccountsVouched' = AccountsVouched /\ AccountsCoded' = AccountsCoded
  BY <1>1, <1>5 DEF AccountsVouched, AccountsCoded, Vouched, Coded, Running
<1> QED BY <1>1, <1>3, <1>4, <1>6, <1>7 DEF Promise!Unlock, Promise!Keep

LEMMA RehashKept ==
    ASSUME TypeOK, CopiesCurrent, Alone, NEW p \in Shells, Rehash(p)
    PROVE  Promise!Lapse
<1> DEFINE a == op[p].acct
           row == [op[p].row EXCEPT !.cost = HashCost[p]]
<1>1. /\ op[p].pc = "verify" /\ ~Ready(p) /\ UpdateUser(a, row)
      /\ op' = [op EXCEPT ![p] = [op[p] EXCEPT !.row = row]]
      /\ UNCHANGED <<clock, sessions, nextSid, challenges>>
  BY DEF Rehash, Running, Ready
<1>2. a \in DOMAIN users /\ op[p].row = users[a] /\ users[a] \in User
  BY <1>1, RunningCall, SeenRow DEF CopyCurrent
<1>3. AccountsSeen' = AccountsSeen
  <2>1. Seen(row) = Seen(users[a])
    BY <1>2 DEF Seen, User
  <2> QED BY <1>1, <1>2, <2>1, SeenSame
<1>4. /\ op'[p].pc = "verify" /\ op'[p].acct = a /\ op'[p].good = op[p].good
      /\ Shells = {p}
  BY <1>1, OnlyShell DEF TypeOK, Call
<1>5. SessionsInUse' = SessionsInUse
  BY <1>1, <1>4, LiveSame DEF Untouched
<1>6. AccountsVouched' = AccountsVouched /\ AccountsCoded' = AccountsCoded
  BY <1>1, <1>4 DEF AccountsVouched, AccountsCoded, Vouched, Coded, Running
<1> QED BY <1>1, <1>3, <1>5, <1>6 DEF Promise!Lapse, Promise!Forget, Promise!Keep

LEMMA SaveKept ==
    ASSUME TypeOK, CopiesCurrent, Alone, NEW p \in Shells, SaveRow(p)
    PROVE  Promise!Lapse
<1> DEFINE a == op[p].acct
<1>1. /\ op[p].pc = "save" /\ ~Ready(p) /\ UpdateUser(a, op[p].row) /\ op'[p] = Idle
      /\ UNCHANGED <<clock, sessions, nextSid, challenges>>
  BY DEF SaveRow, Return, Running, Ready, TypeOK
<1>2. a \in DOMAIN users /\ Seen(op[p].row) = Seen(users[a])
  BY <1>1, RunningCall DEF CopyCurrent
<1>3. AccountsSeen' = AccountsSeen
  BY <1>1, <1>2, SeenSame
<1>4. SessionsInUse' = SessionsInUse
  BY <1>1, LiveSame DEF Untouched, Idle
<1>5. Promise!Forget
  BY <1>1, ReturnForgets DEF Fewer
<1> QED BY <1>1, <1>3, <1>4, <1>5 DEF Promise!Lapse, Promise!Keep

\* A step from or to a place where nothing is running, on unchanged tables.
Quiet(p) == Untouched(p) /\ UNCHANGED <<tables, clock>>

LEMMA QuietSame ==
    ASSUME Alone, NEW p \in Shells, Quiet(p)
    PROVE  /\ SessionsInUse' = SessionsInUse /\ AccountsSeen' = AccountsSeen
           /\ UNCHANGED <<users, sessions, clock, nextSid>>
<1>1. UNCHANGED <<users, sessions, clock, nextSid>>
  BY DEF Quiet, tables
<1> QED BY <1>1, LiveSame DEF Quiet, AccountsSeen

LEMMA ReturnKept ==
    ASSUME TypeOK, Alone, NEW p \in Shells, op'[p] = Idle, Fewer(p), Quiet(p)
    PROVE  Promise!Lapse
  BY QuietSame, ReturnForgets DEF Promise!Lapse, Promise!Keep

LEMMA AuthenticateKept ==
    ASSUME TypeOK, Alone, NEW p \in Shells, NEW a \in Accounts, NEW good \in BOOLEAN,
           AuthenticateLoad(p, a, good)
    PROVE  Promise!Lapse \/ Promise!ProvePassword(a)
<1>1. /\ a \in DOMAIN users /\ ~IsLocked(users[a], clock) /\ op[p].pc = "idle"
      /\ op'[p].pc \in {"clearLock", "verify"} /\ op'[p].acct = a /\ op'[p].good = good
      /\ UNCHANGED <<tables, clock, challenges>>
      /\ Shells = {p}
  BY OnlyShell DEF AuthenticateLoad, Idle, TypeOK, Ready, Running
<1>2. Quiet(p)
  BY <1>1 DEF Quiet, Untouched
<1>3. a \in DOMAIN AccountsSeen /\ ~Promise!Locked(a)
  BY <1>1, SeenRow, NotLocked
<1>4. AccountsCoded' = AccountsCoded
  BY <1>1 DEF AccountsCoded, Coded
<1>5. CASE good
  <2>1. \A b \in Accounts : Vouched(p, b)' <=> Vouched(p, b) \/ b = a
    BY <1>1, <1>5 DEF Vouched, Running
  <2>2. AccountsVouched' = AccountsVouched \cup {a}
    BY <1>1, <2>1 DEF AccountsVouched
  <2> QED BY <1>2, <1>3, <1>4, <2>2, QuietSame DEF Promise!ProvePassword, Promise!Keep
<1>6. CASE ~good
  <2>1. \A b \in Accounts : Vouched(p, b)' => Vouched(p, b)
    BY <1>1, <1>6 DEF Vouched, Running
  <2>2. AccountsVouched' \subseteq AccountsVouched
    BY <2>1, VouchedShrinks
  <2> QED BY <1>2, <1>4, <2>2, QuietSame, LapseStep
<1> QED BY <1>5, <1>6

\* A parked login vouches for its account as the call did.
LEMMA ParkKept ==
    ASSUME TypeOK, Alone, NEW p \in Shells, NEW id, Park(p, id)
    PROVE  Promise!Lapse
<1>1. /\ op[p].pc = "verify" /\ op[p].good /\ op'[p] = Idle
      /\ UNCHANGED <<tables, clock>>
      /\ \A c \in challenges'[p] : c \in challenges[p] \/ c.acct = op[p].acct
  BY DEF Park, PasswordAccepted, Running, Return, SaveChallenge, TypeOK
<1>2. Quiet(p)
  BY <1>1 DEF Quiet, Untouched, Idle
<1>3. \A a \in Accounts : /\ Vouched(p, a)' => Vouched(p, a)
                          /\ Coded(p, a)' => Coded(p, a)
  BY <1>1 DEF Vouched, Coded, Running, Idle
<1> QED BY <1>2, <1>3, QuietSame, VouchedShrinks, CodedShrinks, LapseStep

\* Loads that prove nothing.
LEMMA LoadKept ==
    ASSUME TypeOK, Alone, NEW p \in Shells, NEW code, NEW a,
           \/ \E c \in challenges[p] : FindChallenge(p, c)
           \/ LoadUser(p) \/ CodeWrong(p, code)
           \/ BeginLoad(p, a) \/ CancelLoad(p, a)
    PROVE  Promise!Lapse
<1>1. /\ op[p].pc \in {"idle", "loadUser", "checkCode"}
      /\ op'[p].pc \in {"loadUser", "checkCode", "codeFailed", "save"}
      /\ UNCHANGED <<tables, clock>>
  <2>1. CASE (\E c \in challenges[p] : FindChallenge(p, c)) \/ LoadUser(p)
    BY <2>1 DEF FindChallenge, LoadUser, Proceed, Idle, TypeOK, Ready, Running
  <2>4. CASE CodeWrong(p, code)
    BY <2>4 DEF CodeWrong, Passes, Decide, TypeOK, Call, Running
  <2>2. CASE BeginLoad(p, a)
    BY <2>2 DEF BeginLoad, Proceed, Idle, TypeOK, Ready, Running
  <2>3. CASE CancelLoad(p, a)
    BY <2>3 DEF CancelLoad, Proceed, Idle, TypeOK, Ready, Running
  <2> QED BY <2>1, <2>2, <2>3, <2>4
<1>2. Fewer(p)
  BY DEF FindChallenge, LoadUser, CodeWrong, BeginLoad, CancelLoad, SaveChallenge, Fewer, TypeOK
<1>3. Quiet(p)
  BY <1>1 DEF Quiet, Untouched
<1>4. \A b \in Accounts : /\ Vouched(p, b)' => Vouched(p, b)
                          /\ Coded(p, b)' => Coded(p, b)
  BY <1>1, <1>2 DEF Vouched, Coded, Running, Fewer
<1> QED BY <1>3, <1>4, QuietSame, VouchedShrinks, CodedShrinks, LapseStep

\* The code was right, and the login it was for was parked.
LEMMA CodeKept ==
    ASSUME TypeOK, CopiesCurrent, Alone, NEW p \in Shells, NEW code, CodeRight(p, code)
    PROVE  Promise!ProveCode(op[p].acct)
<1> DEFINE me == op[p].acct
<1>1. /\ op[p].pc = "checkCode" /\ op'[p].pc = "codeLogin" /\ op'[p].acct = me
      /\ UNCHANGED <<tables, clock>>
      /\ challenges'[p] \subseteq challenges[p]
  BY DEF CodeRight, Passes, Decide, DeleteChallenge, TypeOK, Call, Running
<1>2. Quiet(p)
  BY <1>1 DEF Quiet, Untouched
<1>3. /\ \E c \in challenges[p] : c.acct = me
      /\ me \in DOMAIN users
  BY <1>1, RunningCall DEF CopyCurrent, Ready, Running
<1>4. me \in DOMAIN AccountsSeen /\ me \in Accounts /\ Shells = {p}
  BY <1>3, SeenRow, OnlyShell
<1>5. AccountsCoded' = AccountsCoded \cup {me}
  BY <1>1, <1>4 DEF AccountsCoded, Coded
<1>6. \A b \in Accounts : Vouched(p, b)' => Vouched(p, b)
  BY <1>1, <1>3 DEF Vouched, Running
<1> QED BY <1>2, <1>4, <1>5, <1>6, QuietSame, VouchedShrinks DEF Promise!ProveCode, Promise!Keep

\* Loads of an enrollment that found the code right.
LEMMA PostureLoadKept ==
    ASSUME TypeOK, Alone, NEW p \in Shells, NEW a \in Accounts, NEW code, NEW keep,
           ConfirmLoad(p, a, code, keep) \/ DisableLoad(p, a, code, keep)
    PROVE  Promise!ProveCode(a)
<1>1. /\ op[p].pc = "idle" /\ op'[p].pc \in {"confirm", "disable"} /\ op'[p].acct = a
      /\ UNCHANGED <<tables, clock, challenges>>
      /\ a \in DOMAIN users
      /\ Shells = {p}
  <2>1. CASE ConfirmLoad(p, a, code, keep)
    BY <2>1, OnlyShell DEF ConfirmLoad, Proceed, Idle, TypeOK, Ready, Running
  <2>2. CASE DisableLoad(p, a, code, keep)
    BY <2>2, OnlyShell DEF DisableLoad, Proceed, Idle, TypeOK, Ready, Running
  <2> QED BY <2>1, <2>2
<1>2. Quiet(p)
  BY <1>1 DEF Quiet, Untouched
<1>3. a \in DOMAIN AccountsSeen
  BY <1>1, SeenRow
<1>4. AccountsCoded' = AccountsCoded \cup {a}
  BY <1>1 DEF AccountsCoded, Coded
<1>5. \A b \in Accounts : Vouched(p, b)' => Vouched(p, b)
  BY <1>1 DEF Vouched, Running
<1> QED BY <1>2, <1>3, <1>4, <1>5, QuietSame, VouchedShrinks DEF Promise!ProveCode, Promise!Keep

\* A call that returns, leaving only sessions that were in use to be active.
LEMMA EndKept ==
    ASSUME TypeOK, Alone, NEW p \in Shells, op'[p] = Idle, Fewer(p),
           UNCHANGED <<users, clock, nextSid>>,
           DOMAIN sessions' \subseteq DOMAIN sessions,
           \A i \in DOMAIN sessions' :
              /\ sessions'[i].owner = sessions[i].owner
              /\ IsActive(sessions'[i], clock) => InUse(i)
    PROVE  Promise!Lapse
<1>1. \A i : InUse(i)' <=> IsActive(sessions'[i], clock')
  <2>1. Shells = {p}
    BY OnlyShell
  <2> QED BY <2>1 DEF InUse, Running, Idle
<1>2. SessionsInUse' \subseteq SessionsInUse
  BY <1>1, LiveShrinks
<1> QED BY <1>2, ReturnForgets, LapseStep DEF Promise!Forget

LEMMA ReleaseKept ==
    ASSUME TypeOK, Alone, NEW p \in Shells, NEW gone \in SUBSET PurgeableIds,
           DBError(p) \/ Restart(p, gone)
    PROVE  Promise!Lapse
<1>1. /\ op'[p] = Idle /\ UNCHANGED <<users, clock, nextSid>>
      /\ DOMAIN sessions' \subseteq DOMAIN sessions
      /\ \A i \in DOMAIN sessions' : sessions'[i] = sessions[i]
  BY DEF DBError, Restart, Return, tables, DeleteExpired, TypeOK
<1>2. Fewer(p)
  BY DEF DBError, Restart, Fewer, TypeOK
<1> QED BY <1>1, <1>2, EndKept DEF InUse

LEMMA RevokeKept ==
    ASSUME TypeOK, Alone, NEW p \in Shells, LogoutRevoke(p)
    PROVE  Promise!Lapse
<1>1. /\ op'[p] = Idle /\ UNCHANGED <<users, clock, nextSid, challenges>>
      /\ DOMAIN sessions' = DOMAIN sessions
      /\ \A i \in DOMAIN sessions :
            sessions'[i] = IF i = op[p].ref THEN [sessions[i] EXCEPT !.revoked = TRUE]
                                            ELSE sessions[i]
  BY DEF LogoutRevoke, Return, RevokeSession, TypeOK
<1>2. \A i \in DOMAIN sessions : sessions[i] \in Session(DOMAIN users)
  BY DEF TypeOK
<1>3. \A i \in DOMAIN sessions : /\ sessions'[i].owner = sessions[i].owner
                                 /\ IsActive(sessions'[i], clock) => InUse(i)
  BY <1>1, <1>2 DEF Session, IsActive, ExpiresAt, InUse
<1> QED BY <1>1, <1>3, EndKept DEF Fewer

\* A Touch that comes too late leaves a session that is over.
LEMMA TouchKept ==
    ASSUME TypeOK, Alone, NEW p \in Shells, Touch(p)
    PROVE  Promise!Lapse
<1>1. /\ op'[p] = Idle /\ UNCHANGED <<users, clock, nextSid, challenges>>
      /\ op[p].pc = "touch"
      /\ DOMAIN sessions' = DOMAIN sessions
      /\ \A i \in DOMAIN sessions :
            sessions'[i] = IF i = op[p].ref /\ ~sessions[i].revoked
                           THEN [sessions[i] EXCEPT !.idle = op[p].until]
                           ELSE sessions[i]
  BY DEF Touch, Return, TouchSession, TypeOK, Running
<1>2. \A i \in DOMAIN sessions : sessions[i] \in Session(DOMAIN users)
  BY DEF TypeOK
<1>3. clock \in Nat /\ op[p].until \in Nat
  BY DEF TypeOK, Call
<1>4. ASSUME NEW i \in DOMAIN sessions
      PROVE  /\ sessions'[i].owner = sessions[i].owner
             /\ IsActive(sessions'[i], clock) => InUse(i)
  <2>1. CASE i = op[p].ref /\ ~sessions[i].revoked
    <3>1. /\ sessions'[i].owner = sessions[i].owner
          /\ sessions'[i].idle = op[p].until /\ sessions'[i].abs \in Nat
      BY <1>1, <1>2, <2>1 DEF Session
    <3>2. IsActive(sessions'[i], clock) => op[p].until > clock
      BY <1>3, <3>1 DEF IsActive, ExpiresAt, Earlier
    <3> QED BY <1>1, <2>1, <3>1, <3>2 DEF InUse, Running
  <2>2. CASE ~(i = op[p].ref /\ ~sessions[i].revoked)
    BY <1>1, <2>2 DEF InUse
  <2> QED BY <2>1, <2>2
<1> QED BY <1>1, <1>4, EndKept DEF Fewer

\* Steps of an idle shell that prove nothing and change no table.
LEMMA SessionLoadKept ==
    ASSUME TypeOK, Alone, NEW p \in Shells, NEW i \in DOMAIN sessions,
           ResolveLoad(p, i) \/ LogoutLoad(p, i)
    PROVE  Promise!Lapse
<1>1. /\ op[p].pc = "idle" /\ UNCHANGED <<users, sessions, nextSid, clock, challenges>>
      /\ op'[p].pc \in {"touch", "revoke"} /\ op'[p].ref = i
      /\ op'[p].pc = "touch" => IsActive(sessions[i], clock)
  <2>1. CASE ResolveLoad(p, i)
    BY <2>1 DEF ResolveLoad, Ready, Running, tables, TypeOK, Idle
  <2>2. CASE LogoutLoad(p, i)
    BY <2>2 DEF LogoutLoad, Ready, Running, tables, TypeOK, Idle
  <2> QED BY <2>1, <2>2
<1>2. Shells = {p}
  BY OnlyShell
<1>3. \A j \in DOMAIN sessions : InUse(j)' => InUse(j)
  BY <1>1, <1>2 DEF InUse, Running, IsActive
<1>4. SessionsInUse' \subseteq SessionsInUse
  BY <1>1, <1>3, LiveShrinks
<1>5. \A a \in Accounts : /\ Vouched(p, a)' => Vouched(p, a)
                          /\ Coded(p, a)' => Coded(p, a)
  BY <1>1 DEF Vouched, Coded, Running
<1> QED BY <1>1, <1>4, <1>5, VouchedShrinks, CodedShrinks, LapseStep

LEMMA DropKept ==
    ASSUME TypeOK, Alone, NEW p \in Shells, Discards(p),
           UNCHANGED <<clock, users, sessions, nextSid>>
    PROVE  Promise!Lapse
<1>1. challenges'[p] \subseteq challenges[p]
  BY DEF Discards, DeleteChallenge, TypeOK
<1>2. CASE Ready(p) /\ UNCHANGED op
  <2>1. Quiet(p)
    BY <1>2 DEF Quiet, Untouched, tables, Ready, Running
  <2>2. \A a \in Accounts : /\ Vouched(p, a)' => Vouched(p, a)
                            /\ Coded(p, a)' => Coded(p, a)
    BY <1>1, <1>2 DEF Vouched, Coded, Ready, Running
  <2> QED BY <2>1, <2>2, QuietSame, VouchedShrinks, CodedShrinks, LapseStep
<1>3. CASE Return(p)
  <2>1. op'[p] = Idle
    BY <1>3 DEF Return, TypeOK
  <2> QED BY <1>1, <2>1, EndKept DEF Fewer, InUse
<1> QED BY <1>2, <1>3 DEF Discards

LEMMA TickKept == ASSUME TypeOK, Tick PROVE Promise!Tick
<1>1. /\ clock \in Nat /\ clock' = clock + 1
      /\ UNCHANGED <<users, sessions, nextSid, challenges, op>>
      /\ \A i \in DOMAIN sessions : sessions[i].idle \in Nat /\ sessions[i].abs \in Nat
      /\ \A p \in Shells : op[p].until \in Nat
  BY DEF Tick, tables, TypeOK, Session, Call
<1>2. ASSUME NEW i \in DOMAIN sessions, InUse(i)' PROVE InUse(i)
  BY <1>1, <1>2 DEF InUse, IsActive, ExpiresAt, Earlier, Running
<1>3. SessionsInUse' \subseteq SessionsInUse
  BY <1>1, <1>2, LiveShrinks
<1>4. AccountsSeen' = AccountsSeen /\ AccountsVouched' = AccountsVouched
        /\ AccountsCoded' = AccountsCoded
  BY <1>1 DEF AccountsSeen, AccountsVouched, AccountsCoded, Vouched, Coded, Running
<1> QED BY <1>1, <1>3, <1>4 DEF Promise!Tick

LEMMA InitKept == Init => Promise!PromiseInit
<1> SUFFICES ASSUME Init PROVE Promise!PromiseInit
  OBVIOUS
<1>1. DOMAIN users = {} /\ DOMAIN sessions = {}
  BY DEF Init, EmptyTable
<1>2. AccountsSeen = [a \in {} |-> Promise!Fresh]
  BY <1>1 DEF AccountsSeen
<1>3. SessionsInUse = {}
  BY <1>1 DEF SessionsInUse
<1>4. AccountsVouched = {} /\ AccountsCoded = {}
  BY DEF Init, AccountsVouched, AccountsCoded, Vouched, Coded, Running, Idle
<1>5. clock = 1 /\ nextSid - 1 = 0
  BY DEF Init
<1> QED BY <1>2, <1>3, <1>4, <1>5 DEF Promise!PromiseInit

\* Step simulation.
LEMMA StepKept ==
    ASSUME Alone
    PROVE  TypeOK /\ CopiesCurrent /\ [Next]_vars => [Promise!PromiseNext]_Promise!promiseVars
<1> SUFFICES ASSUME TypeOK, CopiesCurrent, [Next]_vars
             PROVE  [Promise!PromiseNext]_Promise!promiseVars
  OBVIOUS
<1>1. ASSUME UNCHANGED vars PROVE UNCHANGED Promise!promiseVars
  BY <1>1 DEF vars, Promise!promiseVars, AccountsSeen, SessionsInUse, SessionSeen, InUse,
     AccountsVouched, AccountsCoded, Vouched, Coded, Running
<1>2. ASSUME Promise!Tick \/ Promise!Lapse PROVE Promise!PromiseNext
  BY <1>2 DEF Promise!PromiseNext
<1>3. ASSUME NEW a \in Accounts,
             \/ Promise!Register(a) \/ Promise!ProvePassword(a) \/ Promise!ProveCode(a)
             \/ Promise!Fail(a) \/ Promise!Unlock(a) \/ Promise!Login(a)
             \/ Promise!ChangePosture(a)
      PROVE  Promise!PromiseNext
  BY <1>3 DEF Promise!PromiseNext
<1>4. CASE Tick
  BY <1>2, <1>4, TickKept
<1>5. ASSUME NEW p \in Shells, ~Ready(p) PROVE op[p].acct \in Accounts
  BY <1>5, RunningCall, SeenRow
<1>7. ASSUME NEW p \in Shells, LoginStep(p) PROVE Promise!PromiseNext
  <2>1. ASSUME NEW a \in Accounts, Register(p, a) PROVE Promise!PromiseNext
    BY <1>3, <2>1, RegisterKept
  <2>2. ASSUME NEW a \in Accounts, NEW good \in BOOLEAN, AuthenticateLoad(p, a, good)
        PROVE  Promise!PromiseNext
    BY <1>2, <1>3, <2>2, AuthenticateKept
  <2>3. ASSUME ClearLockSave(p) \/ PasswordFailed(p) \/ PasswordLogin(p)
        PROVE  Promise!PromiseNext
    <3>1. op[p].acct \in Accounts
      BY <1>5, <2>3
      DEF ClearLockSave, PasswordFailed, PasswordLogin, PasswordAccepted, Running, Ready
    <3> QED BY <1>3, <2>3, <3>1, ClearLockKept, FailKept, LoginKept
  <2>4. ASSUME Rehash(p) PROVE Promise!PromiseNext
    BY <1>2, <2>4, RehashKept
  <2>5. ASSUME NEW id, Park(p, id) PROVE Promise!PromiseNext
    BY <1>2, <2>5, ParkKept
  <2> QED BY <1>7, <2>1, <2>2, <2>3, <2>4, <2>5 DEF LoginStep
<1>8. ASSUME NEW p \in Shells, ChallengeStep(p) PROVE Promise!PromiseNext
  <2>1. ASSUME AnswerStep(p), Discards(p) PROVE Promise!PromiseNext
    <3>1. UNCHANGED <<clock, users, sessions, nextSid>>
      BY <2>1, AnswerQuiet
    <3> QED BY <1>2, <2>1, <3>1, DropKept
  <2>2. ASSUME NEW code,
               \/ \E c \in challenges[p] : FindChallenge(p, c)
               \/ LoadUser(p) \/ CodeWrong(p, code)
        PROVE  Promise!PromiseNext
    BY <1>2, <2>2, LoadKept
  <2>3. ASSUME NEW acked, CodeFailed(p, acked) \/ CodeLogin(p) PROVE Promise!PromiseNext
    <3>1. op[p].acct \in Accounts
      BY <1>5, <2>3 DEF CodeFailed, CodeLogin, Running, Ready
    <3> QED BY <1>3, <2>3, <3>1, FailKept, LoginKept
  <2>4. ASSUME NEW code, CodeRight(p, code) PROVE Promise!PromiseNext
    <3>1. op[p].acct \in Accounts
      BY <1>5, <2>4 DEF CodeRight, Passes, Running, Ready
    <3> QED BY <1>3, <2>4, <3>1, CodeKept
  <2> QED BY <1>8, <2>1, <2>2, <2>3, <2>4, AnswerCases DEF ChallengeStep
<1>9. ASSUME NEW p \in Shells, EnrollmentStep(p) PROVE Promise!PromiseNext
  <2>1. ASSUME NEW a, BeginLoad(p, a) \/ CancelLoad(p, a) PROVE Promise!PromiseNext
    BY <1>2, <2>1, LoadKept
  <2>2. ASSUME SaveRow(p) PROVE Promise!PromiseNext
    BY <1>2, <2>2, SaveKept
  <2>3. ASSUME NEW a \in Accounts, NEW code, NEW keep,
               ConfirmLoad(p, a, code, keep) \/ DisableLoad(p, a, code, keep)
        PROVE  Promise!PromiseNext
    BY <1>3, <2>3, PostureLoadKept
  <2>4. ASSUME ConfirmSave(p) \/ DisableSave(p) PROVE Promise!PromiseNext
    <3>1. op[p].acct \in Accounts
      BY <1>5, <2>4 DEF ConfirmSave, DisableSave, Running, Ready
    <3> QED BY <1>3, <2>4, <3>1, PostureKept
  <2> QED BY <1>9, <2>1, <2>2, <2>3, <2>4 DEF EnrollmentStep
<1>10. ASSUME NEW p \in Shells, SessionStep(p) PROVE Promise!PromiseNext
  BY <1>2, <1>10, SessionLoadKept, TouchKept, RevokeKept DEF SessionStep
<1>11. ASSUME NEW p \in Shells, FailureStep(p) PROVE Promise!PromiseNext
  <2>1. ASSUME DBError(p) PROVE Promise!PromiseNext
    BY <1>2, <2>1, ReleaseKept
  <2> QED BY <1>2, <1>11, <2>1, ReleaseKept DEF FailureStep
<1> QED BY <1>1, <1>4, <1>7, <1>8, <1>9, <1>10, <1>11 DEF Next

(***************************************************************************)
(* Theorems                                                                *)
(***************************************************************************)
\* One shell that has the database to itself keeps what the documents promise
\* of a login: every step of AuthService, a failed, a killed and a late one too,
\* is a step of LoginPromise.
THEOREM OneShellKeepsPromise == ASSUME Alone PROVE Spec => KeepsPromise
<1> QED BY InitKept, StepKept, TypeCorrect, CopiesAreCurrent, PTL
    DEF Spec, KeepsPromise, Promise!PromiseSpec

\* What LoginPromise says of a lock, of which the invariant below is the reading.
LockEndsSessions == \A a \in DOMAIN AccountsSeen : Promise!Locked(a) => Promise!Of(a) = {}

LEMMA LockStep ==
    ASSUME TypeOK, LockEndsSessions, [Promise!PromiseNext]_Promise!promiseVars
    PROVE  LockEndsSessions'
<1> USE DEF Promise!Locked, Promise!Of, Promise!Set, Promise!Keep
<1>1. clock \in Nat /\ \A a \in DOMAIN AccountsSeen : AccountsSeen[a].lockedUntil \in Nat
  <2>1. \A a \in DOMAIN AccountsSeen : a \in DOMAIN users /\ users[a].lockedUntil \in Nat
    BY DEF TypeOK, User, AccountsSeen
  <2>2. \A a \in DOMAIN AccountsSeen : AccountsSeen[a].lockedUntil = users[a].lockedUntil
    BY DEF AccountsSeen, Seen
  <2> QED BY <2>1, <2>2 DEF TypeOK
<1>2. ASSUME UNCHANGED AccountsSeen, SessionsInUse' \subseteq SessionsInUse,
             clock' = clock \/ clock' = clock + 1
      PROVE  LockEndsSessions'
  BY <1>1, <1>2 DEF LockEndsSessions
<1>3. CASE UNCHANGED Promise!promiseVars
  BY <1>2, <1>3 DEF Promise!promiseVars
<1>4. CASE Promise!Tick
  BY <1>2, <1>4 DEF Promise!Tick
<1>5. CASE Promise!Lapse
  BY <1>2, <1>5 DEF Promise!Lapse
<1>6. ASSUME NEW a \in Accounts, Promise!ProvePassword(a) \/ Promise!ProveCode(a)
      PROVE  LockEndsSessions'
  BY <1>2, <1>6 DEF Promise!ProvePassword, Promise!ProveCode
\* An account row that is written: a lock comes with the end of the sessions.
<1>7. ASSUME NEW a \in DOMAIN AccountsSeen, UNCHANGED clock,
             DOMAIN AccountsSeen' = DOMAIN AccountsSeen,
             \A b \in DOMAIN AccountsSeen : b # a => AccountsSeen'[b] = AccountsSeen[b],
             SessionsInUse' \subseteq
                SessionsInUse \cup {[id |-> nextSid' - 1, owner |-> a]},
             \/ ~(AccountsSeen'[a].lockedUntil > clock)
             \/ \A s \in SessionsInUse' : s.owner # a
             \/ /\ AccountsSeen'[a].lockedUntil = AccountsSeen[a].lockedUntil
                /\ SessionsInUse' \subseteq SessionsInUse
      PROVE  LockEndsSessions'
  <2> SUFFICES ASSUME NEW b \in DOMAIN AccountsSeen', NEW s \in SessionsInUse',
                      s.owner = b, AccountsSeen'[b].lockedUntil > clock
               PROVE  FALSE
    BY <1>7 DEF LockEndsSessions
  <2>1. CASE b # a
    BY <1>7, <2>1 DEF LockEndsSessions
  <2>2. CASE b = a
    BY <1>7, <2>2 DEF LockEndsSessions
  <2> QED BY <2>1, <2>2
<1>8. ASSUME NEW a \in Accounts, Promise!Register(a) PROVE LockEndsSessions'
  <2>1. /\ DOMAIN AccountsSeen' = DOMAIN AccountsSeen \cup {a}
        /\ \A b \in DOMAIN AccountsSeen : AccountsSeen'[b] = AccountsSeen[b]
        /\ AccountsSeen'[a].lockedUntil = 0
        /\ SessionsInUse' = SessionsInUse /\ clock' = clock
    BY <1>8 DEF Promise!Register, Promise!Fresh
  <2> QED BY <1>1, <2>1 DEF LockEndsSessions
<1>9. ASSUME NEW a \in Accounts, Promise!Fail(a) PROVE LockEndsSessions'
  <2>1. CASE AccountsSeen[a].failed + 1 >= MaxAttempts
    <3>1. PICK t \in 1 .. clock :
             AccountsSeen' = [AccountsSeen EXCEPT
                ![a] = Promise!CountFrom0(AccountsSeen[a], t + LockDuration)]
      BY <1>9, <2>1 DEF Promise!Fail
    <3> QED BY <1>7, <1>9, <2>1, <3>1 DEF Promise!Fail
  <2>2. CASE ~(AccountsSeen[a].failed + 1 >= MaxAttempts)
    <3>1. /\ a \in DOMAIN AccountsSeen /\ UNCHANGED <<clock, SessionsInUse>>
          /\ AccountsSeen' = [AccountsSeen EXCEPT ![a] = [AccountsSeen[a] EXCEPT !.failed = @ + 1]]
      BY <1>9, <2>2 DEF Promise!Fail
    <3>2. AccountsSeen'[a].lockedUntil = AccountsSeen[a].lockedUntil
      BY <3>1 DEF AccountsSeen, Seen
    <3> QED BY <1>7, <3>1, <3>2
  <2> QED BY <2>1, <2>2
<1>10. ASSUME NEW a \in DOMAIN AccountsSeen,
              AccountsSeen' = [AccountsSeen EXCEPT
                 ![a] = Promise!CountFrom0(AccountsSeen[a], 0)]
       PROVE  ~(AccountsSeen'[a].lockedUntil > clock)
  <2>1. AccountsSeen'[a].lockedUntil = 0
    BY <1>10 DEF Promise!CountFrom0
  <2> QED BY <1>1, <2>1
<1>11. ASSUME NEW a \in Accounts, Promise!Unlock(a) PROVE LockEndsSessions'
  BY <1>7, <1>10, <1>11 DEF Promise!Unlock
<1>12. ASSUME NEW a \in Accounts, Promise!Login(a) PROVE LockEndsSessions'
  <2>1. a \in DOMAIN AccountsSeen
    <3>1. PICK p \in Shells : Vouched(p, a)
      BY <1>12 DEF Promise!Login, AccountsVouched
    <3>2. a \in DOMAIN users
      BY <3>1 DEF Vouched, TypeOK, Ready, Running
    <3> QED BY <3>2 DEF AccountsSeen
  <2>2. SessionsInUse' \subseteq SessionsInUse \cup {[id |-> nextSid' - 1, owner |-> a]}
    BY <1>12 DEF Promise!Login
  <2> QED BY <1>7, <1>10, <1>12, <2>1, <2>2 DEF Promise!Login
<1>13. ASSUME NEW a \in Accounts, Promise!ChangePosture(a) PROVE LockEndsSessions'
  <2>1. a \in DOMAIN AccountsSeen
    <3>1. PICK p \in Shells : Coded(p, a)
      BY <1>13 DEF Promise!ChangePosture, AccountsCoded
    <3>2. a \in DOMAIN users
      BY <3>1 DEF Coded, TypeOK, Ready, Running
    <3> QED BY <3>2 DEF AccountsSeen
  <2>2. /\ UNCHANGED clock /\ SessionsInUse' \subseteq SessionsInUse
        /\ AccountsSeen' = [AccountsSeen EXCEPT ![a] = [AccountsSeen[a] EXCEPT !.enabled = ~@]]
    BY <1>13 DEF Promise!ChangePosture
  <2>3. AccountsSeen'[a].lockedUntil = AccountsSeen[a].lockedUntil
    BY <2>1, <2>2 DEF AccountsSeen, Seen
  <2> QED BY <1>7, <2>1, <2>2, <2>3
<1> QED BY <1>3, <1>4, <1>5, <1>6, <1>8, <1>9, <1>11, <1>12, <1>13 DEF Promise!PromiseNext

\* "Locking also kills that account's live sessions", in one shell that has the
\* database to itself: no session of a locked account can be used, not even one
\* that a Resolve is about to touch.
THEOREM LockKillsSessions == ASSUME Alone PROVE Spec => []LockedHasNoLiveSession
<1>1. Init => LockEndsSessions
  BY DEF Init, EmptyTable, LockEndsSessions, AccountsSeen
<1>2. TypeOK /\ CopiesCurrent /\ LockEndsSessions /\ [Next]_vars => LockEndsSessions'
  BY LockStep, StepKept
<1>3. TypeOK /\ LockEndsSessions => LockedHasNoLiveSession
  <2> SUFFICES ASSUME TypeOK, LockEndsSessions,
                      NEW a \in DOMAIN users, IsLocked(users[a], clock),
                      NEW i \in DOMAIN sessions, sessions[i].owner = a
               PROVE  ~IsActive(sessions[i], clock)
    BY DEF LockedHasNoLiveSession
  <2>1. a \in DOMAIN AccountsSeen /\ AccountsSeen[a] = Seen(users[a])
    BY SeenRow
  <2>2. Promise!Locked(a)
    BY <2>1 DEF Promise!Locked, Seen, IsLocked
  <2>3. SessionSeen(i).owner = a /\ (InUse(i) => SessionSeen(i) \in SessionsInUse)
    BY DEF SessionSeen, SessionsInUse
  <2> QED BY <2>1, <2>2, <2>3 DEF LockEndsSessions, Promise!Of, InUse
<1> QED BY <1>1, <1>2, <1>3, TypeCorrect, CopiesAreCurrent, PTL DEF Spec

\* A session row appears only at the end of a login.
LEMMA Issues ==
    ASSUME TypeOK, [Next]_vars, NEW i \in DOMAIN sessions' \ DOMAIN sessions
    PROVE  \E p \in Shells : /\ PasswordLogin(p) \/ CodeLogin(p)
                             /\ sessions'[i].owner = op[p].acct
<1>1. ASSUME NEW p \in Shells, PasswordLogin(p) \/ CodeLogin(p)
      PROVE  sessions'[i].owner = op[p].acct
  <2>1. PICK t \in Elapsed(p) : CompleteLogin(op[p].acct, op[p].row, t)
    BY <1>1 DEF PasswordLogin, CodeLogin
  <2>2. sessions'[i] = NewSession(op[p].acct, t)
    BY <2>1 DEF CompleteLogin, Insert
  <2> QED BY <2>2 DEF NewSession
<1>2. ASSUME DOMAIN sessions' \subseteq DOMAIN sessions PROVE FALSE
  BY <1>2
<1>3. ASSUME UNCHANGED sessions PROVE FALSE
  BY <1>2, <1>3
<1>4. ASSUME NEW a, NEW keep, RevokeMatching(a, keep) PROVE FALSE
  BY <1>2, <1>4 DEF RevokeMatching
<1>5. ASSUME NEW p \in Shells, LoginStep(p), ~PasswordLogin(p) PROVE FALSE
  BY <1>3, <1>4, <1>5
  DEF LoginStep, Register, AuthenticateLoad, ClearLockSave, PasswordFailed, RecordFailure,
      Rehash, Park, tables
<1>6. ASSUME NEW p \in Shells, ChallengeStep(p), ~CodeLogin(p) PROVE FALSE
  BY <1>3, <1>4, <1>6, AnswerQuiet DEF ChallengeStep, CodeFailed, RecordFailure
<1>7. ASSUME NEW p \in Shells, EnrollmentStep(p) PROVE FALSE
  BY <1>3, <1>4, <1>7
  DEF EnrollmentStep, BeginLoad, CancelLoad, SaveRow, ConfirmLoad, DisableLoad, ConfirmSave,
      DisableSave, PostureSave, tables
<1>8. ASSUME NEW p \in Shells, SessionStep(p) \/ FailureStep(p) PROVE FALSE
  BY <1>2, <1>3, <1>8
  DEF SessionStep, FailureStep, ResolveLoad, Touch, TouchSession, LogoutLoad, LogoutRevoke,
      RevokeSession, DBError, Restart, DeleteExpired, tables
<1> QED BY <1>1, <1>3, <1>5, <1>6, <1>7, <1>8 DEF Next, Tick, tables, vars

\* "Even the right password is refused while the lock is open": one shell that has
\* the database to itself issues no session to a locked account, however long
\* the password check took.
THEOREM NoLoginDuringLock == ASSUME Alone PROVE Spec => NoLoginWhileLocked
<1>1. TypeOK /\ CopiesCurrent /\ [Next]_vars =>
        [\A i \in DOMAIN sessions' \ DOMAIN sessions :
           ~IsLocked(users[sessions'[i].owner], clock)]_vars
  <2> SUFFICES ASSUME TypeOK, CopiesCurrent, [Next]_vars,
                      NEW i \in DOMAIN sessions' \ DOMAIN sessions
               PROVE  ~IsLocked(users[sessions'[i].owner], clock)
    OBVIOUS
  <2>1. PICK p \in Shells : /\ PasswordLogin(p) \/ CodeLogin(p)
                            /\ sessions'[i].owner = op[p].acct
    BY Issues
  <2>2. op[p].pc \in LoginCalls
    BY <2>1 DEF PasswordLogin, PasswordAccepted, CodeLogin, Running, LoginCalls
  <2> QED BY <2>1, <2>2 DEF CopiesCurrent, CopyCurrent
<1> QED BY <1>1, TypeCorrect, CopiesAreCurrent, PTL DEF Spec, NoLoginWhileLocked

\* In one shell that has the database to itself a session of an account with two
\* factor on needs a code of the secret enrolled at that moment.
THEOREM SecondFactorNeeded == ASSUME Alone PROVE Spec => SecondFactorHeld
<1> DEFINE CodeGiven(a) == \E p \in Shells : /\ Running(p, "codeLogin")
                                             /\ op[p].acct = a
                                             /\ op[p].row.secret = users[a].secret
<1>1. TypeOK /\ CopiesCurrent /\ [Next]_vars =>
        [\A i \in DOMAIN sessions' \ DOMAIN sessions :
           LET a == sessions'[i].owner IN users[a].enabled => CodeGiven(a)]_vars
  <2> SUFFICES ASSUME TypeOK, CopiesCurrent, [Next]_vars,
                      NEW i \in DOMAIN sessions' \ DOMAIN sessions,
                      users[sessions'[i].owner].enabled
               PROVE  CodeGiven(sessions'[i].owner)
    OBVIOUS
  <2>1. PICK p \in Shells : /\ PasswordLogin(p) \/ CodeLogin(p)
                            /\ sessions'[i].owner = op[p].acct
    BY Issues
  <2>2. op[p].row = users[op[p].acct]
    BY <2>1 DEF PasswordLogin, PasswordAccepted, CodeLogin, Running, CopiesCurrent,
       CopyCurrent
  <2>3. CodeLogin(p)
    BY <2>1, <2>2 DEF PasswordLogin
  <2> QED BY <2>1, <2>2, <2>3 DEF CodeLogin
<1> QED BY <1>1, TypeCorrect, CopiesAreCurrent, PTL DEF Spec, SecondFactorHeld

\* A row that is written leaves two factor as it is, unless DisableTOTP writes it.
LEMMA StaysOn ==
    ASSUME TypeOK, CopiesCurrent, [Next]_vars, NEW a \in DOMAIN users,
           users[a].enabled, ~users'[a].enabled
    PROVE  \E p \in Shells : Running(p, "disable") /\ op[p].acct = a
<1>1. ASSUME UNCHANGED users PROVE FALSE
  BY <1>1
<1>2. ASSUME NEW p \in Shells, NEW row, UpdateUser(op[p].acct, row), row.enabled
      PROVE  FALSE
  BY <1>2 DEF UpdateUser
<1>3. ASSUME NEW p \in Shells, NEW row, UpdateUser(op[p].acct, row),
             row.enabled = users[op[p].acct].enabled
      PROVE  FALSE
  BY <1>3 DEF UpdateUser
<1>4. ASSUME NEW p \in Shells, NEW b, Register(p, b) PROVE FALSE
  BY <1>4 DEF Register, Insert
<1>5. ASSUME NEW p \in Shells, ClearLockSave(p) PROVE FALSE
  <2>1. /\ UpdateUser(op[p].acct, op[p].row) /\ CopyCurrent(p)
        /\ op[p].pc = "clearLock" /\ op[p].acct \in DOMAIN users
    BY <1>5, RunningCall DEF ClearLockSave, Running, Ready
  <2>2. op[p].row = ClearLock(users[op[p].acct]) /\ users[op[p].acct] \in User
    BY <2>1, SeenRow DEF CopyCurrent
  <2>3. op[p].row.enabled = users[op[p].acct].enabled
    BY <2>2 DEF ClearLock, User
  <2> QED BY <1>3, <2>1, <2>3
<1>6. ASSUME NEW p \in Shells, NEW row, UpdateUser(op[p].acct, row),
             op[p].pc \in {"verify", "codeFailed", "codeLogin"},
             row.enabled = op[p].row.enabled
      PROVE  FALSE
  <2>1. op[p].row = users[op[p].acct]
    BY <1>6 DEF CopiesCurrent, CopyCurrent
  <2> QED BY <1>3, <1>6, <2>1
<1>7. ASSUME NEW p \in Shells, NEW acked,
             PasswordFailed(p) \/ CodeFailed(p, acked) \/ PasswordLogin(p) \/ CodeLogin(p)
               \/ Rehash(p)
      PROVE  FALSE
  <2>1. op[p].row \in User /\ op[p].pc \in {"verify", "codeFailed", "codeLogin"}
    BY <1>7 DEF PasswordFailed, CodeFailed, PasswordLogin, PasswordAccepted, CodeLogin,
       Rehash, Running, TypeOK, Call
  <2>2. /\ \A t : RegisterFailure(op[p].row, t).enabled = op[p].row.enabled
        /\ ClearLock(op[p].row).enabled = op[p].row.enabled
        /\ \A cost : [op[p].row EXCEPT !.cost = cost].enabled = op[p].row.enabled
    BY <2>1 DEF RegisterFailure, ClearLock, User
  <2>3. \/ \E t : UpdateUser(op[p].acct, RegisterFailure(op[p].row, t))
        \/ UpdateUser(op[p].acct, ClearLock(op[p].row))
        \/ UpdateUser(op[p].acct, [op[p].row EXCEPT !.cost = HashCost[p]])
    BY <1>7 DEF PasswordFailed, CodeFailed, PasswordLogin, CodeLogin, Rehash,
       RecordFailure, CompleteLogin
  <2> QED BY <1>6, <2>1, <2>2, <2>3
<1>8. ASSUME NEW p \in Shells, SaveRow(p) PROVE FALSE
  <2>1. UpdateUser(op[p].acct, op[p].row) /\ Seen(op[p].row) = Seen(users[op[p].acct])
    BY <1>8 DEF SaveRow, Running, CopiesCurrent, CopyCurrent
  <2>2. op[p].row.enabled = users[op[p].acct].enabled
    BY <2>1 DEF Seen
  <2> QED BY <1>3, <2>1, <2>2
<1>9. ASSUME NEW p \in Shells, ConfirmSave(p) PROVE FALSE
  <2>1. UpdateUser(op[p].acct, op[p].row) /\ op[p].row.enabled
    BY <1>9 DEF ConfirmSave, PostureSave, Running, CopiesCurrent, CopyCurrent
  <2> QED BY <1>2, <2>1
<1>10. ASSUME NEW p \in Shells, DisableSave(p) PROVE Running(p, "disable") /\ op[p].acct = a
  BY <1>10 DEF DisableSave, PostureSave, UpdateUser
<1>11. ASSUME NEW p \in Shells, LoginStep(p) PROVE FALSE
  BY <1>1, <1>4, <1>5, <1>7, <1>11 DEF LoginStep, AuthenticateLoad, Park, tables
<1>12. ASSUME NEW p \in Shells, ChallengeStep(p) PROVE FALSE
  BY <1>1, <1>7, <1>12, AnswerQuiet DEF ChallengeStep
<1>13. ASSUME NEW p \in Shells, EnrollmentStep(p), ~DisableSave(p) PROVE FALSE
  BY <1>1, <1>8, <1>9, <1>13
  DEF EnrollmentStep, BeginLoad, CancelLoad, ConfirmLoad, DisableLoad, tables
<1>14. ASSUME NEW p \in Shells, SessionStep(p) \/ FailureStep(p) PROVE FALSE
  BY <1>1, <1>14
  DEF SessionStep, FailureStep, ResolveLoad, Touch, LogoutLoad, LogoutRevoke, DBError,
      Restart, tables
<1> QED BY <1>1, <1>10, <1>11, <1>12, <1>13, <1>14 DEF Next, Tick, tables, vars

\* "Turning it off needs a valid code too", in one shell that has the database to
\* itself: no other row it writes turns two factor off.
THEOREM OffNeedsCode == ASSUME Alone PROVE Spec => TwoFactorOffNeedsCode
<1>1. TypeOK /\ CopiesCurrent /\ [Next]_vars =>
        [\A a \in DOMAIN users :
           users[a].enabled /\ ~users'[a].enabled
             => \E p \in Shells : Running(p, "disable") /\ op[p].acct = a]_vars
  BY StaysOn
<1> QED BY <1>1, TypeCorrect, CopiesAreCurrent, PTL DEF Spec, TwoFactorOffNeedsCode
=============================================================================
