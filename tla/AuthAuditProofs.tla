--------------------------- MODULE AuthAuditProofs ---------------------------
(***************************************************************************)
(* The audit trail leaves the service alone, and explains locks and second *)
(* factors for any number of shells.                                       *)
(***************************************************************************)
EXTENDS AuthAudit, AuthServiceProofs, SequenceTheorems

(***************************************************************************)
(* The trail only watches                                                  *)
(***************************************************************************)
LEMMA InTransactionImplements ==
    ASSUME NEW p \in Shells, InTransaction(p)
    PROVE  Next
<1>1. CASE \E a \in Accounts : Register(p, a)
  BY <1>1 DEF Next, LoginStep
<1>2. CASE PasswordFailed(p) \/ PasswordLogin(p)
  BY <1>2 DEF Next, LoginStep
<1>3. CASE (\E acked \in BOOLEAN : CodeFailed(p, acked)) \/ CodeLogin(p)
  BY <1>3 DEF Next, ChallengeStep
<1>4. CASE ConfirmSave(p) \/ DisableSave(p)
  BY <1>4 DEF Next, EnrollmentStep
<1> QED BY <1>1, <1>2, <1>3, <1>4 DEF InTransaction

LEMMA BestEffortImplements ==
    ASSUME NEW p \in Shells, BestEffort(p)
    PROVE  [Next]_vars
<1>1. CASE \E id \in 1 .. MaxChallenges : Park(p, id)
  BY <1>1 DEF Next, LoginStep
<1>2. CASE LogoutRevoke(p) \/ Touch(p)
  BY <1>2 DEF Next, SessionStep
<1>3. CASE UNCHANGED vars
  BY <1>3
<1> QED
  BY <1>1, <1>2, <1>3
  DEF BestEffort, AuthenticateRefused, EnrollmentCodeWrong, ResolveDead, LogoutAgain

LEMMA UnloggedImplements ==
    ASSUME NEW p \in Shells, Unlogged(p)
    PROVE  Next
<1>1. CASE \/ \E a \in Accounts, good \in BOOLEAN : AuthenticateLoad(p, a, good)
           \/ ClearLockSave(p) \/ Rehash(p)
  BY <1>1 DEF Next, LoginStep
<1>2. CASE AnswerStep(p)
  BY <1>2 DEF Next, ChallengeStep
<1>3. CASE (\E a \in Accounts : BeginLoad(p, a) \/ CancelLoad(p, a)) \/ SaveRow(p)
  BY <1>3 DEF Next, EnrollmentStep
<1>4. CASE \E a \in Accounts, code \in Codes : \E keep \in Keepable(a) :
              ConfirmLoad(p, a, code, keep) \/ DisableLoad(p, a, code, keep)
  BY <1>4 DEF Next, EnrollmentStep
<1>5. CASE \E i \in DOMAIN sessions : ResolveLoad(p, i) \/ LogoutLoad(p, i)
  BY <1>5 DEF Next, SessionStep
<1>6. CASE FailureStep(p)
  BY <1>6 DEF Next
<1> QED BY <1>1, <1>2, <1>3, <1>4, <1>5, <1>6 DEF Unlogged

LEMMA AuditStepImplements == [AuditNext]_auditVars => [Next]_vars
<1> SUFFICES ASSUME [AuditNext]_auditVars PROVE [Next]_vars
  OBVIOUS
<1>1. CASE Tick
  BY <1>1 DEF Next
<1>2. ASSUME NEW p \in Shells, InTransaction(p) \/ BestEffort(p) \/ Unlogged(p)
      PROVE [Next]_vars
  BY <1>2, InTransactionImplements, BestEffortImplements, UnloggedImplements
<1>3. CASE UNCHANGED auditVars
  BY <1>3 DEF auditVars
<1> QED BY <1>1, <1>2, <1>3 DEF AuditNext

\* The service with its audit trail is the service: writing entries, or losing
\* them, changes nothing else, so what holds of AuthService holds here.
THEOREM AuditImplementsService == AuditSpec => Spec
<1>1. AuditInit => Init
  BY DEF AuditInit
<1> QED BY <1>1, AuditStepImplements, PTL DEF AuditSpec, Spec

(***************************************************************************)
(* The trail grows                                                         *)
(***************************************************************************)
Has(trail, type, a) ==
    \E n \in 1 .. Len(trail) : trail[n].type = type /\ trail[n].acct = a

Grown ==
    /\ events' \in Seq(Event)
    /\ \A type, a : Has(events, type, a) => Has(events', type, a)

LEMMA LogGrows ==
    ASSUME events \in Seq(Event), NEW entries \in Seq(Event), Log(entries)
    PROVE  /\ Grown
           /\ \A n \in 1 .. Len(entries) : Has(events', entries[n].type, entries[n].acct)
<1>1. /\ events' = events \o entries
      /\ events' \in Seq(Event)
      /\ Len(events') = Len(events) + Len(entries)
  BY DEF Log
<1>2. /\ \A n \in 1 .. Len(events) : n \in 1 .. Len(events') /\ events'[n] = events[n]
      /\ \A n \in 1 .. Len(entries) : /\ Len(events) + n \in 1 .. Len(events')
                                      /\ events'[Len(events) + n] = entries[n]
  BY <1>1
<1> QED BY <1>1, <1>2 DEF Grown, Has

LEMMA EntryIsTyped ==
    ASSUME NEW type \in EventTypes, NEW a \in Accounts
    PROVE  /\ Entry(type, a) \in Seq(Event) /\ Len(Entry(type, a)) = 1
           /\ Entry(type, a)[1].type = type /\ Entry(type, a)[1].acct = a
BY DEF Entry, Event

LEMMA EntryGrows ==
    ASSUME events \in Seq(Event), NEW type \in EventTypes, NEW a \in Accounts,
           Log(Entry(type, a))
    PROVE  Grown /\ Has(events', type, a)
BY EntryIsTyped, LogGrows

LEMMA MaybeGrows ==
    ASSUME events \in Seq(Event), NEW type \in EventTypes, NEW a \in Accounts,
           MayLog(Entry(type, a)) \/ UNCHANGED events
    PROVE  Grown
BY EntryGrows DEF MayLog, Grown

LEMMA AfterOne ==
    ASSUME NEW S, NEW s \in Seq(S), NEW t \in Seq(S), Len(s) = 1
    PROVE  /\ s \o t \in Seq(S)
           /\ Len(t) = 1 => 2 \in 1 .. Len(s \o t) /\ (s \o t)[2] = t[1]
<1>1. /\ s \o t \in Seq(S)
      /\ Len(s \o t) = Len(s) + Len(t)
      /\ \A i \in 1 .. Len(s) + Len(t) :
            (s \o t)[i] = IF i <= Len(s) THEN s[i] ELSE t[i - Len(s)]
  BY ConcatProperties
<1>2. Len(t) = 1 => 2 \in 1 .. Len(s \o t) /\ 2 \in 1 .. Len(s) + Len(t)
  BY <1>1
<1> QED BY <1>1, <1>2

LEMMA FailureGrows ==
    ASSUME events \in Seq(Event), NEW type \in EventTypes, NEW a \in Accounts, NEW row,
           Log(FailureEntries(a, row, type))
    PROVE  Grown /\ (TripsLock(row) => Has(events', "account_locked", a))
<1> DEFINE counted == <<[type |-> type, acct |-> a, counted |-> TRUE]>>
           lock == IF TripsLock(row) THEN Entry("account_locked", a) ELSE <<>>
           entries == counted \o lock
<1>1. counted \in Seq(Event) /\ Len(counted) = 1
  BY DEF Event
<1>2. /\ lock \in Seq(Event)
      /\ TripsLock(row) => Len(lock) = 1 /\ lock[1].type = "account_locked" /\ lock[1].acct = a
  BY EntryIsTyped DEF EventTypes
<1>3. Log(entries)
  BY DEF FailureEntries
<1>4. /\ entries \in Seq(Event)
      /\ TripsLock(row) => 2 \in 1 .. Len(entries) /\ entries[2] = lock[1]
  <2> HIDE DEF counted, lock
  <2> QED BY <1>1, <1>2, AfterOne
<1>5. TripsLock(row) => /\ 2 \in 1 .. Len(entries)
                        /\ entries[2].type = "account_locked" /\ entries[2].acct = a
  BY <1>2, <1>4
<1> HIDE DEF entries
<1> QED BY <1>3, <1>4, <1>5, LogGrows

(***************************************************************************)
(* The invariant: also the copies on the stacks are explained, but for the *)
(* flag of an enrollment that is about to be confirmed.                    *)
(***************************************************************************)
Explained(trail, a, row, pc) ==
    /\ row.lockedUntil # Unset => Has(trail, "account_locked", a)
    /\ row.enabled /\ pc # "confirm" => Has(trail, "totp_enabled", a)

CopiesExplained ==
    /\ events \in Seq(Event)
    /\ \A a \in DOMAIN users : Explained(events, a, users[a], "idle")
    /\ \A p \in Shells : Explained(events, op[p].acct, op[p].row, op[p].pc)

RowsStep ==
    \A a \in DOMAIN users' :
        \/ a \in DOMAIN users /\ users'[a] = users[a]
        \/ Explained(events', a, users'[a], "idle")

StacksStep ==
    \A p \in Shells :
        op'[p] = op[p] \/ Explained(events', op'[p].acct, op'[p].row, op'[p].pc)

LEMMA ExplainedKept ==
    ASSUME CopiesExplained, Grown, RowsStep, StacksStep
    PROVE  CopiesExplained'
<1>1. \A a, row, pc : Explained(events, a, row, pc) => Explained(events', a, row, pc)
  BY DEF Grown, Explained
<1>2. \A a \in DOMAIN users' : Explained(events', a, users'[a], "idle")
  BY <1>1 DEF CopiesExplained, RowsStep
<1>3. \A p \in Shells : Explained(events', op'[p].acct, op'[p].row, op'[p].pc)
  BY <1>1 DEF CopiesExplained, StacksStep
<1> QED BY <1>2, <1>3 DEF CopiesExplained, Grown

LEMMA RowWrittenBack ==
    ASSUME TypeOK, NEW p \in Shells, NEW row, UpdateUser(op[p].acct, row),
           Explained(events', op[p].acct, row, "idle")
    PROVE  RowsStep
BY DEF TypeOK, UpdateUser, RowsStep

LEMMA StackReplaced ==
    ASSUME TypeOK, NEW p \in Shells, NEW call, op' = [op EXCEPT ![p] = call],
           Explained(events', call.acct, call.row, call.pc)
    PROVE  StacksStep
BY DEF TypeOK, StacksStep

LEMMA StackEmptied ==
    ASSUME TypeOK, NEW p \in Shells, op' = [op EXCEPT ![p] = Idle]
    PROVE  StacksStep
<1>1. Explained(events', Idle.acct, Idle.row, Idle.pc)
  BY DEF Explained, Idle, NewUser
<1> QED BY <1>1, StackReplaced

\* The facts every case below starts from.
LEMMA CopyFacts ==
    ASSUME TypeOK, CopiesExplained, NEW p \in Shells
    PROVE  /\ op[p] \in Call /\ op[p].row \in User
           /\ ~Ready(p) => op[p].acct \in DOMAIN users /\ op[p].acct \in Accounts
           /\ Explained(events, op[p].acct, op[p].row, op[p].pc)
BY DEF TypeOK, CopiesExplained, Call

(***************************************************************************)
(* The cases                                                               *)
(***************************************************************************)
LEMMA TransactionExplained ==
    ASSUME TypeOK, CopiesExplained, NEW p \in Shells, InTransaction(p)
    PROVE  CopiesExplained'
<1> events \in Seq(Event)
  BY DEF CopiesExplained
<1> DEFINE me == op[p].acct
<1>1. ASSUME NEW a \in Accounts, Register(p, a), Log(Entry("registered", a))
      PROVE CopiesExplained'
  <2>1. Grown
    BY <1>1, EntryGrows DEF EventTypes
  <2>2. RowsStep
    BY <1>1 DEF Register, Insert, RowsStep, Explained, NewUser
  <2>3. StacksStep
    BY <1>1 DEF Register, StacksStep
  <2> QED BY <2>1, <2>2, <2>3, ExplainedKept
<1>2. ASSUME NEW type \in EventTypes, NEW now, Running(p, "verify") \/ Running(p, "codeFailed"),
             UpdateUser(me, RegisterFailure(op[p].row, now)), Return(p),
             Log(FailureEntries(me, op[p].row, type))
      PROVE CopiesExplained'
  <2>1. /\ me \in Accounts /\ op[p].row \in User
        /\ Explained(events, me, op[p].row, "idle")
    BY <1>2, CopyFacts DEF Running, Ready, Explained
  <2>2. Grown /\ (TripsLock(op[p].row) => Has(events', "account_locked", me))
    BY <1>2, <2>1, FailureGrows
  <2>3. Explained(events', me, RegisterFailure(op[p].row, now), "idle")
    BY <2>1, <2>2 DEF Explained, RegisterFailure, Grown, User
  <2>4. RowsStep
    BY <1>2, <2>3, RowWrittenBack
  <2> QED BY <1>2, <2>2, <2>4, StackEmptied, ExplainedKept DEF Return
<1>3. ASSUME Running(p, "verify") \/ Running(p, "codeLogin"),
             UpdateUser(me, ClearLock(op[p].row)), Return(p),
             Log(Entry("login_succeeded", me))
      PROVE CopiesExplained'
  <2>1. /\ me \in Accounts /\ op[p].row \in User
        /\ Explained(events, me, op[p].row, "idle")
    BY <1>3, CopyFacts DEF Running, Ready, Explained
  <2>2. Grown
    BY <1>3, <2>1, EntryGrows DEF EventTypes
  <2>3. Explained(events', me, ClearLock(op[p].row), "idle")
    BY <2>1, <2>2 DEF Explained, ClearLock, Grown, User
  <2>4. RowsStep
    BY <1>3, <2>3, RowWrittenBack
  <2> QED BY <1>3, <2>2, <2>4, StackEmptied, ExplainedKept DEF Return
<1>4. ASSUME ConfirmSave(p), Log(Entry("totp_enabled", me)) PROVE CopiesExplained'
  <2>1. /\ me \in Accounts
        /\ Explained(events, me, op[p].row, "confirm")
    BY <1>4, CopyFacts DEF ConfirmSave, Running, Ready
  <2>2. Grown /\ Has(events', "totp_enabled", me)
    BY <1>4, <2>1, EntryGrows DEF EventTypes
  <2>3. Explained(events', me, op[p].row, "idle")
    BY <2>1, <2>2 DEF Explained, Grown
  <2>4. UpdateUser(me, op[p].row) /\ Return(p)
    BY <1>4 DEF ConfirmSave, PostureSave
  <2> QED BY <2>2, <2>3, <2>4, RowWrittenBack, StackEmptied, ExplainedKept DEF Return
<1>5. ASSUME DisableSave(p), Log(Entry("totp_disabled", me)) PROVE CopiesExplained'
  <2>1. /\ me \in Accounts
        /\ Explained(events, me, op[p].row, "idle")
    BY <1>5, CopyFacts DEF DisableSave, Running, Ready, Explained
  <2>2. Grown
    BY <1>5, <2>1, EntryGrows DEF EventTypes
  <2>3. Explained(events', me, op[p].row, "idle")
    BY <2>1, <2>2 DEF Explained, Grown
  <2>4. UpdateUser(me, op[p].row) /\ Return(p)
    BY <1>5 DEF DisableSave, PostureSave
  <2> QED BY <2>2, <2>3, <2>4, RowWrittenBack, StackEmptied, ExplainedKept DEF Return
<1>6. CASE PasswordFailed(p) /\ Log(FailureEntries(me, op[p].row, "login_failed"))
  BY <1>2, <1>6 DEF PasswordFailed, RecordFailure, EventTypes
<1>7. CASE (\E acked \in BOOLEAN : CodeFailed(p, acked))
             /\ Log(FailureEntries(me, op[p].row, "totp_failed"))
  BY <1>2, <1>7 DEF CodeFailed, RecordFailure, EventTypes
<1>8. CASE (PasswordLogin(p) \/ CodeLogin(p)) /\ Log(Entry("login_succeeded", me))
  BY <1>3, <1>8 DEF PasswordLogin, PasswordAccepted, CodeLogin, CompleteLogin
<1> QED BY <1>1, <1>4, <1>5, <1>6, <1>7, <1>8 DEF InTransaction

LEMMA BestEffortExplained ==
    ASSUME TypeOK, CopiesExplained, NEW p \in Shells, BestEffort(p)
    PROVE  CopiesExplained'
<1> events \in Seq(Event)
  BY DEF CopiesExplained
<1>1. ASSUME NEW type \in EventTypes, NEW a \in Accounts,
             MayLog(Entry(type, a)) \/ UNCHANGED events,
             UNCHANGED users, UNCHANGED op \/ Return(p)
      PROVE CopiesExplained'
  <2>1. Grown
    BY <1>1, MaybeGrows
  <2>2. RowsStep
    BY <1>1 DEF RowsStep
  <2>3. StacksStep
    BY <1>1, StackEmptied DEF Return, StacksStep
  <2> QED BY <2>1, <2>2, <2>3, ExplainedKept
<1>2. ASSUME NEW id, Park(p, id), MayLog(Entry("totp_challenged", op[p].acct))
      PROVE CopiesExplained'
  <2>1. op[p].acct \in Accounts
    BY <1>2, CopyFacts DEF Park, PasswordAccepted, Running, Ready
  <2> QED BY <1>1, <1>2, <2>1 DEF Park, tables, EventTypes
<1>3. ASSUME LogoutRevoke(p), MayLog(Entry("logout", op[p].acct)) PROVE CopiesExplained'
  <2>1. op[p].acct \in Accounts
    BY <1>3, CopyFacts DEF LogoutRevoke, Running, Ready
  <2> QED BY <1>1, <1>3, <2>1 DEF LogoutRevoke, EventTypes
<1>4. ASSUME Touch(p), MayLog(Entry("session_expired", op[p].acct)) \/ UNCHANGED events
      PROVE CopiesExplained'
  <2>1. op[p].acct \in Accounts
    BY <1>4, CopyFacts DEF Touch, Running, Ready
  <2> QED BY <1>1, <1>4, <2>1 DEF Touch, EventTypes
<1>5. ASSUME NEW a \in Accounts, AuthenticateRefused(p, a) PROVE CopiesExplained'
  BY <1>1, <1>5 DEF AuthenticateRefused, vars, EventTypes
<1>6. ASSUME NEW a \in Accounts, NEW code, EnrollmentCodeWrong(p, a, code)
      PROVE CopiesExplained'
  BY <1>1, <1>6 DEF EnrollmentCodeWrong, vars, EventTypes
<1>7. ASSUME NEW i \in DOMAIN sessions, ResolveDead(p, i) \/ LogoutAgain(p, i)
      PROVE CopiesExplained'
  <2>1. sessions[i].owner \in Accounts
    BY <1>7 DEF TypeOK, Session
  <2> QED BY <1>1, <1>7, <2>1 DEF ResolveDead, LogoutAgain, vars, EventTypes
<1> QED BY <1>2, <1>3, <1>4, <1>5, <1>6, <1>7 DEF BestEffort

LEMMA UnloggedExplained ==
    ASSUME TypeOK, CopiesExplained, NEW p \in Shells, Unlogged(p)
    PROVE  CopiesExplained'
<1>0. Grown /\ events' = events
  BY DEF Unlogged, Grown, CopiesExplained
<1>1. ASSUME UNCHANGED users, StacksStep PROVE CopiesExplained'
  BY <1>0, <1>1, ExplainedKept DEF RowsStep
<1>2. ASSUME NEW a \in DOMAIN users, NEW call, op' = [op EXCEPT ![p] = call],
             UNCHANGED users, call.acct = a,
             call.row.lockedUntil # Unset => users[a].lockedUntil # Unset,
             call.row.enabled /\ call.pc # "confirm" => users[a].enabled
      PROVE CopiesExplained'
  <2>1. Explained(events', call.acct, call.row, call.pc)
    BY <1>0, <1>2 DEF CopiesExplained, Explained
  <2> QED BY <1>1, <1>2, <2>1, StackReplaced
<1>3. ASSUME NEW a, NEW good, AuthenticateLoad(p, a, good) PROVE CopiesExplained'
  <2>1. a \in DOMAIN users /\ users[a] \in User
    BY <1>3 DEF AuthenticateLoad, TypeOK
  <2> DEFINE call == [Idle EXCEPT !.pc = IF LockRanOut(users[a], clock)
                                         THEN "clearLock" ELSE "verify",
                                  !.acct = a,
                                  !.row = ClearExpiredLock(users[a], clock),
                                  !.at = clock,
                                  !.good = good]
  <2>2. op' = [op EXCEPT ![p] = call] /\ UNCHANGED users
    BY <1>3 DEF AuthenticateLoad, tables
  <2>3. call.acct = a /\ call.row = ClearExpiredLock(users[a], clock)
    BY DEF Idle
  <2>4. /\ call.row.lockedUntil # Unset => users[a].lockedUntil # Unset
        /\ call.row.enabled => users[a].enabled
    BY <2>1, <2>3 DEF ClearExpiredLock, ClearLock, User
  <2> HIDE DEF call
  <2> QED BY <1>2, <2>1, <2>2, <2>3, <2>4
<1>4. ASSUME ClearLockSave(p) \/ Rehash(p) \/ SaveRow(p) PROVE CopiesExplained'
  <2>1. /\ op[p].row \in User
        /\ Explained(events', op[p].acct, op[p].row, "idle")
    BY <1>0, <1>4, CopyFacts DEF ClearLockSave, Rehash, SaveRow, Running, Explained
  <2>2. CASE ClearLockSave(p)
    <3>1. RowsStep
      BY <2>1, <2>2, RowWrittenBack DEF ClearLockSave
    <3>2. StacksStep
      BY <2>1, <2>2 DEF ClearLockSave, StacksStep, Explained, TypeOK, Call
    <3> QED BY <1>0, <3>1, <3>2, ExplainedKept
  <2>3. CASE Rehash(p)
    <3> DEFINE row == [op[p].row EXCEPT !.cost = HashCost[p]]
    <3>1. Explained(events', op[p].acct, row, "idle")
      BY <2>1 DEF Explained, User
    <3>2. UpdateUser(op[p].acct, row) /\ op' = [op EXCEPT ![p].row = row]
      BY <2>3 DEF Rehash
    <3> HIDE DEF row
    <3>3. RowsStep
      BY <3>1, <3>2, RowWrittenBack
    <3>4. StacksStep
      BY <3>1, <3>2 DEF StacksStep, Explained, TypeOK, Call
    <3> QED BY <1>0, <3>3, <3>4, ExplainedKept
  <2>4. CASE SaveRow(p)
    <3>1. RowsStep
      BY <2>1, <2>4, RowWrittenBack DEF SaveRow
    <3> QED BY <1>0, <2>4, <3>1, StackEmptied, ExplainedKept DEF SaveRow, Return
  <2> QED BY <1>4, <2>2, <2>3, <2>4
<1>5. ASSUME NEW a, NEW pc, NEW row, NEW ref, a \in DOMAIN users, UNCHANGED users,
             Proceed(p, pc, a, row, ref),
             row.lockedUntil = users[a].lockedUntil,
             row.enabled /\ pc # "confirm" => users[a].enabled
      PROVE CopiesExplained'
  <2> DEFINE call == [Idle EXCEPT !.pc = pc, !.acct = a, !.row = row, !.ref = ref]
  <2>1. call.pc = pc /\ call.acct = a /\ call.row = row
    BY DEF Idle
  <2>2. op' = [op EXCEPT ![p] = call]
    BY <1>5 DEF Proceed
  <2> HIDE DEF call
  <2> QED BY <1>2, <1>5, <2>1, <2>2
<1>6. CASE AnswerStep(p)
  <2>1. UNCHANGED users
    BY <1>6, AnswerQuiet
  <2>2. op[p] \in Call /\ (~Ready(p) => op[p].acct \in DOMAIN users)
    BY DEF TypeOK
  <2>3. ASSUME NEW c \in challenges[p], FindChallenge(p, c) PROVE CopiesExplained'
    <3>1. c.acct \in DOMAIN users /\ users[c.acct].lockedUntil = users[c.acct].lockedUntil
      BY DEF TypeOK
    <3> DEFINE call == [Idle EXCEPT !.pc = "loadUser", !.acct = c.acct,
                                    !.row = NewUser(0), !.ref = c.id]
    <3>2. op' = [op EXCEPT ![p] = call]
      BY <2>3 DEF FindChallenge, Proceed
    <3>3. call.acct = c.acct /\ call.row = NewUser(0)
      BY DEF Idle
    <3>4. call.row.lockedUntil = Unset /\ ~call.row.enabled
      BY <3>3 DEF NewUser
    <3> HIDE DEF call
    <3> QED BY <1>2, <2>1, <3>1, <3>2, <3>3, <3>4
  <2>4. CASE LoadUser(p)
    <3>1. op[p].acct \in DOMAIN users
      BY <2>2, <2>4 DEF LoadUser, Ready, Running
    <3>2. Proceed(p, "checkCode", op[p].acct, users[op[p].acct], op[p].ref)
      BY <2>4 DEF LoadUser
    <3> QED BY <1>5, <2>1, <3>1, <3>2
  <2>5. ASSUME NEW code, CodeWrong(p, code) \/ CodeRight(p, code) PROVE CopiesExplained'
    <3>1. PICK pc \in {"codeFailed", "codeLogin"} :
             op' = [op EXCEPT ![p].pc = pc, ![p].at = clock]
      BY <2>5 DEF CodeWrong, CodeRight, Decide
    <3>2. op[p].pc = "checkCode" /\ Explained(events', op[p].acct, op[p].row, op[p].pc)
      BY <2>5, <1>0, CopyFacts DEF CodeWrong, CodeRight, Passes, Running
    <3>3. op'[p].row = op[p].row /\ op'[p].acct = op[p].acct /\ op'[p].pc = pc
      BY <2>2, <3>1 DEF TypeOK, Call
    <3>4. Explained(events', op'[p].acct, op'[p].row, op'[p].pc)
      BY <3>2, <3>3 DEF Explained
    <3>5. StacksStep
      BY <3>1, <3>4 DEF StacksStep, TypeOK
    <3> QED BY <1>1, <2>1, <3>5
  <2>6. CASE Discards(p)
    <3>1. StacksStep
      BY <2>6, StackEmptied DEF Discards, Return, StacksStep
    <3> QED BY <1>1, <2>1, <3>1
  <2> QED BY <1>6, <2>3, <2>4, <2>5, <2>6, AnswerCases
<1>7. ASSUME NEW a, BeginLoad(p, a) \/ CancelLoad(p, a) PROVE CopiesExplained'
  <2>1. users[a] \in User
    BY <1>7 DEF TypeOK, BeginLoad, CancelLoad
  <2> DEFINE started == [users[a] EXCEPT !.secret = nextSecret, !.key = KeyOf[p],
                                         !.enabled = FALSE]
             cleared == [users[a] EXCEPT !.secret = NoSecret, !.key = NoKey]
  <2>2. /\ started.lockedUntil = users[a].lockedUntil /\ ~started.enabled
        /\ cleared.lockedUntil = users[a].lockedUntil
        /\ cleared.enabled = users[a].enabled
    BY <2>1 DEF User
  <2>3. /\ a \in DOMAIN users /\ UNCHANGED users
        /\ Proceed(p, "save", a, started, 0) \/ Proceed(p, "save", a, cleared, 0)
    BY <1>7 DEF BeginLoad, CancelLoad, tables
  <2> HIDE DEF started, cleared
  <2> QED BY <1>5, <2>2, <2>3
<1>8. ASSUME NEW a, NEW code, NEW keep,
             ConfirmLoad(p, a, code, keep) \/ DisableLoad(p, a, code, keep)
      PROVE CopiesExplained'
  <2>1. users[a] \in User
    BY <1>8 DEF TypeOK, ConfirmLoad, DisableLoad
  <2>2. PICK row, pc : /\ Proceed(p, pc, a, row, keep)
                       /\ row.lockedUntil = users[a].lockedUntil
                       /\ row.enabled /\ pc # "confirm" => users[a].enabled
    BY <1>8, <2>1 DEF ConfirmLoad, DisableLoad, User
  <2> QED BY <1>5, <1>8, <2>2 DEF ConfirmLoad, DisableLoad, tables
<1>9. ASSUME NEW i, ResolveLoad(p, i) \/ LogoutLoad(p, i) PROVE CopiesExplained'
  <2> DEFINE touch == [Idle EXCEPT !.pc = "touch", !.acct = sessions[i].owner, !.ref = i,
                                   !.until = IdleDeadline(sessions[i], clock)]
             revoke == [Idle EXCEPT !.pc = "revoke", !.acct = sessions[i].owner, !.ref = i]
  <2>1. /\ UNCHANGED users
        /\ op' = [op EXCEPT ![p] = touch] \/ op' = [op EXCEPT ![p] = revoke]
    BY <1>9 DEF ResolveLoad, LogoutLoad, tables
  <2>2. touch.row = NewUser(0) /\ revoke.row = NewUser(0)
    BY DEF Idle
  <2>3. \A call : call.row = NewUser(0) => Explained(events', call.acct, call.row, call.pc)
    BY DEF Explained, NewUser
  <2> HIDE DEF touch, revoke
  <2>4. StacksStep
    BY <2>1, <2>2, <2>3, StackReplaced
  <2> QED BY <1>1, <2>1, <2>4
<1>10. CASE FailureStep(p)
  BY <1>1, <1>10, StackEmptied DEF FailureStep, DBError, Restart, Return, tables
<1> QED
  BY <1>3, <1>4, <1>6, <1>7, <1>8, <1>9, <1>10 DEF Unlogged

LEMMA ExplainedStep ==
    TypeOK /\ CopiesExplained /\ [AuditNext]_auditVars => CopiesExplained'
<1> SUFFICES ASSUME TypeOK, CopiesExplained, [AuditNext]_auditVars PROVE CopiesExplained'
  OBVIOUS
<1>1. CASE UNCHANGED <<users, op, events>>
  BY <1>1 DEF CopiesExplained
<1>2. CASE Tick /\ UNCHANGED events
  BY <1>1, <1>2 DEF Tick, tables
<1>3. CASE UNCHANGED auditVars
  BY <1>1, <1>3 DEF auditVars, vars
<1>4. ASSUME NEW p \in Shells, InTransaction(p) \/ BestEffort(p) \/ Unlogged(p)
      PROVE CopiesExplained'
  BY <1>4, TransactionExplained, BestEffortExplained, UnloggedExplained
<1> QED BY <1>2, <1>3, <1>4 DEF AuditNext

\* For any number of shells, whatever best effort entries are lost and whatever
\* copies are written back late: an account that carries a lock has an
\* account_locked entry, and one with two factor on a totp_enabled entry.
THEOREM StateExplained == AuditSpec => []StateIsExplained
<1>1. AuditInit => CopiesExplained
  BY DEF AuditInit, Init, EmptyTable, CopiesExplained, Explained, Idle, NewUser
<1>2. CopiesExplained => StateIsExplained
  <2> SUFFICES ASSUME CopiesExplained, NEW a \in DOMAIN users
               PROVE  /\ users[a].lockedUntil # Unset => Places(a, {"account_locked"}) # {}
                      /\ users[a].enabled => Places(a, {"totp_enabled"}) # {}
    BY DEF StateIsExplained
  <2>1. \A type : Has(events, type, a) => Places(a, {type}) # {}
    BY DEF Has, Places
  <2> QED BY <2>1 DEF CopiesExplained, Explained
<1>3. AuditInit => TypeOK
  BY InitType DEF AuditInit
<1>4. TypeOK /\ [AuditNext]_auditVars => TypeOK'
  BY AuditStepImplements, TypeStep
<1> QED BY <1>1, <1>2, <1>3, <1>4, ExplainedStep, PTL DEF AuditSpec

(***************************************************************************)
(* The type of the trail                                                   *)
(***************************************************************************)
LEMMA FailureEntriesTyped ==
    ASSUME NEW type \in EventTypes, NEW a \in Accounts, NEW row
    PROVE  FailureEntries(a, row, type) \in Seq(Event)
<1> DEFINE counted == <<[type |-> type, acct |-> a, counted |-> TRUE]>>
           lock == IF TripsLock(row) THEN Entry("account_locked", a) ELSE <<>>
<1>1. counted \in Seq(Event)
  BY DEF Event
<1>2. lock \in Seq(Event)
  BY EntryIsTyped DEF EventTypes
<1>3. counted \o lock \in Seq(Event)
  <2> HIDE DEF counted, lock
  <2> QED BY <1>1, <1>2, ConcatProperties
<1> QED BY <1>3 DEF FailureEntries

\* Every step leaves the trail alone or appends typed entries to it.
LEMMA TrailStep ==
    ASSUME TypeOK, [AuditNext]_auditVars
    PROVE  UNCHANGED events \/ \E entries \in Seq(Event) : Log(entries)
<1> DEFINE Grows == UNCHANGED events \/ \E entries \in Seq(Event) : Log(entries)
<1>1. ASSUME NEW type \in EventTypes, NEW a \in Accounts,
             Log(Entry(type, a)) \/ MayLog(Entry(type, a))
      PROVE Grows
  BY <1>1, EntryIsTyped DEF MayLog
<1>2. ASSUME NEW type \in EventTypes, NEW a \in Accounts, NEW row,
             Log(FailureEntries(a, row, type))
      PROVE Grows
  BY <1>2, FailureEntriesTyped
<1>3. /\ \A p \in Shells : ~Ready(p) => op[p].acct \in Accounts
      /\ \A i \in DOMAIN sessions : sessions[i].owner \in Accounts
  BY DEF TypeOK, Session
<1> HIDE DEF Grows
<1>4. ASSUME NEW p \in Shells, InTransaction(p) PROVE Grows
  <2>1. CASE \E a \in Accounts : Register(p, a) /\ Log(Entry("registered", a))
    BY <1>1, <2>1 DEF EventTypes
  <2>2. CASE ~Ready(p) /\ \E type \in EventTypes : \/ Log(Entry(type, op[p].acct))
                                                   \/ Log(FailureEntries(op[p].acct, op[p].row, type))
    BY <1>1, <1>2, <1>3, <2>2
  <2> QED
    BY <1>4, <2>1, <2>2
    DEF InTransaction, PasswordFailed, CodeFailed, PasswordLogin, PasswordAccepted, CodeLogin,
        ConfirmSave, DisableSave, Ready, Running, EventTypes
<1>5. ASSUME NEW p \in Shells, BestEffort(p) PROVE Grows
  <2>1. CASE ~Ready(p) /\ \E type \in EventTypes : MayLog(Entry(type, op[p].acct))
    BY <1>1, <1>3, <2>1
  <2>2. CASE \E a \in Accounts, type \in EventTypes : MayLog(Entry(type, a))
    BY <1>1, <2>2
  <2>3. CASE \E i \in DOMAIN sessions, type \in EventTypes : MayLog(Entry(type, sessions[i].owner))
    BY <1>1, <1>3, <2>3
  <2>4. ASSUME events' = events PROVE Grows
    BY <2>4 DEF Grows
  <2> QED
    BY <1>5, <2>1, <2>2, <2>3, <2>4
    DEF BestEffort, Park, PasswordAccepted, LogoutRevoke, Touch, AuthenticateRefused,
        EnrollmentCodeWrong, ResolveDead, LogoutAgain, Ready, Running, EventTypes
<1>6. ASSUME events' = events PROVE Grows
  BY <1>6 DEF Grows
<1>7. AuditNext \/ events' = events
  BY DEF auditVars
<1>8. ASSUME NEW p \in Shells, Unlogged(p) PROVE Grows
  <2>1. events' = events
    BY <1>8 DEF Unlogged
  <2> QED BY <2>1, <1>6
<1>9. Grows
  BY <1>4, <1>5, <1>6, <1>7, <1>8 DEF AuditNext
<1> QED BY <1>9 DEF Grows

\* The trail is a sequence of typed entries within the bound of the model, and
\* the service under it keeps its types.
THEOREM AuditTyped == AuditSpec => []AuditTypeOK
<1>1. AuditInit => AuditTypeOK
  BY InitType, MaxEventsIsNat DEF AuditInit, AuditTypeOK
<1>2. AuditTypeOK /\ [AuditNext]_auditVars => AuditTypeOK'
  <2> SUFFICES ASSUME AuditTypeOK, [AuditNext]_auditVars PROVE AuditTypeOK'
    OBVIOUS
  <2>1. TypeOK /\ TypeOK'
    BY AuditStepImplements, TypeStep DEF AuditTypeOK
  <2>2. ASSUME NEW entries \in Seq(Event), Log(entries)
        PROVE events' \in Seq(Event) /\ Len(events') <= MaxEvents
    <3>1. events \in Seq(Event) /\ events' = events \o entries
            /\ Len(events) + Len(entries) <= MaxEvents
      BY <2>2 DEF AuditTypeOK, Log
    <3> QED BY <3>1, ConcatProperties
  <2>3. events' \in Seq(Event) /\ Len(events') <= MaxEvents
    BY <2>1, <2>2, TrailStep DEF AuditTypeOK
  <2> QED BY <2>1, <2>3 DEF AuditTypeOK
<1> QED BY <1>1, <1>2, PTL DEF AuditSpec
=============================================================================
