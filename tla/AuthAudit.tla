----------------------------- MODULE AuthAudit ------------------------------
(***************************************************************************)
(* AuthService with table auth_events, the audit trail behind `activity`.  *)
(*                                                                         *)
(* An entry written inside the transaction of an operation (Log) is there  *)
(* exactly when the operation took effect. An entry written by recordEvent *)
(* (MayLog) follows the operation outside of any transaction and its       *)
(* errors are swallowed, so it may be missing. It is put in the trail with *)
(* its operation, though it is written a moment later: the properties only *)
(* compare the places of entries written in transactions. The outcomes     *)
(* that change nothing but the trail are actions here.                     *)
(***************************************************************************)
EXTENDS AuthService, Sequences, FiniteSets

CONSTANT MaxEvents   \* bound: entries in the trail

ASSUME MaxEventsIsNat == MaxEvents \in Nat

VARIABLE events      \* table auth_events in the order of its id

auditVars == <<vars, events>>

EventTypes == {"registered", "login_succeeded", "login_failed", "account_locked",
               "totp_challenged", "totp_failed", "totp_enabled", "totp_disabled",
               "logout", "session_expired"}

\* counted: the entry was written by recordFailure, together with the counter.
Event == [type : EventTypes, acct : Accounts, counted : BOOLEAN]

Entry(type, a) == <<[type |-> type, acct |-> a, counted |-> FALSE]>>

Log(entries) ==
    /\ Len(events) + Len(entries) <= MaxEvents
    /\ events' = events \o entries

MayLog(entries) == Log(entries) \/ UNCHANGED events

\* Mutant: the entry of the lock is left to recordEvent's luck.
FailureEntriesWithoutLock(a, row, type) ==
    <<[type |-> type, acct |-> a, counted |-> TRUE]>>

\* What recordFailure appends.
FailureEntries(a, row, type) ==
    <<[type |-> type, acct |-> a, counted |-> TRUE]>>
        \o IF TripsLock(row) THEN Entry("account_locked", a) ELSE <<>>

(***************************************************************************)
(* Outcomes that leave only an entry                                       *)
(***************************************************************************)
\* Authenticate: the user does not exist (the entry has no user id), or is
\* locked.
AuthenticateRefused(p, a) ==
    /\ Ready(p)
    /\ a \in DOMAIN users => IsLocked(users[a], clock)
    /\ MayLog(Entry("login_failed", a))
    /\ UNCHANGED vars

\* ConfirmTOTPEnrollment and DisableTOTP: the code does not match. These do not
\* count towards the lock.
EnrollmentCodeWrong(p, a, code) ==
    /\ Ready(p)
    /\ a \in DOMAIN users
    /\ users[a].secret # NoSecret
    /\ Decrypts(users[a], KeyOf[p])
    /\ ~VerifyCode(users[a], code)
    /\ MayLog(Entry("totp_failed", a))
    /\ UNCHANGED vars

\* ResolveSession: the row exists but is no longer active.
ResolveDead(p, i) ==
    /\ Ready(p)
    /\ i \in DOMAIN sessions
    /\ ~IsActive(sessions[i], clock)
    /\ MayLog(Entry("session_expired", sessions[i].owner))
    /\ UNCHANGED vars

\* Logout of a session that is already revoked.
LogoutAgain(p, i) ==
    /\ Ready(p)
    /\ i \in DOMAIN sessions
    /\ sessions[i].revoked
    /\ MayLog(Entry("logout", sessions[i].owner))
    /\ UNCHANGED vars

(***************************************************************************)
(* The operations of AuthService and their entries                         *)
(***************************************************************************)
InTransaction(p) ==
    \/ \E a \in Accounts : Register(p, a) /\ Log(Entry("registered", a))
    \/ /\ PasswordFailed(p)
       /\ Log(FailureEntries(op[p].acct, op[p].row, "login_failed"))
    \/ /\ \E acked \in BOOLEAN : CodeFailed(p, acked)
       /\ Log(FailureEntries(op[p].acct, op[p].row, "totp_failed"))
    \/ PasswordLogin(p) /\ Log(Entry("login_succeeded", op[p].acct))
    \/ CodeLogin(p) /\ Log(Entry("login_succeeded", op[p].acct))
    \/ ConfirmSave(p) /\ Log(Entry("totp_enabled", op[p].acct))
    \/ DisableSave(p) /\ Log(Entry("totp_disabled", op[p].acct))

\* A Touch that finds its row revoked or gone ends in ErrSessionExpired.
BestEffort(p) ==
    \/ \E id \in 1 .. MaxChallenges :
          Park(p, id) /\ MayLog(Entry("totp_challenged", op[p].acct))
    \/ LogoutRevoke(p) /\ MayLog(Entry("logout", op[p].acct))
    \/ /\ Touch(p)
       /\ IF /\ op[p].ref \in DOMAIN sessions
             /\ ~sessions[op[p].ref].revoked
          THEN UNCHANGED events
          ELSE MayLog(Entry("session_expired", op[p].acct))
    \/ \E a \in Accounts : AuthenticateRefused(p, a)
    \/ \E a \in Accounts, code \in Codes : EnrollmentCodeWrong(p, a, code)
    \/ \E i \in DOMAIN sessions : ResolveDead(p, i) \/ LogoutAgain(p, i)

Unlogged(p) ==
    /\ \/ \E a \in Accounts, good \in BOOLEAN : AuthenticateLoad(p, a, good)
       \/ ClearLockSave(p)
       \/ Rehash(p)
       \/ AnswerStep(p)
       \/ \E a \in Accounts : BeginLoad(p, a) \/ CancelLoad(p, a)
       \/ SaveRow(p)
       \/ \E a \in Accounts, code \in Codes : \E keep \in Keepable(a) :
             ConfirmLoad(p, a, code, keep) \/ DisableLoad(p, a, code, keep)
       \/ \E i \in DOMAIN sessions : ResolveLoad(p, i) \/ LogoutLoad(p, i)
       \/ FailureStep(p)
    /\ UNCHANGED events

AuditInit == Init /\ events = <<>>

AuditNext ==
    \/ Tick /\ UNCHANGED events
    \/ \E p \in Shells : InTransaction(p) \/ BestEffort(p) \/ Unlogged(p)

AuditSpec == AuditInit /\ [][AuditNext]_auditVars

(***************************************************************************)
(* Properties                                                              *)
(***************************************************************************)
AuditTypeOK == TypeOK /\ events \in Seq(Event) /\ Len(events) <= MaxEvents

\* The places of the account's entries of the given types.
Places(a, types) == {n \in 1 .. Len(events) : events[n].acct = a /\ events[n].type \in types}

\* The failures of account a counted since it last logged in or was locked.
FailureStreak(a) ==
    {n \in 1 .. Len(events) :
        /\ events[n].acct = a /\ events[n].counted
        /\ \A m \in Places(a, {"login_succeeded", "account_locked"}) : m < n}

\* "Failed attempts (password or TOTP) lock the account": the trail never shows
\* MaxAttempts counted failures in a row without the lock.
LockAfterMaxFailures ==
    \A a \in DOMAIN users : Cardinality(FailureStreak(a)) < MaxAttempts

LockedSinceLogin(a) ==
    \E n \in Places(a, {"account_locked"}) : \A m \in Places(a, {"login_succeeded"}) : m < n

\* The counter in the row is what the trail shows, so no account is locked early.
\* Only after a lock it may be one short: the code of a login parked before the
\* lock, found just in time and judged when the lock has run out, is counted on
\* the old lock and cleared with it.
CounterMatchesTrail ==
    \A a \in DOMAIN users :
        LET shown == Cardinality(FailureStreak(a))
        IN  \/ users[a].failed = shown
            \/ LockedSinceLogin(a) /\ users[a].failed + 1 = shown

\* Two factor is on exactly when the last entry about it says so.
PostureMatchesTrail ==
    \A a \in DOMAIN users :
        users[a].enabled <=>
            \E n \in Places(a, {"totp_enabled"}) :
                \A m \in Places(a, {"totp_disabled"}) : m < n

\* With any number of shells, and whatever entries were lost or copies written
\* back late: an account that carries a lock was locked by an entry of the
\* trail, and one with two factor on was enrolled by one.
StateIsExplained ==
    \A a \in DOMAIN users :
        /\ users[a].lockedUntil # Unset => Places(a, {"account_locked"}) # {}
        /\ users[a].enabled => Places(a, {"totp_enabled"}) # {}
=============================================================================
