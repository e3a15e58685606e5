---------------------------- MODULE AuthService -----------------------------
(***************************************************************************)
(* auth.Service as run by several authcli processes ("shells") on one      *)
(* PostgreSQL database.                                                    *)
(*                                                                         *)
(* A shell is single threaded: it runs one service call at a time. Between *)
(* two database calls of one service call the other shells may run, time   *)
(* may pass, the database may fail and the process may be killed. So a     *)
(* call is split at its database calls: op[p] is what call p has on its    *)
(* stack between two of them, in particular row, its private copy of the   *)
(* account row, which users.Update later writes back as a whole.           *)
(* A transaction (WithinTx) is one step: its first statement always takes  *)
(* the row lock of the account, and READ COMMITTED shows nothing of it     *)
(* before COMMIT. A read only outcome (unknown user, locked account,       *)
(* dead token, refused enrollment, wrong enrollment code) changes no state *)
(* and has no action; AuthAudit gives it one, for the entry it leaves.     *)
(*                                                                         *)
(* The callers are free: any shell may call any operation with any         *)
(* account, challenge, session and code.                                   *)
(***************************************************************************)
EXTENDS AuthDomain

CONSTANTS
    Shells,          \* the authcli processes
    Accounts,        \* usernames that may be registered
    NoAccount,       \* the account of a shell that runs no call
    KeyOf,           \* [Shells -> Nat \ {0}]: AUTH_SECRET_KEY of each process
    HashCost,        \* [Shells -> Nat]: AUTH_BCRYPT_COST of each process
    MaxClock,        \* bound: the last tick
    MaxSessions,     \* bound: sessions ever issued
    MaxSecrets,      \* bound: TOTP secrets ever generated
    MaxChallenges    \* bound: parked logins per shell

ASSUME ServiceConstants ==
    /\ NoAccount \notin Accounts
    /\ KeyOf \in [Shells -> Nat \ {NoKey}]
    /\ HashCost \in [Shells -> Nat]
    /\ MaxClock \in Nat /\ MaxSessions \in Nat
    /\ MaxSecrets \in Nat /\ MaxChallenges \in Nat

VARIABLES
    clock,           \* the wall clock, common to all processes
    users,           \* table users: the registered accounts and their rows
    sessions,        \* table sessions: id -> row
    nextSid,         \* sessions_id_seq
    nextSecret,      \* the next secret totp.Generate returns
    challenges,      \* MemoryChallengeStore.items of each shell
    op               \* the service call each shell is executing

tables == <<users, sessions, nextSid>>
vars == <<clock, users, sessions, nextSid, nextSecret, challenges, op>>

SessionIds == 1 .. MaxSessions
Challenge == [id : 1 .. MaxChallenges, acct : Accounts, expires : Nat]

(***************************************************************************)
(* The stack of a service call. at is the time it read the clock first,    *)
(* good the verdict on the password, until the idle deadline to write and  *)
(* ref a session to touch, revoke or keep, or the challenge being          *)
(* answered. pc is what the call does next.                                *)
(***************************************************************************)
PCs == {"idle", "clearLock", "verify",
        "loadUser", "checkCode", "codeFailed", "codeLogin",
        "save", "confirm", "disable", "touch", "revoke"}

Call == [pc : PCs, acct : Accounts \cup {NoAccount}, row : User, at : Nat,
         good : BOOLEAN, until : Nat, ref : Nat]

Idle == [pc |-> "idle", acct |-> NoAccount, row |-> NewUser(0), at |-> Unset,
         good |-> FALSE, until |-> Unset, ref |-> 0]

Running(p, pc) == op[p].pc = pc
Ready(p) == Running(p, "idle")
Return(p) == op' = [op EXCEPT ![p] = Idle]

\* The call of shell p goes on to pc with row as its copy of account a's row.
Proceed(p, pc, a, row, ref) ==
    op' = [op EXCEPT ![p] = [Idle EXCEPT !.pc = pc, !.acct = a,
                                         !.row = row, !.ref = ref]]

\* The times the clock may have shown since the call of p began.
Elapsed(p) == op[p].at .. clock

(***************************************************************************)
(* The statements of internal/storage/postgres.                            *)
(***************************************************************************)
Insert(table, key, row) ==
    [k \in DOMAIN table \cup {key} |-> IF k = key THEN row ELSE table[k]]

\* UserRepository.Update: every column is overwritten, whatever the row holds.
UpdateUser(a, row) == users' = [users EXCEPT ![a] = row]

\* SessionRepository.revokeMatching; keep = 0 spares none.
RevokeMatching(a, keep) ==
    sessions' = [i \in DOMAIN sessions |->
                   IF sessions[i].owner = a /\ (keep = 0 \/ i # keep)
                   THEN [sessions[i] EXCEPT !.revoked = TRUE]
                   ELSE sessions[i]]

\* Mutant: Touch without "AND revoked_at IS NULL".
TouchAnySession(id, idle) ==
    sessions' = [i \in DOMAIN sessions |->
                   IF i = id THEN [sessions[i] EXCEPT !.idle = idle]
                             ELSE sessions[i]]

\* SessionRepository.Touch: no row is updated when it is revoked or gone.
TouchSession(id, idle) ==
    sessions' = [i \in DOMAIN sessions |->
                   IF i = id /\ ~sessions[i].revoked
                   THEN [sessions[i] EXCEPT !.idle = idle]
                   ELSE sessions[i]]

\* SessionRepository.Revoke
RevokeSession(id) ==
    sessions' = [i \in DOMAIN sessions |->
                   IF i = id THEN [sessions[i] EXCEPT !.revoked = TRUE]
                             ELSE sessions[i]]

\* Mutant: the idle deadline is compared one tick early.
PurgeableEarly(session, olderThan) ==
    session.revoked \/ session.idle <= olderThan + 1 \/ session.abs <= olderThan

\* The WHERE clause of SessionRepository.DeleteExpired.
Purgeable(session, olderThan) ==
    session.revoked \/ session.idle <= olderThan \/ session.abs <= olderThan

PurgeableIds == {i \in DOMAIN sessions : Purgeable(sessions[i], clock)}

\* SessionRepository.DeleteExpired. The rows that are gone were purgeable when
\* the statement began; a row that became so since is not among them.
DeleteExpired(gone) ==
    sessions' = [i \in DOMAIN sessions \ gone |-> sessions[i]]

(***************************************************************************)
(* MemoryChallengeStore                                                    *)
(***************************************************************************)
Unexpired(c) == c.expires > clock

SaveChallenge(p, c) ==
    challenges' = [challenges EXCEPT
        ![p] = {d \in @ : Unexpired(d) /\ d.id # c.id} \cup {c}]

\* Mutant: the challenge stays in the store.
KeepChallenge(p, id) == UNCHANGED challenges

DeleteChallenge(p, id) ==
    challenges' = [challenges EXCEPT ![p] = {d \in @ : d.id # id}]

(***************************************************************************)
(* The two transactions that end a login attempt. now is read from the     *)
(* clock after the account row, so it may be older than the commit.        *)
(***************************************************************************)
\* Mutant: a lock leaves the sessions alone.
RecordFailureSparingSessions(a, row, now) ==
    /\ UpdateUser(a, RegisterFailure(row, now))
    /\ UNCHANGED <<sessions, nextSid>>

RecordFailure(a, row, now) ==
    /\ UpdateUser(a, RegisterFailure(row, now))
    /\ IF TripsLock(row) THEN RevokeMatching(a, 0) ELSE UNCHANGED sessions
    /\ UNCHANGED nextSid

\* Mutant: the sequence behind the session ids does not advance.
CompleteLoginSameId(a, row, now) ==
    /\ nextSid \in SessionIds
    /\ UpdateUser(a, ClearLock(row))
    /\ sessions' = Insert(sessions, nextSid, NewSession(a, now))
    /\ UNCHANGED nextSid

CompleteLogin(a, row, now) ==
    /\ nextSid \in SessionIds
    /\ UpdateUser(a, ClearLock(row))
    /\ sessions' = Insert(sessions, nextSid, NewSession(a, now))
    /\ nextSid' = nextSid + 1

(***************************************************************************)
(* Register                                                                *)
(***************************************************************************)
Register(p, a) ==
    /\ Ready(p)
    /\ a \notin DOMAIN users
    /\ users' = Insert(users, a, NewUser(HashCost[p]))
    /\ UNCHANGED <<clock, sessions, nextSid, nextSecret, challenges, op>>

(***************************************************************************)
(* Authenticate                                                            *)
(***************************************************************************)
\* FindByUsername, and the account is not locked. good: bcrypt will accept the password.
AuthenticateLoad(p, a, good) ==
    /\ Ready(p)
    /\ a \in DOMAIN users
    /\ ~IsLocked(users[a], clock)
    /\ op' = [op EXCEPT ![p] =
                [Idle EXCEPT !.pc = IF LockRanOut(users[a], clock)
                                    THEN "clearLock" ELSE "verify",
                             !.acct = a,
                             !.row = ClearExpiredLock(users[a], clock),
                             !.at = clock,
                             !.good = good]]
    /\ UNCHANGED <<clock, tables, nextSecret, challenges>>

\* persistUser after ClearExpiredLock changed the copy.
ClearLockSave(p) ==
    /\ Running(p, "clearLock")
    /\ UpdateUser(op[p].acct, op[p].row)
    /\ op' = [op EXCEPT ![p].pc = "verify"]
    /\ UNCHANGED <<clock, sessions, nextSid, nextSecret, challenges>>

PasswordFailed(p) ==
    /\ Running(p, "verify")
    /\ ~op[p].good
    /\ \E now \in Elapsed(p) : RecordFailure(op[p].acct, op[p].row, now)
    /\ Return(p)
    /\ UNCHANGED <<clock, nextSecret, challenges>>

\* The hash is upgraded to this process's cost and persisted right away. When
\* bcrypt fails the login goes on without.
Rehash(p) ==
    /\ Running(p, "verify")
    /\ op[p].good
    /\ NeedsRehash(op[p].row, HashCost[p])
    /\ LET row == [op[p].row EXCEPT !.cost = HashCost[p]]
       IN  /\ UpdateUser(op[p].acct, row)
           /\ op' = [op EXCEPT ![p].row = row]
    /\ UNCHANGED <<clock, sessions, nextSid, nextSecret, challenges>>

PasswordAccepted(p) == Running(p, "verify") /\ op[p].good

\* Two factor is on: the login is parked under a fresh challenge id. Its
\* deadline counts from the time Authenticate began.
Park(p, id) ==
    /\ PasswordAccepted(p)
    /\ op[p].row.enabled
    /\ \A d \in challenges[p] : Unexpired(d) => d.id # id
    /\ SaveChallenge(p, [id |-> id, acct |-> op[p].acct,
                         expires |-> op[p].at + ChallengeTTL])
    /\ Return(p)
    /\ UNCHANGED <<clock, tables, nextSecret>>

\* Mutant: the password alone is enough with two factor on.
PasswordLoginWithoutCode(p) ==
    /\ PasswordAccepted(p)
    /\ \E now \in Elapsed(p) : CompleteLogin(op[p].acct, op[p].row, now)
    /\ Return(p)
    /\ UNCHANGED <<clock, nextSecret, challenges>>

PasswordLogin(p) ==
    /\ PasswordAccepted(p)
    /\ ~op[p].row.enabled
    /\ \E now \in Elapsed(p) : CompleteLogin(op[p].acct, op[p].row, now)
    /\ Return(p)
    /\ UNCHANGED <<clock, nextSecret, challenges>>

(***************************************************************************)
(* CompleteTOTPChallenge                                                   *)
(***************************************************************************)
\* challenges.Find: the challenge is live. Until the account row arrives and the
\* clock is read again, time may pass.
FindChallenge(p, c) ==
    /\ Ready(p)
    /\ c \in challenges[p]
    /\ Unexpired(c)
    /\ Proceed(p, "loadUser", c.acct, NewUser(0), c.id)
    /\ UNCHANGED <<clock, tables, nextSecret, challenges>>

\* challenges.Find of one that has expired.
ChallengeExpired(p, c) ==
    /\ Ready(p)
    /\ c \in challenges[p]
    /\ ~Unexpired(c)
    /\ DeleteChallenge(p, c.id)
    /\ UNCHANGED <<clock, tables, nextSecret, op>>

\* users.FindByID
LoadUser(p) ==
    /\ Running(p, "loadUser")
    /\ Proceed(p, "checkCode", op[p].acct, users[op[p].acct], op[p].ref)
    /\ UNCHANGED <<clock, tables, nextSecret, challenges>>

\* The challenge is dropped and the call over.
Refuse(p) ==
    /\ DeleteChallenge(p, op[p].ref)
    /\ Return(p)
    /\ UNCHANGED <<clock, tables, nextSecret>>

LoadUserFailed(p) == Running(p, "loadUser") /\ Refuse(p)

\* The account is locked, or two factor was turned off.
ChallengeRefused(p) ==
    /\ Running(p, "checkCode")
    /\ IsLocked(op[p].row, clock) \/ ~op[p].row.enabled
    /\ Refuse(p)

\* Mutant: a parked login may be completed during a lock.
PassesWhileLocked(p) == Running(p, "checkCode") /\ op[p].row.enabled

\* The row that was read is neither locked now nor without two factor.
Passes(p) ==
    /\ Running(p, "checkCode")
    /\ ~IsLocked(op[p].row, clock)
    /\ op[p].row.enabled

\* The secret cannot be decrypted; the challenge stays.
SecretUnreadable(p) ==
    /\ Passes(p)
    /\ ~Decrypts(op[p].row, KeyOf[p])
    /\ Return(p)
    /\ UNCHANGED <<clock, tables, nextSecret, challenges>>

\* The verdict on the code is reached now, on the row that was read.
Decide(p, pc) == op' = [op EXCEPT ![p].pc = pc, ![p].at = clock]

\* The challenge goes back into the store, also when it has expired meanwhile.
CodeWrong(p, code) ==
    /\ Passes(p)
    /\ Decrypts(op[p].row, KeyOf[p])
    /\ ~VerifyCode(op[p].row, code)
    /\ \E c \in challenges[p] : c.id = op[p].ref /\ SaveChallenge(p, c)
    /\ Decide(p, "codeFailed")
    /\ UNCHANGED <<clock, tables, nextSecret>>

\* recordFailure, then the challenge goes if the account is now locked; not so
\* when COMMIT took effect but its acknowledgement was lost.
CodeFailed(p, acked) ==
    /\ Running(p, "codeFailed")
    /\ \E now \in Elapsed(p) : RecordFailure(op[p].acct, op[p].row, now)
    /\ IF acked /\ TripsLock(op[p].row)
       THEN DeleteChallenge(p, op[p].ref)
       ELSE UNCHANGED challenges
    /\ Return(p)
    /\ UNCHANGED <<clock, nextSecret>>

CodeRight(p, code) ==
    /\ Passes(p)
    /\ Decrypts(op[p].row, KeyOf[p])
    /\ VerifyCode(op[p].row, code)
    /\ DeleteChallenge(p, op[p].ref)
    /\ Decide(p, "codeLogin")
    /\ UNCHANGED <<clock, tables, nextSecret>>

CodeLogin(p) ==
    /\ Running(p, "codeLogin")
    /\ \E now \in Elapsed(p) : CompleteLogin(op[p].acct, op[p].row, now)
    /\ Return(p)
    /\ UNCHANGED <<clock, nextSecret, challenges>>

AbandonChallenge(p, c) ==
    /\ Ready(p)
    /\ c \in challenges[p]
    /\ DeleteChallenge(p, c.id)
    /\ UNCHANGED <<clock, tables, nextSecret, op>>

(***************************************************************************)
(* Two factor enrollment                                                   *)
(***************************************************************************)
\* Mutant: an account with two factor on may start over.
BeginLoadAgain(p, a) ==
    /\ Ready(p)
    /\ a \in DOMAIN users
    /\ nextSecret <= MaxSecrets
    /\ nextSecret' = nextSecret + 1
    /\ Proceed(p, "save", a,
               [users[a] EXCEPT !.secret = nextSecret, !.key = KeyOf[p],
                                !.enabled = FALSE], 0)
    /\ UNCHANGED <<clock, tables, challenges>>

\* Mutant: two factor is on before a code was checked.
BeginLoadEnabled(p, a) ==
    /\ Ready(p)
    /\ a \in DOMAIN users
    /\ ~users[a].enabled
    /\ nextSecret <= MaxSecrets
    /\ nextSecret' = nextSecret + 1
    /\ Proceed(p, "save", a,
               [users[a] EXCEPT !.secret = nextSecret, !.key = KeyOf[p],
                                !.enabled = TRUE], 0)
    /\ UNCHANGED <<clock, tables, challenges>>

BeginLoad(p, a) ==
    /\ Ready(p)
    /\ a \in DOMAIN users
    /\ ~users[a].enabled
    /\ nextSecret <= MaxSecrets
    /\ nextSecret' = nextSecret + 1
    /\ Proceed(p, "save", a,
               [users[a] EXCEPT !.secret = nextSecret, !.key = KeyOf[p],
                                !.enabled = FALSE], 0)
    /\ UNCHANGED <<clock, tables, challenges>>

CancelLoad(p, a) ==
    /\ Ready(p)
    /\ a \in DOMAIN users
    /\ HasPendingTOTPEnrollment(users[a])
    /\ Proceed(p, "save", a,
               [users[a] EXCEPT !.secret = NoSecret, !.key = NoKey], 0)
    /\ UNCHANGED <<clock, tables, nextSecret, challenges>>

\* persistUser, the end of BeginTOTPEnrollment and CancelTOTPEnrollment.
SaveRow(p) ==
    /\ Running(p, "save")
    /\ UpdateUser(op[p].acct, op[p].row)
    /\ Return(p)
    /\ UNCHANGED <<clock, sessions, nextSid, nextSecret, challenges>>

\* A shell keeps its own session or, with 0, none.
Keepable(a) == {0} \cup {i \in DOMAIN sessions : sessions[i].owner = a}

ConfirmLoad(p, a, code, keep) ==
    /\ Ready(p)
    /\ a \in DOMAIN users
    /\ HasPendingTOTPEnrollment(users[a])
    /\ Decrypts(users[a], KeyOf[p])
    /\ VerifyCode(users[a], code)
    /\ keep \in Keepable(a)
    /\ Proceed(p, "confirm", a, [users[a] EXCEPT !.enabled = TRUE], keep)
    /\ UNCHANGED <<clock, tables, nextSecret, challenges>>

DisableLoad(p, a, code, keep) ==
    /\ Ready(p)
    /\ a \in DOMAIN users
    /\ users[a].enabled
    /\ Decrypts(users[a], KeyOf[p])
    /\ VerifyCode(users[a], code)
    /\ keep \in Keepable(a)
    /\ Proceed(p, "disable", a,
               [users[a] EXCEPT !.enabled = FALSE, !.secret = NoSecret,
                                !.key = NoKey], keep)
    /\ UNCHANGED <<clock, tables, nextSecret, challenges>>

\* The transaction both end with: the row, and the other sessions revoked.
PostureSave(p) ==
    /\ UpdateUser(op[p].acct, op[p].row)
    /\ RevokeMatching(op[p].acct, op[p].ref)
    /\ Return(p)
    /\ UNCHANGED <<clock, nextSid, nextSecret, challenges>>

ConfirmSave(p) == Running(p, "confirm") /\ PostureSave(p)

DisableSave(p) == Running(p, "disable") /\ PostureSave(p)

(***************************************************************************)
(* SessionManager.Resolve and Revoke                                       *)
(***************************************************************************)
ResolveLoad(p, i) ==
    /\ Ready(p)
    /\ i \in DOMAIN sessions
    /\ IsActive(sessions[i], clock)
    /\ op' = [op EXCEPT ![p] =
                [Idle EXCEPT !.pc = "touch", !.acct = sessions[i].owner, !.ref = i,
                             !.until = IdleDeadline(sessions[i], clock)]]
    /\ UNCHANGED <<clock, tables, nextSecret, challenges>>

Touch(p) ==
    /\ Running(p, "touch")
    /\ TouchSession(op[p].ref, op[p].until)
    /\ Return(p)
    /\ UNCHANGED <<clock, users, nextSid, nextSecret, challenges>>

LogoutLoad(p, i) ==
    /\ Ready(p)
    /\ i \in DOMAIN sessions
    /\ ~sessions[i].revoked
    /\ op' = [op EXCEPT ![p] = [Idle EXCEPT !.pc = "revoke",
                                           !.acct = sessions[i].owner, !.ref = i]]
    /\ UNCHANGED <<clock, tables, nextSecret, challenges>>

LogoutRevoke(p) ==
    /\ Running(p, "revoke")
    /\ RevokeSession(op[p].ref)
    /\ Return(p)
    /\ UNCHANGED <<clock, users, nextSid, nextSecret, challenges>>

(***************************************************************************)
(* Failures and time                                                       *)
(***************************************************************************)
\* The next database call of p fails: the call returns the error, a
\* transaction is rolled back, and what it had computed is lost. LoadUserFailed
\* is the failure of FindByID; a code is checked without the database.
DBError(p) ==
    /\ ~Ready(p) /\ ~Running(p, "loadUser") /\ ~Running(p, "checkCode")
    /\ Return(p)
    /\ UNCHANGED <<clock, tables, nextSecret, challenges>>

\* The process ends or is killed, and is started again: its stack and its
\* challenges are gone. app.New purges dead sessions; a failure to purge is
\* only a warning.
Restart(p, gone) ==
    /\ op' = [op EXCEPT ![p] = Idle]
    /\ challenges' = [challenges EXCEPT ![p] = {}]
    /\ gone \subseteq PurgeableIds
    /\ DeleteExpired(gone)
    /\ UNCHANGED <<clock, users, nextSid, nextSecret>>

Tick ==
    /\ clock < MaxClock
    /\ clock' = clock + 1
    /\ UNCHANGED <<tables, nextSecret, challenges, op>>

(***************************************************************************)
(* The specification                                                       *)
(***************************************************************************)
EmptyTable == [k \in {} |-> 0]

Init ==
    /\ clock = 1
    /\ users = EmptyTable
    /\ sessions = EmptyTable
    /\ nextSid = 1
    /\ nextSecret = 1
    /\ challenges = [p \in Shells |-> {}]
    /\ op = [p \in Shells |-> Idle]

Codes == 0 .. nextSecret - 1

LoginStep(p) ==
    \/ \E a \in Accounts : Register(p, a)
    \/ \E a \in Accounts, good \in BOOLEAN : AuthenticateLoad(p, a, good)
    \/ ClearLockSave(p)
    \/ PasswordFailed(p)
    \/ Rehash(p)
    \/ \E id \in 1 .. MaxChallenges : Park(p, id)
    \/ PasswordLogin(p)

\* What CompleteTOTPChallenge and AbandonChallenge do without writing a table.
AnswerStep(p) ==
    \/ \E c \in challenges[p] :
          FindChallenge(p, c) \/ ChallengeExpired(p, c) \/ AbandonChallenge(p, c)
    \/ LoadUser(p)
    \/ LoadUserFailed(p)
    \/ ChallengeRefused(p)
    \/ SecretUnreadable(p)
    \/ \E code \in Codes : CodeWrong(p, code) \/ CodeRight(p, code)

ChallengeStep(p) ==
    \/ AnswerStep(p)
    \/ \E acked \in BOOLEAN : CodeFailed(p, acked)
    \/ CodeLogin(p)

EnrollmentStep(p) ==
    \/ \E a \in Accounts : BeginLoad(p, a)
    \/ \E a \in Accounts : CancelLoad(p, a)
    \/ SaveRow(p)
    \/ \E a \in Accounts, code \in Codes : \E keep \in Keepable(a) :
          ConfirmLoad(p, a, code, keep)
    \/ ConfirmSave(p)
    \/ \E a \in Accounts, code \in Codes : \E keep \in Keepable(a) :
          DisableLoad(p, a, code, keep)
    \/ DisableSave(p)

SessionStep(p) ==
    \/ \E i \in DOMAIN sessions : ResolveLoad(p, i)
    \/ Touch(p)
    \/ \E i \in DOMAIN sessions : LogoutLoad(p, i)
    \/ LogoutRevoke(p)

FailureStep(p) ==
    \/ DBError(p)
    \/ \E gone \in SUBSET PurgeableIds : Restart(p, gone)

Next ==
    \/ Tick
    \/ \E p \in Shells : \/ LoginStep(p)
                         \/ ChallengeStep(p)
                         \/ EnrollmentStep(p)
                         \/ SessionStep(p)
                         \/ FailureStep(p)

Spec == Init /\ [][Next]_vars

(***************************************************************************)
(* Properties that hold for any number of shells                           *)
(***************************************************************************)
\* Every variable keeps its type; a session id is below the sequence, and a
\* call that works on an account works on a registered one.
TypeOK ==
    /\ clock \in Nat \ {Unset}
    /\ DOMAIN users \subseteq Accounts
    /\ users \in [DOMAIN users -> User]
    /\ nextSid \in Nat \ {0}
    /\ DOMAIN sessions \subseteq 1 .. nextSid - 1
    /\ sessions \in [DOMAIN sessions -> Session(DOMAIN users)]
    /\ nextSecret \in Nat \ {NoSecret}
    /\ challenges \in [Shells -> SUBSET Challenge]
    /\ \A p \in Shells : \A c \in challenges[p] : c.acct \in DOMAIN users
    /\ op \in [Shells -> Call]
    /\ \A p \in Shells : ~Ready(p) => op[p].acct \in DOMAIN users

\* The CHECK constraints of 0001_init.sql, and more: two factor on means there
\* is a secret, the secret is sealed under some key, and the failure counter
\* stays below the limit that would have reset it.
RowCoherent(row) ==
    /\ row.enabled => row.secret # NoSecret
    /\ row.secret = NoSecret <=> row.key = NoKey
    /\ row.failed < MaxAttempts

\* Whatever stale copies the shells write back over each other, every account
\* row, and every copy on its way to becoming one, satisfies the constraints:
\* users.Update is never rejected by the database.
UserRowsCoherent ==
    /\ \A a \in DOMAIN users : RowCoherent(users[a])
    /\ \A p \in Shells : RowCoherent(op[p].row)

\* While a lock is open the counter is 0, also in a copy about to be written:
\* after the lock it takes MaxAttempts further failures to lock again, and no
\* failure is counted during it.
LockRestartsCounter ==
    /\ \A a \in DOMAIN users : IsLocked(users[a], clock) => users[a].failed = 0
    /\ \A p \in Shells : IsLocked(op[p].row, clock) => op[p].row.failed = 0

\* No deadline is ever further away than its configured window, whatever
\* copies are written back late: a lock ends within LockDuration, a session
\* within IdleTimeout of now and MaxLifetime of its issue, a parked login
\* within ChallengeTTL.
DeadlinesBounded ==
    /\ \A a \in DOMAIN users : users[a].lockedUntil <= clock + LockDuration
    /\ \A p \in Shells : /\ op[p].row.lockedUntil <= clock + LockDuration
                         /\ op[p].until <= clock + IdleTimeout
                         /\ \A c \in challenges[p] : c.expires <= clock + ChallengeTTL
    /\ \A i \in DOMAIN sessions : /\ sessions[i].idle <= sessions[i].abs
                                  /\ sessions[i].idle <= clock + IdleTimeout
                                  /\ sessions[i].abs <= clock + MaxLifetime

\* A parked login is used at most once: it is out of the store before the
\* login it pays for commits, and stays in the store while an answer to it is
\* examined and a wrong one counted.
ParkedLoginConsumed ==
    \A p \in Shells :
        /\ Running(p, "codeLogin") => \A c \in challenges[p] : c.id # op[p].ref
        /\ op[p].pc \in {"loadUser", "checkCode", "codeFailed"} =>
              \E c \in challenges[p] : c.id = op[p].ref

\* Revocation is final: while the row exists its owner and absolute deadline
\* never change, and once revoked nothing of it changes, not even by the Touch
\* of a Resolve that had found it alive.
RevocationIsFinal ==
    [][\A i \in DOMAIN sessions \cap DOMAIN sessions' :
          /\ sessions'[i].owner = sessions[i].owner
          /\ sessions'[i].abs = sessions[i].abs
          /\ sessions[i].revoked => sessions'[i] = sessions[i]]_vars

\* The purge of a starting process, and every other step, deletes only rows
\* that no token can resolve any more.
PurgeSparesLive ==
    [][\A i \in DOMAIN sessions \ DOMAIN sessions' :
          ~IsActive(sessions[i], clock)]_vars

(***************************************************************************)
(* Properties of a shell that has the database to itself                   *)
(***************************************************************************)
\* "Locking also kills that account's live sessions": no session of a locked
\* account is usable, so none was left alive and none was issued since.
LockedHasNoLiveSession ==
    \A a \in DOMAIN users : IsLocked(users[a], clock) =>
        \A i \in DOMAIN sessions :
            sessions[i].owner = a => ~IsActive(sessions[i], clock)

\* No session is issued for an account whose lock is open, on either path of a
\* login: "even the right password is refused while the lock is open".
NoLoginWhileLocked ==
    [][\A i \in DOMAIN sessions' \ DOMAIN sessions :
          ~IsLocked(users[sessions'[i].owner], clock)]_vars

\* A session of an account with two factor on is only issued to a caller who
\* gave a code of the secret that is enrolled at that moment.
SecondFactorHeld ==
    [][\A i \in DOMAIN sessions' \ DOMAIN sessions :
          LET a == sessions'[i].owner
          IN  users[a].enabled =>
                \E p \in Shells : /\ Running(p, "codeLogin")
                                  /\ op[p].acct = a
                                  /\ op[p].row.secret = users[a].secret]_vars

\* "Turning it off needs a valid code too": the only step that turns two factor
\* off is the commit of a DisableTOTP whose code was checked.
TwoFactorOffNeedsCode ==
    [][\A a \in DOMAIN users :
          users[a].enabled /\ ~users'[a].enabled
             => \E p \in Shells : Running(p, "disable") /\ op[p].acct = a]_vars

(***************************************************************************)
(* Properties of shells with different AUTH_SECRET_KEYs                     *)
(***************************************************************************)
\* A code is accepted or counted as a failure only by a process that can read
\* the secret: under a changed key nobody is locked out, logged in or enrolled
\* on a verdict about a secret the process never saw.
VerdictUnderOwnKey ==
    \A p \in Shells :
        Running(p, "codeFailed") \/ Running(p, "codeLogin") \/ Running(p, "confirm")
            => op[p].row.key = KeyOf[p]

\* "Changing the key later means existing 2FA enrollments must run enable-2fa
\* again": an idle shell whose key cannot read an enrollment can start a new one.
StaleEnrollmentCanBeRedone ==
    \A p \in Shells, a \in DOMAIN users :
        Ready(p) /\ nextSecret <= MaxSecrets /\ ~Decrypts(users[a], KeyOf[p])
            => ENABLED BeginLoad(p, a)

=============================================================================
