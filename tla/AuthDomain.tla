----------------------------- MODULE AuthDomain -----------------------------
(***************************************************************************)
(* The entities of internal/domain and the pure rules of internal/auth    *)
(* that read or change them: the account row with its lockout policy and  *)
(* its two factor fields, the session with its two deadlines, and the     *)
(* verification of a one time code.                                       *)
(*                                                                         *)
(* Data is abstracted as follows.                                          *)
(*   - A time is a natural number of ticks; 0 (Unset) is Go's nil pointer, *)
(*     so the clock starts at 1.                                           *)
(*   - A TOTP secret is a serial number; 0 is the empty string. A code is  *)
(*     the number of the secret it was computed from; 0 is a string that   *)
(*     is no code of any secret. The 30 second period and its skew are     *)
(*     below the resolution of the clock.                                  *)
(*   - The ciphertext in users.totp_secret is the pair (secret, key): the  *)
(*     plaintext and the AUTH_SECRET_KEY it was sealed under.              *)
(*   - A password hash is represented by its bcrypt cost, the only part of *)
(*     it that ever changes (no operation changes a password).             *)
(*   - last_login_at, totp_confirmed_at, updated_at, last_seen_at,         *)
(*     client_info and Challenge.Attempts are only ever displayed and are  *)
(*     left out.                                                           *)
(***************************************************************************)
EXTENDS Naturals

CONSTANTS
    MaxAttempts,     \* AUTH_MAX_FAILED_ATTEMPTS, LockoutPolicy.MaxAttempts
    LockDuration,    \* AUTH_LOCKOUT_DURATION, LockoutPolicy.Duration
    IdleTimeout,     \* SESSION_IDLE_TIMEOUT
    MaxLifetime,     \* SESSION_MAX_LIFETIME
    ChallengeTTL     \* AUTH_TOTP_CHALLENGE_TTL

\* What config.Validate accepts: at least one attempt, positive durations, and
\* a session lifetime that is not below the idle timeout.
ASSUME ConfigValid ==
    /\ MaxAttempts \in Nat /\ MaxAttempts >= 1
    /\ LockDuration \in Nat /\ LockDuration >= 1
    /\ IdleTimeout \in Nat /\ IdleTimeout >= 1
    /\ MaxLifetime \in Nat /\ MaxLifetime >= IdleTimeout
    /\ ChallengeTTL \in Nat /\ ChallengeTTL >= 1

Unset == 0
NoSecret == 0
NoKey == 0

(***************************************************************************)
(* domain.User                                                             *)
(***************************************************************************)
User == [ secret      : Nat,      \* TOTPSecret: the sealed plaintext ...
          key         : Nat,      \* ... and the key it is sealed under
          enabled     : BOOLEAN,  \* TOTPEnabled
          failed      : Nat,      \* FailedLoginAttempts
          lockedUntil : Nat,      \* LockedUntil
          cost        : Nat ]     \* cost of PasswordHash

NewUser(cost) ==
    [secret |-> NoSecret, key |-> NoKey, enabled |-> FALSE,
     failed |-> 0, lockedUntil |-> Unset, cost |-> cost]

IsLocked(user, now) == user.lockedUntil # Unset /\ user.lockedUntil > now

HasPendingTOTPEnrollment(user) == user.secret # NoSecret /\ ~user.enabled

(***************************************************************************)
(* auth.LockoutPolicy                                                      *)
(***************************************************************************)
\* Mutant: the limit itself still does not lock.
TripsLockLate(user) == user.failed + 1 > MaxAttempts

TripsLock(user) == user.failed + 1 >= MaxAttempts

\* Mutant: the counter does not restart with the lock.
RegisterFailureKeepingCount(user, now) ==
    IF TripsLock(user)
    THEN [user EXCEPT !.lockedUntil = now + LockDuration]
    ELSE [user EXCEPT !.failed = @ + 1]

RegisterFailure(user, now) ==
    IF TripsLock(user)
    THEN [user EXCEPT !.failed = 0, !.lockedUntil = now + LockDuration]
    ELSE [user EXCEPT !.failed = @ + 1]

LockRanOut(user, now) == user.lockedUntil # Unset /\ user.lockedUntil <= now

\* Mutant: only the lock is cleared, not the counter.
ClearLockOnly(user) == [user EXCEPT !.lockedUntil = Unset]

\* LockoutPolicy.Reset, and the effect of ClearExpiredLock.
ClearLock(user) == [user EXCEPT !.failed = 0, !.lockedUntil = Unset]

ClearExpiredLock(user, now) == IF LockRanOut(user, now) THEN ClearLock(user) ELSE user

(***************************************************************************)
(* auth.BcryptHasher, auth.AESCipher and auth.GoogleAuthenticator          *)
(***************************************************************************)
NeedsRehash(user, cost) == user.cost < cost

\* Mutant: a ciphertext sealed under another key is accepted.
DecryptsAnything(user, key) == TRUE

Decrypts(user, key) == user.secret = NoSecret \/ user.key = key

VerifyCode(user, code) == user.secret # NoSecret /\ code = user.secret

(***************************************************************************)
(* domain.Session                                                          *)
(***************************************************************************)
Session(Owner) ==
    [owner : Owner, idle : Nat, abs : Nat, revoked : BOOLEAN]

Earlier(s, t) == IF s < t THEN s ELSE t

ExpiresAt(session) == Earlier(session.idle, session.abs)

IsActive(session, now) == ~session.revoked /\ ExpiresAt(session) > now

\* Mutant: the idle deadline is not capped by the absolute one.
IdleDeadlineUncapped(session, now) == now + IdleTimeout

\* The idle deadline Resolve writes when a session is used at now.
IdleDeadline(session, now) == Earlier(now + IdleTimeout, session.abs)

NewSession(owner, now) ==
    [owner |-> owner, idle |-> now + IdleTimeout,
     abs |-> now + MaxLifetime, revoked |-> FALSE]
=============================================================================
