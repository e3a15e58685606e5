# TLA+ for authcli

Specifications, model checking and proofs for `authcli`, an interactive command
line program that registers and authenticates users against PostgreSQL, with
lockout, sessions and TOTP two factor authentication. Every definition is a
translation of the Go code and SQL; `PROJECT.json` gives the lines of each one.

Check it with TLC and TLAPS:

    tlc -workers 2 -config two_shells.cfg MCAuthService
    tlapm AuthServiceProofs.tla

## 1. The system

Several `authcli` processes ("shells"), each single threaded towards the
service, share one PostgreSQL database. There is no server of their own between
them: all coordination is what the SQL statements do.

| component | code | state | operations |
|---|---|---|---|
| authentication service | `internal/auth/service.go`, `lockout.go` | none of its own; works on a private copy of the account row during a call | Register, Authenticate, CompleteTOTPChallenge, AbandonChallenge, Begin/Confirm/CancelTOTPEnrollment, DisableTOTP, ResolveSession, Logout, PurgeExpiredSessions |
| session manager | `internal/auth/session.go`, `postgres/session_repository.go` | table `sessions` | Issue, Resolve (find, then touch), Revoke, RevokeAllForUser, RevokeOthers, PurgeExpired |
| challenge store | `internal/auth/challenge.go` | logins parked for a code, in the memory of one process | Save (evicts), Find, Delete |
| account repository | `postgres/user_repository.go`, `tx.go` | table `users` | Create, FindBy..., Update (all columns), WithinTx |
| audit trail | `postgres/event_repository.go` | table `auth_events` | Append, inside a transaction or best effort |
| secrets | `totp.go`, `cipher.go`, `password.go` | `AUTH_SECRET_KEY` and `AUTH_BCRYPT_COST` of the process | Verify, Encrypt/Decrypt, NeedsRehash |
| migrations | `postgres/migrate.go` | table `schema_migrations`, an advisory lock | Migrate |
| connection | `postgres/db.go` | the time waited and the next delay | Open, waitForDatabase |
| shell | `internal/cli` | cached token and user, prompts in progress | the read-dispatch loop, commands, signals, shutdown |
| application | `internal/app`, `cmd/authcli`, `internal/config` | configuration | start (connect, migrate, purge), stop |

How they interact: a shell calls the service; the service reads the account row
with a plain `SELECT`, decides on its copy, and writes the copy back with
`users.Update`, alone or in a transaction together with session rows and audit
entries. There is no row version and no `SELECT ... FOR UPDATE`, so everything
that happens to the row in between is overwritten. The challenge store is
private to a process and gone when it dies.

What is hard: the interleavings of those read-decide-write calls; a Touch that
arrives after a revocation or a purge; locks, counters and parked logins that
meet with stale copies; errors and kills between two database calls; a COMMIT
whose answer is lost; deadlines at their boundary; processes with different
configurations; several processes migrating at once; transactions that wait for
each other's rows; a database that is away while a process starts. `PROJECT.json` lists these
hazards with their lines and the properties that watch them.

What makes each part correct:

- service: the lock is opened after the configured number of failures, refuses
  everything while it is in force and starts the counting over; two factor is
  turned on and off only by a checked code and cannot be skipped;
- sessions: revocation is final, deadlines never leave their windows, the purge
  deletes nothing alive;
- challenges: one password check pays for at most one session;
- account rows: whatever is written late, the constraints of the schema hold;
- audit trail: counter, lock and two factor flag are explained by it;
- transactions: what they write appears at once or not at all, nobody waits for a
  row forever, and only a purge can be part of a deadlock;
- migrations and start: each migration takes effect once, in order; no process
  serves on an older schema than its binary's, and no start hangs;
- shell: it holds the only copy of the token and never loses it while the session
  lives; leaving, for whatever reason, revokes the session, and a signal makes it
  leave.

## 2. Modules

| module | models | extends |
|---|---|---|
| `AuthDomain` | the entities and the pure rules: account row, lockout policy, session deadlines, code and key checks | |
| `AuthService` | the service of several shells on one database, one action per stretch between two database calls; its properties | `AuthDomain` |
| `AuthAudit` | the composition with table `auth_events`: which step writes which entry, and the outcomes that write only an entry | `AuthService` |
| `PgTx` | the transactions, purges and single statements of the service on PostgreSQL: row locks, snapshots, COMMIT, rollback, deadlock victims; implements `AuthService` | `AuthService` |
| `LoginPromise` | abstract specification: what the documents say of an account's lock, second factor and sessions, every operation taking effect at once | |
| `LoginRefinement` | the refinement mapping from `AuthService` to `LoginPromise` | `AuthService` |
| `Migrations` | `Migrate` by several processes | |
| `Startup` | `app.New` and `authcli migrate` around it: the wait for the database, the schema, the purge, errors, signals and kills on the way | `Migrations` |
| `Shell` | the interactive loop of each process over the service: cached login, commands and their prompts, Ctrl-C, end of input, signals, shutdown | `AuthService` |
| `MCAuthService`, `MCAuthAudit`, `MCPgTx`, `MCShell`, `MCStartup` | values of the constants for TLC | |
| `AuthServiceProofs`, `AuthAuditProofs`, `AuditTrailProofs`, `PgTxProofs`, `LoginRefinementProofs`, `MigrationsProofs`, `StartupProofs`, `ShellProofs` | theorems | |

### AuthService

State and code:

| variable | code |
|---|---|
| `clock` | `clock.Now()`, common to all processes, never going back |
| `users` | table `users`: account -> row (secret and its key, enabled, failed, lockedUntil, hash cost) |
| `sessions`, `nextSid` | table `sessions` and its sequence: id -> owner, idle and absolute deadline, revoked |
| `nextSecret` | secrets are numbered in the order `totp.Generate` returns them |
| `challenges` | `MemoryChallengeStore.items` of each process |
| `op` | the Go stack of the service call a process is in: where it is, its copy of the row, the time it began |

A service call is one action from its start to its first write, where the read
and the decisions that follow it at once are taken (`AuthenticateLoad`,
`ConfirmLoad`, `ResolveLoad`, ...), and one action for each later
write or transaction (`ClearLockSave`, `Rehash`, `RecordFailure`,
`CompleteLogin`, `SaveRow`, `PostureSave`, `Touch`, `LogoutRevoke`).
`CompleteTOTPChallenge` looks at the clock twice, with a `SELECT` in between, so it
has three steps before its first write: `FindChallenge` judges the challenge's
deadline, `LoadUser` reads the row, and `CodeWrong`, `CodeRight`,
`ChallengeRefused` or `SecretUnreadable` judge that row at a later time. Between
them any other shell may act, time may pass (`Tick`), the next database call may
fail (`DBError`: the call returns, its transaction is rolled back) or the
process may be killed and started again (`Restart`, which forgets the stack and
the challenges and may purge). A database call that took effect but whose answer
was lost is the effect followed by `DBError`; where the code does more after the
answer (`CodeFailed`) the action has both outcomes. `now` of a transaction may
be any time since the call began (`Elapsed`), because it is read after the row
and before the commit.

Abstractions, each because no property tells the difference:

- a transaction is one step: `PgTx` has its statements and is proved to implement
  this module (`TransactionsAreAtomic`). `DeleteExpired` may leave dead rows,
  those a concurrent statement had locked or changed;
- a call that only reads has no action in `AuthService`; `AuthAudit` has the
  ones that leave an entry;
- `Authenticate` and `Resolve` look at the clock once, next to their first read,
  and the two are one step. A slow read makes no other decision possible: a row
  that is not locked, or a session that is over, at the earlier of the two moments is
  so at the later one, and the `Touch` of a session revoked or purged meanwhile finds
  no row. It could only give a parked login an earlier deadline, when another shell
  writes the row in between;
- a needed rehash may be left out, as when bcrypt fails, which does not stop a login;
- a password check is the verdict `good`; a code names the secret it was
  computed from, 0 being a string that fits none; a ciphertext is the secret
  with the key it is sealed under; a password hash is its cost;
- session tokens are the ids: no two sessions share one and nobody guesses one;
- columns that are only displayed (last login, client info, attempts of a
  challenge) are left out.

The callers are free: any shell may call any operation with any account,
session, challenge and code. The interactive shell calls them in fewer orders:
`Shell` implements this module (`ShellImplementsService`), so what holds here
holds there.

### PgTx

| variable | code |
|---|---|
| `txn` | per process: the open transaction (`sql.Tx`) of its service call or purge: which statement is next, the account row it has locked, the session rows a statement still has to look at and those it has written and locked |
| `calls` | service calls begun, a bound |

`users` and `sessions` are the committed tables; what a transaction wrote becomes
visible at its COMMIT (`CommitFailure`, `CommitLogin`, ...), which is where the
step of `AuthService` happens; everything before it is a stutter. A statement
that updates several sessions takes its snapshot first (`BeginRevoke`,
`BeginPurge`) and then works off the rows one at a time, in any order, waiting
for a row another transaction has locked and looking at it again afterwards
(`RevokeRow`, `PurgeRow`), as READ COMMITTED does. `Rollback` is any failing
statement: a lost database, a cancelled context or a deadlock victim.
`AnswerCode` is the read and the verdict of `CompleteTOTPChallenge`, which wait for
nobody: a plain `SELECT` takes no row lock.
PostgreSQL's part (locks, waiting, the deadlock detector) is external and taken
from how the SQL uses it.

### LoginPromise and LoginRefinement

`LoginPromise` has no copies, statements or processes: an account with its
counter, lock and two factor flag, the sessions in use, and which accounts'
password or code a caller has proved and not used up. `LoginRefinement` maps the
rows, the sessions that can still be resolved and the stacks to it. The mapping
says when a session is in use: while it is active, and while a `Resolve` that
found it active has not yet done its `Touch`, whose deadline is still to come.
So a session that passes its deadline in that window lapses neither twice nor
comes back after it was over, which is what a shell can rely on.

One shell alone implements it (`KeepsPromise`, checked and proved); two shells do
not, as the findings show.

### AuthAudit

Every step of `AuthService` with its audit entry: entries inside the transaction
are written with it (`Log`), entries of `recordEvent` may be missing (`MayLog`),
because its errors are swallowed. An entry of `recordEvent` is put in the trail
with its operation, though the program writes it a moment later; the properties
compare only the places of entries that are written in transactions.

### Shell

| variable | code |
|---|---|
| `ui` | where each shell is in `Shell.Run`, `dispatch` or a command, the command it was given, and `cli.State`: token, account, and the TOTPEnabled of the cached user |
| `term` | the context of the process is cancelled (SIGTERM, SIGHUP) |
| `faults`, `signals` | bounds, and what leftovers are counted against |

A step that calls the service is a step of `AuthService` conjoined with what it
does to `ui`; a service call that changes nothing (a dead session, a refused
input) is a step of `ui` alone. Between two lines of input the shell is at
"loop"; a cached login is resolved ("revalidate", "reload") before any command is
dispatched, and again by `refreshUser` after two factor changed. Each prompt may
be answered, cancelled (Ctrl-C or an empty line, which are told apart only where
the code does) or ended (`EndOfInput`). A cancelled context makes every further
call fail (`CallFails`) except the shutdown's, which has a context of its own.
`Lost` is a statement whose answer was lost; a secret that cannot be
decrypted (`CodeUnreadable`) counts as a fault too, when its row is read
(`ReadAccount`), because the login it ends stays parked. `Kill` is also the return of `Run` on
a read error that is not the end of input, which skips the shutdown.

One "whoami" stands for all commands of a signed in user that only read, "help"
for those of anybody; what is typed at the prompts of register and login is one
input. The answer to a code prompt is three steps (`AnswerCode`, `ReadAccount`,
`CheckCode`), between which time passes, a signal may come and other shells run. That a readline instance returns
the end of input once closed is taken from how `shell.go` uses the library.
No login starts once all session ids are used up, a bound of the model.

### Migrations

A process takes the advisory lock, reads the recorded versions, applies the
missing ones in order, each in its transaction, and releases the lock. `Fail`
is an error, a cancelled context or a kill at any statement: the transaction is
rolled back and the lock is released by the deferred unlock or with the
connection. `Start` is the next start. The binaries may embed different numbers
of migrations.

### Startup

| variable | code |
|---|---|
| `boot` | where the process is in `app.New`: pinging, sleeping, migrating, purging, serving, or ended |
| `waited`, `backoff` | `waitForDatabase`: time since its start and the next delay, in units of 250 ms |
| `term` | the context is cancelled |

A ping may take up to its own timeout before it fails, so time is not counted by
attempts. A ping that is answered on a cancelled context does not exist; the
deferred unlock of `Migrate` runs on a context of its own (`MigrateStep` under
`term`). Every error return of `New` closes the database, which ends the lock
with the connection. `authcli migrate` is a process that ends after the schema.

## 3. Runs

| run | instance | shows | distinct states |
|---|---|---|---|
| `two_shells` | two shells, one account, different hash costs and keys, limit 2, lock and challenge 1, idle timeout 2, lifetime 3, times 1 and 2, one session, secret and parked login | what survives lost updates: schema constraints, counter restarts with the lock, parked logins used once, revocation final, purge sparing, no verdict on a secret of another key; hashes are upgraded under way | 0.8 million |
| `audit_one_shell` | one shell with its audit trail, limit 2, lock 1, challenge 1, times 1 to 3, one session, two secrets, one parked login, six entries | every deadline bounded, lockout and second factor as documented, and lock and two factor flag as the trail says and the counter too but for one late failure after a lock, when nobody else writes the row: with crashes, slow reads, errors, lost answers and lost entries | 2.9 million |
| `shell_alone` | one interactive shell, two sessions, times 1 to 3, 2 faults, 1 signal, fair | nothing is left behind but by a fault or signal; a signal ends the shell from every prompt and call; lockout, second factor and sessions are those of `LoginPromise` | 0.3 million |
| `shell_pair` | two shells with different keys, two sessions, time stands still, 1 fault | every step is one of `AuthService`; nothing is left behind but by a fault; only its own logout, among its own calls, ends a shell's session | 0.5 million |
| `transactions` | two processes, one account, limit 1, two sessions, one secret, one parked login, different hash costs, five calls, times 1 and 2, any number of kills and failures, fair | the statements implement `AuthService`'s steps; locks are exclusive; a service call waiting for another holds nothing; every call ends | 0.3 million |
| `startup` | an old binary (2 migrations) and a new one (3), two restarts, a timeout of 2 s | migrations once, in order, up to date; the wait bounded; no shell on an old schema; no start hangs | 0.12 million |
| `lost_two_factor`, `login_while_locked`, `lost_failure`, `stale_enrollment` | two shells | violations: see the findings | |
| `signal_strands`, `signal_on_pipe` | one interactive shell; one on a pipe | violations: see the findings | |

Why the bounds suffice. Each conflict in the code involves one account (rows of
different accounts share no statement but the purge, which looks at each row
alone) and two copies of its row, hence two shells. A limit of 2 distinguishes
the first failure from the one that locks. The windows let every deadline be
set, reached and passed, and the idle deadline meet the absolute one; two
secrets (`audit_one_shell`) allow an enrollment to be replaced; two sessions
(the shell runs) allow one to be kept while the other is revoked; six entries
allow a lock, its end and a login after it.
In `two_shells` either shell may be the one that enrolls; the other one, whose key differs,
cannot check codes then but goes on writing the row back. One tick ends every lock and parked login and slides a session
once; that no deadline leaves its window is checked where time is longer, for one
shell, and proved for any number. `shell_pair` is about what two shells do to each
other, so its time stands still; leftovers that outlive a deadline are in
`shell_alone`. In `transactions` a limit of 1 makes every failure a lock that
revokes, so that a revocation of two sessions meets a purge of the same two within
five calls: a registration, two logins, a failure and one more; its windows of 1
make sessions purgeable. `startup` has a timeout of 8 units, the longest delay,
so that all four delays and a wait of several pings fit.

The counter may be one short of the trail after a lock. A login is parked; wrong
passwords lock the account; the parked login's code is answered at the last moment of
its challenge, and when the row has been read the lock has just run out. The failure
is counted on that row, with its old lock, and the next `Authenticate` clears both
(`service.go:322`, `service.go:339`, `service.go:262`). `CounterMatchesTrail` allows
just that: one short, and only after a lock since the last login. `audit_one_shell`
reaches it, with a lock and a challenge of 1.

It needs the lock to be at least as long as the challenge (the defaults
are 15 and 2 minutes, `config.go:96`, `config.go:102`), which `config.Validate` does not
require. With a challenge of 2, a lock of 1 and a limit of 3, TLC finds
`CounterMatchesTrail` violated: several codes are counted on the old lock. The theorems about
the counter (`CounterIsTold`, `LockComesInTime`) therefore assume
`ChallengeTTL <= LockDuration`; no other theorem needs it.

Deadlock is checked everywhere but in `startup`, where all processes may have
ended; in `AuthService` a restart is always possible.

`AuthService` assumes no fairness: nobody has to type anything. `FairStartSpec`
assumes weak fairness of what a starting process does by itself (`Onward`): it
goes on, once signalled its statements fail, and PostgreSQL grants an advisory
lock that stays free. Being signalled, killed or started again is left to the
environment. `FairPgSpec` assumes strong fairness of the statements of each call
(`CallAdvances`), because a row may be locked again and again between two moments
at which it is free: PostgreSQL queues waiters for a row in the order they came,
so each one gets it. It assumes weak fairness of the deadlock detector
(`AbortDeadlocked`), which runs after `deadlock_timeout`. Nobody has to begin a
call. `FairShellSpec` assumes of each
shell only what it does by itself (`Unblocked`): once signalled, its database calls return
with an error, the check of a code it has read the row for goes on to its verdict, and, on a terminal, its closed prompter returns from the read; in
the shutdown or a logout it goes on. No user has to type, and no fault or signal
has to happen.

Every property has a mutant: an operator defined just before the one it mutates
(`TripsLockLate`, `TouchAnySession`, ...) with which TLC finds it violated.

### Findings

1. `lost_two_factor`: a login in one shell writes back the row it read before a
   second shell confirmed two factor, and turns it off without a code
   (`user_repository.go:76`; README.md:231).
2. `login_while_locked`: a login that read the row before the account was locked
   erases the lock and gets a session (`service.go:641`; service_test.go:261).
3. `lost_failure`: two shells failing at once count one failure, so the limit of
   README.md:299 is exceeded (`service.go:593`).
4. `stale_enrollment`: after a change of `AUTH_SECRET_KEY` the documented way
   out, running `enable-2fa` again (README.md:504), is refused
   (`service.go:437`).

5. `signal_strands`: a signal during the check of the session makes `revalidate`
   drop the token, and the shutdown has nothing left to revoke (`shell.go:166`;
   shell.go:243).
6. `signal_on_pipe`: `Close` of the pipe prompter unblocks nothing, so a signalled
   shell waits for its pipe (`prompt.go:152`; shell.go:65).

The first three need two shells on one account at the same time.
`audit_one_shell` checks the same promises for a shell that is alone. The first two
hold there; the limit of the third is kept by the first lock after a login, and a later
lock may come one failure late (`LockComesInTime`), as told above.

## 4. Theorems

All are theorems of the whole specification of their module, for any numbers of
shells, accounts, sessions, secrets, calls and ticks, under the named assumptions
on the constants: `ConfigValid` (what `config.Validate` accepts),
`ServiceConstants`, `ShellConstants`, `MaxCallsIsNat` and `MaxEventsIsNat`, or `StartersAssumption` and
`ConnectTimeoutIsNat`. Those of `LoginRefinementProofs` and `AuditTrailProofs`, and the
corollaries about `KeepsPromise`, are about a single shell,
`Alone == \E p : Shells = {p}`; `CounterIsTold` and `LockComesInTime` also assume
`ChallengeTTL <= LockDuration`.

`AuthServiceProofs`:

- `TypeCorrect`: `TypeOK` is inductive as it stands, because it also says that
  session ids are below the sequence and that calls and parked logins belong to
  registered accounts.
- Three lemmas say what any step may do to a row, a session and a stack
  (`UsersFlow`, `SessionsFlow`, `CallsFlow`): one case per action, proved once.
  A row that changes is a new one, a copy, or a copy after a rule of
  `AuthDomain`; a stack that changes has just read a row of the table. The other
  proofs argue from these.
- `RevocationFinal` and `PurgeSparesLiveSessions` follow from `SessionsFlow`.
- `RowsCoherent`: coherence of rows and copies is inductive together, since each
  becomes the other.
- `LockStartsOver` needs `FailuresCountedUnlocked`: the copy a failure is counted
  on was not locked when it was read. Without it, counting on a locked copy
  could leave a counter of 1 in a lock.
- `DeadlinesHold` needs that too, and `TouchBounded`: the idle deadline a Touch
  carries is at most the absolute deadline of the session it is for.
- `VerdictsUnderOwnKey` needs `RowsCoherent`: two factor on means there is a
  secret, so a decryption that succeeded saw one.
- `ParkedLoginsConsumed`: neither the stack nor the store of a process is
  touched by another.

`ShellProofs`:

- `ShellImplementsService`, `ShellSpec => Spec`. Each action of the shell is shown to
  be an action of `AuthService` or to leave it alone; `TypeOK` is needed to know that
  the account in the cache is one of `Accounts`, and is preserved because the step is
  one of `AuthService`. With it the theorems above hold for the program's own shells,
  and `LoneShellKeepsPromise` follows from `OneShellKeepsPromise`.
- `ShellsTyped`: `ShellTypeOK` is not inductive. `ShellsFit` is: where a shell is says
  which call it may be in and for which account (`CallFits`, `PlaceFits`), whether it
  holds a token, and that the session of the token is its user's (`LoginFits`); ids of
  parked logins are unique in a store, and no two shells hold one token
  (`TokensApart`).
- `OwnSessionsSpared`: of the calls that revoke, `RecordFailure` is made only by a
  shell without a token, a change of two factor names the token as the one to keep
  (`ShellsFit`), and the logout is the exception the property makes.
- `LeftoversPaidFor` is the hardest: a leftover may come up long after the fault that
  caused it. `Balanced` keeps a ledger: stranded sessions, signalled shells that are
  checking their login and will drop it (`Doomed`), and parked logins no prompt will
  answer any more (`AllUnanswered`) are together at most the faults and signals. Each
  step leaves nothing over (`Clean`), or one thing more and one fault or signal more
  (`Owed`), or turns a doomed shell into a stranded session (`Dropped`). That a
  finished login leaves no challenge behind is `ParkedLoginsConsumed`. A call that has read
  a secret it cannot decrypt (`Condemned`) already has its parked login in the ledger: the
  fault was counted with the read, the prompt ends with the verdict.

`AuthAuditProofs`: `AuditImplementsService`, `AuditSpec => Spec`: the trail only
watches. `AuditTyped`: `AuditTypeOK` is inductive, as every step appends typed entries
or nothing (`TrailStep`). `StateExplained`: `StateIsExplained` alone is not inductive,
because rows are overwritten by copies. `CopiesExplained` says the same of the copies
on the stacks, except the flag of an enrollment that is about to be confirmed, whose
entry is written by the transaction that saves it. The trail only grows, so an
explanation once given stays (`Grown`, `ExplainedKept`).

`AuditTrailProofs`, about a shell that is alone:

- `CountedAfter` and `OnAfter` say what one more entry does to the streak of counted
  failures and to the last word about two factor; `EntryTold` and `FailureTold` what
  the entries of an operation do.
- `PostureIsTold`: `SwitchesTold`, for registered accounts and those that are not, is
  inductive together with `CopiesCurrent`: a step writes back a current copy with the
  flag as it was, or changes the flag and appends the entry that says so.
- `CounterIsTold`: the same for the counter, but `ClearLockSave` sets it to 0 without an
  entry, so the counter may fall behind the trail. `LocksFit` says by how much: the
  counter of a row that carries a lock is at most 1, no parked login of the account
  outlives that lock, and a code under examination finds the counter at 0. So one late
  failure may be counted and no second one. That parked logins do not outlive the lock is
  where `ChallengeTTL <= LockDuration` comes in: the
  lock begins no earlier than the call that sets it, and every parked login ends at most
  `ChallengeTTL` after that call began.
- `LockComesInTime` is `CounterIsTold` with `RowsCoherent`: the trail shows fewer than
  `MaxAttempts` failures since the last login or lock, or exactly so many after a lock.
  The property two shells violate in `lost_failure` is the first half, without the exception.
- `AuditedShellKeepsPromise`: `LoginPromise` is kept with the trail as without it.

`PgTxProofs`: `TransactionsAreAtomic`, `PgSpec => Spec`. The step simulation needs
to know that a transaction still belongs to the call that opened it, that a name being registered is still free, that a session it has
locked is still there and to be revoked, and that every session it has to revoke
is locked or still on its list. The last is why the statements implement one atomic revocation: a
session of the account can only appear with a write of the account row, which the
transaction has locked before its snapshot. `PgInv` collects this: one part
common to all shells (types, `CallTimes`, `Exclusive`) and four about one shell
(`CallInv`, `LockInv`, `RevokeInv`, `PurgeInv`); `Undisturbed` and `OthersKept` say
that a step of one shell keeps those of the others, `OwnStep` has a case per
action. `LocksAreExclusive` and `WaitsEmptyHanded` follow from `PgInv`. With
the first, the theorems about `AuthService` carry over to the statements, and
`LoneStatementsKeepPromise` takes the promise down to them.

`LoginRefinementProofs`: `OneShellKeepsPromise`. What makes a lone shell right is
that no copy on its stack is stale: `CopiesCurrent` says that between the read and
the write-back the row in the table is the one that was read, so that rules applied
to the copy are rules applied to the row, and that what the call decided on (not
locked, two factor on or off, code checked) is still so. It is inductive together with `TypeOK`. `StepKept` then maps each action to a step of the
promise. The four other theorems are read off the promise: `LockKillsSessions`
because the step that sets a lock removes the sessions and no step adds one in a
lock; the action properties because only `Login` issues sessions and only
`ChangePosture` changes the flag.

`StartupProofs`: every step is one of `Migrations` (`StartImplementsMigrations`),
whose theorems therefore hold for starting processes; `ServesOnCurrentSchema` is
`DoneMeansCurrent` seen through `StartTypeOK`. `WaitIsBounded` needs that the delay
is one of 1, 2, 4, 8.

`MigrationsProofs`: `TypeCorrect`, then `MigratedExactlyOnce`, `TodoNeverStale`,
`RecordedWithoutGaps` and `DoneMeansCurrent`, from the invariant that a process
that is past the lock holds it, which makes its list of pending migrations the
exact complement of the recorded versions.

Every safety property the passing runs check is a theorem. Only model-checked are the
liveness properties `SignalEndsShell`, `EveryCallReturns` and `EveryStartEnds`: fairness
and `ENABLED` are out of the prover's reach.

## 5. Not modelled

- what commands print, help, completion and suggestions;
- pure functions of strings and numbers: username and password policy, edit distance
  of suggestions, parsing of numbers and durations, and the rules of
  `config.Validate` beyond `ConfigValid`; no state depends on how they are computed;
- cryptography, random numbers, hashing and the arithmetic of TOTP time steps:
  libraries, assumed to do what their names say;
- `migrate-status` and `history`, which only read, and the pool settings of
  `database/sql`;
- the in-memory repositories: a test double no process runs. They differ from
  PostgreSQL where it matters here (`WithinTx` rolls nothing back, `Revoke` of a
  missing row is an error), so the tests that use them say nothing of what
  `PgTx` is about.

## 6. Plan

1. The safety half of the liveness properties: which action of a signalled shell, an
   open transaction or a starting process is next, and what it brings closer to the end.
2. An enrollment that continues after its session was revoked elsewhere
   (`commands_account.go:88`): the code does it, and no property says whether it may.
