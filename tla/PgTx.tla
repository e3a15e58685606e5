-------------------------------- MODULE PgTx --------------------------------
(***************************************************************************)
(* The transactions of AuthService statement by statement: what            *)
(* TxManager.WithinTx, the repositories and the purge of a starting        *)
(* process do on PostgreSQL, with its row locks, READ COMMITTED snapshots, *)
(* rollbacks and deadlock victims.                                         *)
(*                                                                         *)
(* users and sessions are the committed tables. What an open transaction   *)
(* has written is kept by its shell and shown to nobody before COMMIT; the *)
(* rows it wrote stay locked until then. A statement that meets a locked   *)
(* row waits for it and then looks at the committed row again. Readers     *)
(* never wait. Entries of auth_events are inserts nobody waits for and are *)
(* left to AuthAudit; the key share locks their foreign keys take do not   *)
(* conflict with an update that changes no key.                            *)
(* A session gets its number at COMMIT: ids stand for identities, and the  *)
(* gaps of the sequence have no meaning.                                   *)
(***************************************************************************)
EXTENDS AuthService, FiniteSets

CONSTANT MaxCalls   \* bound: service calls begun

ASSUME MaxCallsIsNat == MaxCalls \in Nat

VARIABLES
    txn,             \* the transaction each shell has open
    calls            \* service calls begun so far

pgVars == <<vars, txn, calls>>

(***************************************************************************)
(* stage: "start"    the process is starting and has not purged            *)
(*        "none"     no transaction is open                                *)
(*        "account"  BEGIN is done; the next statement writes the account  *)
(*        "revoke"   the next statement revokes sessions                   *)
(*        "rows"     a statement works off the session rows in todo; when  *)
(*                   none is left, COMMIT is next                          *)
(*        "purge"    the same for the DELETE of a starting process         *)
(* row says that the account row (or, for Register, its unique name) is    *)
(* locked by this transaction, held which sessions are. now is the time    *)
(* the transaction writes.                                                 *)
(***************************************************************************)
Stages == {"start", "none", "account", "revoke", "rows", "purge"}

Txn == [stage : Stages, acct : Accounts \cup {NoAccount}, row : BOOLEAN,
        todo : SUBSET Nat, held : SUBSET Nat, now : Nat]

NoTxn == [stage |-> "none", acct |-> NoAccount, row |-> FALSE,
          todo |-> {}, held |-> {}, now |-> Unset]

Starting == [NoTxn EXCEPT !.stage = "start"]

In(p, stage) == txn[p].stage = stage
SetTxn(p, t) == txn' = [txn EXCEPT ![p] = t]
End(p) == SetTxn(p, NoTxn)

CountCall == calls < MaxCalls /\ calls' = calls + 1

\* No service call of p has a transaction open.
NoTxnOpen(p) == In(p, "none")

(***************************************************************************)
(* Row locks                                                               *)
(***************************************************************************)
AccountFree(p, a) == \A q \in Shells \ {p} : ~(txn[q].row /\ txn[q].acct = a)

SessionFree(p, i) == \A q \in Shells \ {p} : i \notin txn[q].held

\* An UPDATE by id of a session waits only when its WHERE clause finds the row.
SessionWritable(p, i) ==
    i \in DOMAIN sessions /\ ~sessions[i].revoked => SessionFree(p, i)

(***************************************************************************)
(* What the transaction of p is for                                        *)
(***************************************************************************)
Registering(p) == Ready(p)
CountsFailure(p) == (Running(p, "verify") /\ ~op[p].good) \/ Running(p, "codeFailed")
LogsIn(p) == (Running(p, "verify") /\ op[p].good) \/ Running(p, "codeLogin")
ChangesPosture(p) == Running(p, "confirm") \/ Running(p, "disable")

Revokes(p) == ChangesPosture(p) \/ (CountsFailure(p) /\ TripsLock(op[p].row))

\* The session the revocation spares; 0 for none.
Spared(p) == IF ChangesPosture(p) THEN op[p].ref ELSE 0

RevokeMatched(p, i) ==
    /\ i \in DOMAIN sessions
    /\ sessions[i].owner = txn[p].acct /\ ~sessions[i].revoked
    /\ Spared(p) = 0 \/ i # Spared(p)

(***************************************************************************)
(* WithinTx                                                                *)
(***************************************************************************)
\* The call has decided to end in a transaction. A failure reads the clock
\* before BEGIN.
BeginTx(p) ==
    /\ NoTxnOpen(p)
    /\ \/ CountsFailure(p)
       \/ PasswordAccepted(p) /\ ~op[p].row.enabled
       \/ Running(p, "codeLogin")
       \/ ChangesPosture(p)
    /\ SetTxn(p, [NoTxn EXCEPT !.stage = "account", !.acct = op[p].acct, !.now = clock])
    /\ UNCHANGED <<vars, calls>>

BeginRegister(p, a) ==
    /\ NoTxnOpen(p) /\ Ready(p)
    /\ CountCall
    /\ SetTxn(p, [NoTxn EXCEPT !.stage = "account", !.acct = a])
    /\ UNCHANGED vars

\* Mutant: the repository uses the pool instead of the open transaction.
UpdateAccountOutside(p) ==
    /\ In(p, "account") /\ ~Registering(p)
    /\ AccountFree(p, txn[p].acct)
    /\ users' = [users EXCEPT ![txn[p].acct] = op[p].row]
    /\ SetTxn(p, [txn[p] EXCEPT !.stage = IF Revokes(p) THEN "revoke" ELSE "rows"])
    /\ UNCHANGED <<clock, sessions, nextSid, nextSecret, challenges, op, calls>>

\* Mutant: the sessions are revoked before the account row is written.
UpdateAccountLater(p) ==
    /\ In(p, "account") /\ ~Registering(p)
    /\ SetTxn(p, [txn[p] EXCEPT !.stage = IF Revokes(p) THEN "revoke" ELSE "rows"])
    /\ UNCHANGED <<vars, calls>>

\* users.Update, the first statement of every service transaction but
\* Register's. The clock of a new session is read after it.
UpdateAccount(p) ==
    /\ In(p, "account") /\ ~Registering(p)
    /\ AccountFree(p, txn[p].acct)
    /\ SetTxn(p, [txn[p] EXCEPT !.stage = IF Revokes(p) THEN "revoke" ELSE "rows",
                                !.row = TRUE,
                                !.now = IF LogsIn(p) THEN clock ELSE @])
    /\ UNCHANGED <<vars, calls>>

\* users.Create: an uncommitted insert of the same name is waited for.
InsertAccount(p) ==
    /\ In(p, "account") /\ Registering(p)
    /\ AccountFree(p, txn[p].acct)
    /\ txn[p].acct \notin DOMAIN users
    /\ SetTxn(p, [txn[p] EXCEPT !.stage = "rows", !.row = TRUE])
    /\ UNCHANGED <<vars, calls>>

\* The unique constraint refuses a name that is registered: ErrUsernameTaken.
NameTaken(p) ==
    /\ In(p, "account") /\ Registering(p)
    /\ txn[p].acct \in DOMAIN users
    /\ End(p)
    /\ UNCHANGED <<vars, calls>>

\* revokeMatching starts: its snapshot decides which rows it looks at.
BeginRevoke(p) ==
    /\ In(p, "revoke")
    /\ SetTxn(p, [txn[p] EXCEPT !.stage = "rows",
                                !.todo = {i \in DOMAIN sessions : RevokeMatched(p, i)}])
    /\ UNCHANGED <<vars, calls>>

\* One row of the statement, once nobody else has it locked; a row that was
\* revoked or deleted meanwhile is passed over.
RevokeRow(p, i) ==
    /\ In(p, "rows")
    /\ i \in txn[p].todo
    /\ SessionFree(p, i)
    /\ SetTxn(p, [txn[p] EXCEPT !.todo = @ \ {i},
                                !.held = IF RevokeMatched(p, i) THEN @ \cup {i} ELSE @])
    /\ UNCHANGED <<vars, calls>>

CanCommit(p) == In(p, "rows") /\ txn[p].todo = {}

\* The revocations of the transaction become visible.
RevokeHeld(p) ==
    sessions' = [i \in DOMAIN sessions |->
                   IF i \in txn[p].held THEN [sessions[i] EXCEPT !.revoked = TRUE]
                   ELSE sessions[i]]

CommitRegister(p) ==
    /\ CanCommit(p) /\ Registering(p)
    /\ users' = Insert(users, txn[p].acct, NewUser(HashCost[p]))
    /\ End(p)
    /\ UNCHANGED <<clock, sessions, nextSid, nextSecret, challenges, op, calls>>

\* After the COMMIT of a wrong code whose lock the shell learned of, the
\* challenge goes.
CommitFailure(p, acked) ==
    /\ CanCommit(p) /\ CountsFailure(p)
    /\ UpdateUser(txn[p].acct, RegisterFailure(op[p].row, txn[p].now))
    /\ RevokeHeld(p)
    /\ IF Running(p, "codeFailed") /\ acked /\ TripsLock(op[p].row)
       THEN DeleteChallenge(p, op[p].ref)
       ELSE UNCHANGED challenges
    /\ Return(p)
    /\ End(p)
    /\ UNCHANGED <<clock, nextSid, nextSecret, calls>>

CommitLogin(p) ==
    /\ CanCommit(p) /\ LogsIn(p)
    /\ nextSid \in SessionIds
    /\ UpdateUser(txn[p].acct, ClearLock(op[p].row))
    /\ sessions' = Insert(sessions, nextSid, NewSession(txn[p].acct, txn[p].now))
    /\ nextSid' = nextSid + 1
    /\ Return(p)
    /\ End(p)
    /\ UNCHANGED <<clock, nextSecret, challenges, calls>>

CommitPosture(p) ==
    /\ CanCommit(p) /\ ChangesPosture(p)
    /\ UpdateUser(txn[p].acct, op[p].row)
    /\ RevokeHeld(p)
    /\ Return(p)
    /\ End(p)
    /\ UNCHANGED <<clock, nextSid, nextSecret, challenges, calls>>

\* Mutant: the deferred rollback is missing, and the connection goes back to
\* the pool with its transaction open.
RollbackForgotten(p) ==
    /\ txn[p].stage \in {"account", "revoke", "rows"}
    /\ SetTxn(p, [txn[p] EXCEPT !.stage = "none"])
    /\ Return(p)
    /\ UNCHANGED <<clock, tables, nextSecret, challenges, calls>>

\* A statement fails: the database is gone, the context is cancelled, or
\* PostgreSQL chose the transaction to break a deadlock. The deferred rollback
\* gives up what was written and its locks, and the call returns the error.
Rollback(p) ==
    /\ txn[p].stage \in {"account", "revoke", "rows"}
    /\ End(p)
    /\ Return(p)
    /\ UNCHANGED <<clock, tables, nextSecret, challenges, calls>>

(***************************************************************************)
(* Statements outside of a transaction                                     *)
(***************************************************************************)
\* persistUser
SaveAccount(p) ==
    /\ NoTxnOpen(p)
    /\ AccountFree(p, op[p].acct)
    /\ ClearLockSave(p) \/ Rehash(p) \/ SaveRow(p)
    /\ UNCHANGED <<txn, calls>>

SaveSession(p) ==
    /\ NoTxnOpen(p)
    /\ SessionWritable(p, op[p].ref)
    /\ Touch(p) \/ LogoutRevoke(p)
    /\ UNCHANGED <<txn, calls>>

\* The calls that begin with a read, and those that only drop a challenge. No
\* login begins while the store of the shell is full, a bound of the model.
BeginCall(p) ==
    /\ NoTxnOpen(p)
    /\ \/ /\ Cardinality({c \in challenges[p] : Unexpired(c)}) < MaxChallenges
          /\ \E a \in Accounts, good \in BOOLEAN : AuthenticateLoad(p, a, good)
       \/ Ready(p) /\ AnswerStep(p)
       \/ \E a \in Accounts : BeginLoad(p, a) \/ CancelLoad(p, a)
       \/ \E a \in Accounts, code \in Codes : \E keep \in Keepable(a) :
             ConfirmLoad(p, a, code, keep) \/ DisableLoad(p, a, code, keep)
       \/ \E i \in DOMAIN sessions : ResolveLoad(p, i) \/ LogoutLoad(p, i)
    /\ CountCall
    /\ UNCHANGED txn

\* CompleteTOTPChallenge goes on: FindByID, which waits for nobody, or the
\* verdict on the code.
AnswerCode(p) ==
    /\ NoTxnOpen(p)
    /\ ~Ready(p) /\ AnswerStep(p)
    /\ UNCHANGED <<txn, calls>>

ParkLogin(p) ==
    /\ NoTxnOpen(p)
    /\ \E id \in 1 .. MaxChallenges : Park(p, id)
    /\ UNCHANGED <<txn, calls>>

CallFails(p) ==
    /\ NoTxnOpen(p)
    /\ DBError(p)
    /\ UNCHANGED <<txn, calls>>

(***************************************************************************)
(* The purge of a starting process                                         *)
(***************************************************************************)
BeginPurge(p) ==
    /\ In(p, "start")
    /\ SetTxn(p, [NoTxn EXCEPT !.stage = "purge", !.todo = PurgeableIds, !.now = clock])
    /\ UNCHANGED <<vars, calls>>

\* A row that was touched since the snapshot is looked at again.
PurgeRow(p, i) ==
    /\ In(p, "purge")
    /\ i \in txn[p].todo
    /\ SessionFree(p, i)
    /\ SetTxn(p, [txn[p] EXCEPT
                    !.todo = @ \ {i},
                    !.held = IF i \in DOMAIN sessions /\ Purgeable(sessions[i], txn[p].now)
                             THEN @ \cup {i} ELSE @])
    /\ UNCHANGED <<vars, calls>>

CommitPurge(p) ==
    /\ In(p, "purge") /\ txn[p].todo = {}
    /\ DeleteExpired(txn[p].held)
    /\ End(p)
    /\ UNCHANGED <<clock, users, nextSid, nextSecret, challenges, op, calls>>

\* A failed purge is only a warning.
PurgeFails(p) ==
    /\ txn[p].stage \in {"start", "purge"}
    /\ End(p)
    /\ UNCHANGED <<vars, calls>>

\* The process ends: PostgreSQL rolls back what its connections had open.
KillProcess(p) ==
    /\ Restart(p, {})
    /\ SetTxn(p, Starting)
    /\ UNCHANGED calls

(***************************************************************************)
(* The specification                                                       *)
(***************************************************************************)
PgInit == Init /\ txn = [p \in Shells |-> Starting] /\ calls = 0

TxStep(p) ==
    \/ BeginTx(p) \/ UpdateAccount(p) \/ InsertAccount(p) \/ NameTaken(p)
    \/ BeginRevoke(p)
    \/ \E i \in txn[p].todo : RevokeRow(p, i)
    \/ CommitRegister(p) \/ CommitLogin(p) \/ CommitPosture(p)
    \/ \E acked \in BOOLEAN : CommitFailure(p, acked)

PurgeStep(p) ==
    \/ BeginPurge(p)
    \/ \E i \in txn[p].todo : PurgeRow(p, i)
    \/ CommitPurge(p)

PgNext ==
    \/ Tick /\ UNCHANGED <<txn, calls>>
    \/ \E p \in Shells : \/ TxStep(p)
                         \/ PurgeStep(p)
                         \/ SaveAccount(p)
                         \/ SaveSession(p)
                         \/ BeginCall(p)
                         \/ AnswerCode(p)
                         \/ ParkLogin(p)
                         \/ CallFails(p)
                         \/ \E a \in Accounts : BeginRegister(p, a)
                         \/ Rollback(p)
                         \/ PurgeFails(p)
                         \/ KillProcess(p)

PgSpec == PgInit /\ [][PgNext]_pgVars

(***************************************************************************)
(* Waiting                                                                 *)
(***************************************************************************)
\* The shells whose locks the next statement of p may have to wait for.
Blockers(p) ==
    {q \in Shells \ {p} :
        \/ /\ \/ In(p, "account")
              \/ NoTxnOpen(p) /\ op[p].pc \in {"clearLock", "save"}
              \/ NoTxnOpen(p) /\ PasswordAccepted(p) /\ NeedsRehash(op[p].row, HashCost[p])
           /\ txn[q].row
           /\ txn[q].acct = IF In(p, "account") THEN txn[p].acct ELSE op[p].acct
        \/ /\ NoTxnOpen(p) /\ op[p].pc \in {"touch", "revoke"}
           /\ op[p].ref \in txn[q].held
        \/ txn[p].todo \cap txn[q].held # {}}

HoldsNothing(p) == ~txn[p].row /\ txn[p].held = {}

\* A set of shells each of which waits for locks of the others.
Deadlocked(p) ==
    \E S \in SUBSET Shells :
        /\ p \in S
        /\ \A q \in S : Blockers(q) # {} /\ Blockers(q) \subseteq S

(***************************************************************************)
(* Fairness                                                                *)
(***************************************************************************)
\* What a call that was begun does by itself. The last disjunct is a bound of
\* the model: no session can be inserted any more.
CallAdvances(p) ==
    \/ TxStep(p)
    \/ PurgeStep(p)
    \/ SaveAccount(p)
    \/ SaveSession(p)
    \/ AnswerCode(p)
    \/ ParkLogin(p)
    \/ CanCommit(p) /\ LogsIn(p) /\ nextSid \notin SessionIds /\ Rollback(p)

\* PostgreSQL's deadlock detector: a victim's statement fails.
AbortDeadlocked(p) == Deadlocked(p) /\ (Rollback(p) \/ PurgeFails(p))

\* A process that is not killed goes on with its call. Strong fairness, because a
\* row may be locked again and again: PostgreSQL grants row locks in the order
\* they were asked for.
FairPgSpec ==
    /\ PgSpec
    /\ \A p \in Shells : SF_pgVars(CallAdvances(p)) /\ WF_pgVars(AbortDeadlocked(p))

(***************************************************************************)
(* Properties                                                              *)
(***************************************************************************)
\* Every transaction keeps its type, and the locks are what the code relies on:
\* no row is locked twice, a service transaction holds the row of its account
\* from its first statement on, and it holds only sessions of that account.
PgTypeOK ==
    /\ txn \in [Shells -> Txn] /\ calls \in Nat
    /\ \A p \in Shells :
          /\ txn[p].row => AccountFree(p, txn[p].acct)
          /\ \A i \in txn[p].held : SessionFree(p, i) /\ i \in DOMAIN sessions
          /\ txn[p].stage \in {"revoke", "rows"} => txn[p].row
          /\ txn[p].stage = "rows" => \A i \in txn[p].held : sessions[i].owner = txn[p].acct
          /\ txn[p].stage \in {"start", "none", "account"} => HoldsNothing(p)

\* A service call that has to wait for the lock of another service call holds no
\* lock itself, because every transaction writes the account row first: service
\* calls alone never deadlock, every deadlock has a purge in it.
ServiceWaitsEmptyHanded ==
    \A p \in Shells, q \in Shells :
        q \in Blockers(p) /\ ~In(p, "purge") /\ ~In(q, "purge") => HoldsNothing(p)

\* Whatever locks it meets, a call or a purge comes to its end or dies with its
\* process: nobody waits for a row forever, also not behind a call that failed or
\* a process that was killed.
EveryCallReturns ==
    \A p \in Shells : []<>(In(p, "start") \/ (NoTxnOpen(p) /\ Ready(p)))
=============================================================================
