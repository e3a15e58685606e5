------------------------------- MODULE Startup -------------------------------
(***************************************************************************)
(* The start of authcli processes: app.New waits for the database, brings  *)
(* its schema up to date, assembles the service, purges dead sessions and  *)
(* lets the shell run; `authcli migrate` stops after the schema. Any       *)
(* process may be signalled, fail or be killed on the way.                 *)
(*                                                                         *)
(* The schema is module Migrations; its "start" is the place of a process  *)
(* that waits for the database. A process whose configuration Validate     *)
(* refuses touches nothing and is not modelled, nor is migrate-status,     *)
(* which only reads. Time is counted per process in units of 250 ms since  *)
(* its wait began.                                                         *)
(***************************************************************************)
EXTENDS Migrations

CONSTANT ConnectTimeout   \* DB_CONNECT_TIMEOUT, in units

ASSUME ConnectTimeoutIsNat == ConnectTimeout \in Nat

PingTimeout == 12         \* 3 seconds
FirstBackoff == 1         \* 250 milliseconds
MaxBackoff == 8           \* 2 seconds

VARIABLES
    boot,                 \* where each process is in app.New
    waited,               \* the time its wait for the database has taken
    backoff,              \* the delay before its next ping
    term                  \* its context is cancelled by a signal

bootVars == <<boot, waited, backoff, term>>
startVars == <<vars, bootVars>>

Phases == {"ping", "sleep", "migrate", "purge", "serve", "off"}

Booting(p, phase) == boot[p] = phase
Enter(p, phase) == boot' = [boot EXCEPT ![p] = phase]

\* The time and the delay of a wait that is over, or has not begun, are reset.
WaitOver(p) ==
    /\ waited' = [waited EXCEPT ![p] = 0]
    /\ backoff' = [backoff EXCEPT ![p] = FirstBackoff]

\* Another ping took d.
Waited(p, d) ==
    /\ waited' = [waited EXCEPT ![p] = @ + d]
    /\ UNCHANGED backoff

(***************************************************************************)
(* waitForDatabase                                                         *)
(***************************************************************************)
\* The server answers within the timeout of the ping.
PingAnswered(p) ==
    /\ Booting(p, "ping") /\ ~term[p]
    /\ WaitOver(p)
    /\ Enter(p, "migrate")
    /\ UNCHANGED <<vars, term>>

\* Mutant: the deadline is compared with the time before the ping and its delay.
GivesUpLate(p, d) == waited[p] > ConnectTimeout + MaxBackoff

\* The deadline has passed when the ping, which took d, has failed.
GivesUp(p, d) == waited[p] + d > ConnectTimeout

\* The server does not answer in time, or refuses.
PingFails(p, d) ==
    /\ Booting(p, "ping")
    /\ IF GivesUp(p, d)
       THEN Enter(p, "off") /\ Fail(p) /\ WaitOver(p)
       ELSE Enter(p, "sleep") /\ UNCHANGED vars /\ Waited(p, d)
    /\ UNCHANGED term

\* Mutant: the delay doubles without limit.
SleepOnAndOn(p) ==
    /\ Booting(p, "sleep")
    /\ waited' = [waited EXCEPT ![p] = @ + backoff[p]]
    /\ backoff' = [backoff EXCEPT ![p] = 2 * @]
    /\ Enter(p, "ping")
    /\ UNCHANGED <<vars, term>>

Sleep(p) ==
    /\ Booting(p, "sleep")
    /\ waited' = [waited EXCEPT ![p] = @ + backoff[p]]
    /\ backoff' = [backoff EXCEPT ![p] = IF @ < MaxBackoff THEN 2 * @ ELSE @]
    /\ Enter(p, "ping")
    /\ UNCHANGED <<vars, term>>

SleepCancelled(p) ==
    /\ Booting(p, "sleep") /\ term[p]
    /\ Enter(p, "off")
    /\ Fail(p)
    /\ WaitOver(p)
    /\ UNCHANGED term

(***************************************************************************)
(* The rest of New                                                         *)
(***************************************************************************)
\* A statement of Migrate. A cancelled context stops all but the unlock.
MigrateStep(p) ==
    /\ Booting(p, "migrate")
    /\ IF term[p] THEN Release(p) ELSE Proceed(p)
    /\ UNCHANGED bootVars

\* Mutant: New returns the error without closing the database.
MigrateFailsConnected(p) ==
    /\ Booting(p, "migrate")
    /\ pc[p] \notin {"unlock", "done"}
    /\ GoTo(p, "failed")
    /\ todo' = [todo EXCEPT ![p] = {}]
    /\ Enter(p, "off")
    /\ UNCHANGED <<holder, recorded, executed, restarts, waited, backoff, term>>

MigrateFails(p) ==
    /\ Booting(p, "migrate")
    /\ pc[p] \notin {"unlock", "done"}
    /\ Fail(p)
    /\ Enter(p, "off")
    /\ UNCHANGED <<waited, backoff, term>>

\* Mutant: sessions are purged before the schema is there.
MigratedUnchecked(p) ==
    /\ Booting(p, "migrate")
    /\ \E phase \in {"purge", "off"} : Enter(p, phase)
    /\ UNCHANGED <<vars, waited, backoff, term>>

\* The schema is up to date. `authcli migrate` ends, and so does a shell whose
\* service cannot be built.
Migrated(p) ==
    /\ Booting(p, "migrate") /\ At(p, "done")
    /\ \E phase \in {"purge", "off"} : Enter(p, phase)
    /\ UNCHANGED <<vars, waited, backoff, term>>

\* A purge that fails is only a warning; a terminal that cannot be opened ends
\* the process.
Purged(p) ==
    /\ Booting(p, "purge")
    /\ \E phase \in {"serve", "off"} : Enter(p, phase)
    /\ UNCHANGED <<vars, waited, backoff, term>>

(***************************************************************************)
(* Signals, the end of a process and its next start                        *)
(***************************************************************************)
Signal(p) ==
    /\ ~Booting(p, "off") /\ ~term[p]
    /\ term' = [term EXCEPT ![p] = TRUE]
    /\ UNCHANGED <<vars, boot, waited, backoff>>

\* The shell is left, or the process is killed at any moment.
Quit(p) ==
    /\ ~Booting(p, "off")
    /\ IF pc[p] \in {"done", "failed"} THEN UNCHANGED vars ELSE Fail(p)
    /\ Enter(p, "off")
    /\ WaitOver(p)
    /\ UNCHANGED term

Launch(p) ==
    /\ Booting(p, "off")
    /\ Start(p)
    /\ Enter(p, "ping")
    /\ term' = [term EXCEPT ![p] = FALSE]
    /\ UNCHANGED <<waited, backoff>>

(***************************************************************************)
(* The specification                                                       *)
(***************************************************************************)
StartInit ==
    /\ Init
    /\ boot = [p \in Starters |-> "ping"]
    /\ waited = [p \in Starters |-> 0]
    /\ backoff = [p \in Starters |-> FirstBackoff]
    /\ term = [p \in Starters |-> FALSE]

WaitStep(p) ==
    \/ PingAnswered(p)
    \/ \E d \in 0 .. PingTimeout : PingFails(p, d)
    \/ Sleep(p)
    \/ SleepCancelled(p)

StartNext ==
    \E p \in Starters :
        \/ WaitStep(p) \/ MigrateStep(p) \/ MigrateFails(p) \/ Migrated(p) \/ Purged(p)
        \/ Signal(p) \/ Quit(p) \/ Launch(p)

StartSpec == StartInit /\ [][StartNext]_startVars

\* What a process does by itself: it goes on, and once signalled its statements
\* fail. Whether it is signalled, killed or started again is up to others, and
\* PostgreSQL grants an advisory lock that stays free.
Onward(p) ==
    \/ WaitStep(p) \/ MigrateStep(p) \/ Migrated(p) \/ Purged(p)
    \/ term[p] /\ MigrateFails(p)

FairStartSpec == StartSpec /\ \A p \in Starters : WF_startVars(Onward(p))

(***************************************************************************)
(* Properties                                                              *)
(***************************************************************************)
\* The variables keep their types, and a process that has no schema yet or none
\* any more is at the matching place of Migrate.
StartTypeOK ==
    /\ boot \in [Starters -> Phases]
    /\ waited \in [Starters -> Nat]
    /\ backoff \in [Starters -> {1, 2, 4, 8}]
    /\ term \in [Starters -> BOOLEAN]
    /\ \A p \in Starters :
          /\ boot[p] \in {"ping", "sleep"} => pc[p] = "start"
          /\ boot[p] \in {"purge", "serve"} => pc[p] = "done"
          /\ boot[p] \notin {"ping", "sleep"} => waited[p] = 0
          /\ boot[p] = "off" => pc[p] \in {"done", "failed"}

\* The wait ends by the configured time, give or take one delay and one ping,
\* however long each ping hangs: a process that still waits began its last ping or
\* its last delay no later.
WaitBounded ==
    \A p \in Starters :
        /\ Booting(p, "sleep") => waited[p] <= ConnectTimeout
        /\ Booting(p, "ping") => waited[p] <= ConnectTimeout + MaxBackoff

\* No process runs a statement of the service, the first of which is the purge,
\* on a schema that lacks a migration of its binary.
ServesCurrentSchema ==
    \A p \in Starters : boot[p] \in {"purge", "serve"} => 1 .. Latest[p] \subseteq recorded

\* Nobody's start hangs, whether the database is away or others hold the lock,
\* fail or are killed holding it, or run a shell for good: each one gets to its
\* shell or ends.
EveryStartEnds == \A p \in Starters : []<>(boot[p] \in {"serve", "off"})
=============================================================================
