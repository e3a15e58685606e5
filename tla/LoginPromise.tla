---------------------------- MODULE LoginPromise -----------------------------
(***************************************************************************)
(* What the documents promise about the login of an account, as if every   *)
(* operation of auth.Service took effect at once: failed attempts lock the *)
(* account for a while and end its sessions, a session needs the password  *)
(* and, with two factor on, a code, and a session that has ended stays     *)
(* ended. LoginRefinement says where the program keeps it.                 *)
(*                                                                         *)
(* There are no private copies of rows here, no statements, transactions   *)
(* or processes. Something a caller proved may be forgotten, and a session *)
(* may lapse, at any time: calls fail and deadlines pass.                  *)
(***************************************************************************)
EXTENDS Naturals

CONSTANTS Accounts, MaxAttempts, LockDuration

VARIABLES
    now,          \* the time
    account,      \* the registered accounts: counter, lock and two factor flag
    live,         \* the sessions in use, each with its account
    issued,       \* sessions issued so far
    password,     \* accounts whose caller gave the right password ...
    code          \* ... or the right code, and has not used it up

promiseVars == <<now, account, live, issued, password, code>>

Row == [failed : Nat, lockedUntil : Nat, enabled : BOOLEAN]
Fresh == [failed |-> 0, lockedUntil |-> 0, enabled |-> FALSE]

Locked(a) == account[a].lockedUntil > now
Of(a) == {s \in live : s.owner = a}
Set(a, row) == account' = [account EXCEPT ![a] = row]

\* The counter restarts, with a lock until the given time or, for 0, without one.
CountFrom0(row, until) ==
    [failed |-> 0, lockedUntil |-> until, enabled |-> row.enabled]

Keep == UNCHANGED <<now, issued>>

\* Nothing new is proved.
Forget == password' \subseteq password /\ code' \subseteq code

Register(a) ==
    /\ a \notin DOMAIN account
    /\ account' = [b \in DOMAIN account \cup {a} |-> IF b = a THEN Fresh ELSE account[b]]
    /\ UNCHANGED <<live, password, code>> /\ Keep

\* Nobody's password is looked at while the account is locked.
ProvePassword(a) ==
    /\ a \in DOMAIN account /\ ~Locked(a)
    /\ password' = password \cup {a}
    /\ UNCHANGED <<account, live, code>> /\ Keep

ProveCode(a) ==
    /\ a \in DOMAIN account
    /\ code' = code \cup {a}
    /\ password' \subseteq password
    /\ UNCHANGED <<account, live>> /\ Keep

\* A failed attempt, by password or by code. The lock counts from a moment of
\* the attempt, which may have been a slow one.
Fail(a) ==
    /\ a \in DOMAIN account /\ ~Locked(a)
    /\ IF account[a].failed + 1 >= MaxAttempts
       THEN /\ \E t \in 1 .. now :
                  Set(a, CountFrom0(account[a], t + LockDuration))
            /\ live' = live \ Of(a)
       ELSE Set(a, [account[a] EXCEPT !.failed = @ + 1]) /\ UNCHANGED live
    /\ Forget /\ Keep

\* A lock that has run out is cleared.
Unlock(a) ==
    /\ a \in DOMAIN account /\ ~Locked(a)
    /\ Set(a, CountFrom0(account[a], 0))
    /\ UNCHANGED <<live, password, code>> /\ Keep

\* A session too slow to issue may have ended already.
Login(a) ==
    /\ a \in password /\ ~Locked(a)
    /\ account[a].enabled => a \in code
    /\ Set(a, CountFrom0(account[a], 0))
    /\ issued' = issued + 1
    /\ live' \in {live, live \cup {[id |-> issued', owner |-> a]}}
    /\ Forget /\ a \notin code'
    /\ UNCHANGED now

\* Two factor is turned on or off, and the account keeps at most one session.
ChangePosture(a) ==
    /\ a \in code
    /\ Set(a, [account[a] EXCEPT !.enabled = ~@])
    /\ \E kept \in {{}} \cup {{s} : s \in Of(a)} : live' = (live \ Of(a)) \cup kept
    /\ Forget /\ a \notin code'
    /\ Keep

\* Calls fail, sessions are logged out or run out.
Lapse == live' \subseteq live /\ Forget /\ UNCHANGED account /\ Keep

Tick == now' = now + 1 /\ live' \subseteq live /\ UNCHANGED <<account, issued, password, code>>

PromiseInit ==
    /\ now = 1
    /\ account = [a \in {} |-> Fresh]
    /\ live = {} /\ issued = 0
    /\ password = {} /\ code = {}

PromiseNext ==
    \/ Tick \/ Lapse
    \/ \E a \in Accounts :
          \/ Register(a) \/ ProvePassword(a) \/ ProveCode(a) \/ Fail(a) \/ Unlock(a)
          \/ Login(a) \/ ChangePosture(a)

PromiseSpec == PromiseInit /\ [][PromiseNext]_promiseVars
=============================================================================
