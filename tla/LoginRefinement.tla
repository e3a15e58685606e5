--------------------------- MODULE LoginRefinement ---------------------------
(***************************************************************************)
(* Where AuthService keeps what LoginPromise says: in one shell that has   *)
(* the database to itself, whatever fails, is killed or takes long. With   *)
(* more shells it does not, as the stale copies of account rows show.      *)
(***************************************************************************)
EXTENDS AuthService

\* What LoginPromise sees of an account row.
Seen(row) ==
    [failed |-> row.failed, lockedUntil |-> row.lockedUntil, enabled |-> row.enabled]

AccountsSeen == [a \in DOMAIN users |-> Seen(users[a])]

\* A session that Resolve found alive is in use until its Touch has come too late.
InUse(i) ==
    \/ IsActive(sessions[i], clock)
    \/ /\ ~sessions[i].revoked
       /\ \E p \in Shells : Running(p, "touch") /\ op[p].ref = i /\ op[p].until > clock

SessionSeen(i) == [id |-> i, owner |-> sessions[i].owner]

SessionsInUse == {SessionSeen(i) : i \in {j \in DOMAIN sessions : InUse(j)}}

\* The password of a call or of a parked login was right.
Vouched(p, a) ==
    \/ op[p].acct = a /\ op[p].good /\ op[p].pc \in {"clearLock", "verify"}
    \/ op[p].acct = a /\ Running(p, "codeLogin")
    \/ \E c \in challenges[p] : c.acct = a

\* A code of the secret was right.
Coded(p, a) == op[p].acct = a /\ op[p].pc \in {"codeLogin", "confirm", "disable"}

AccountsVouched == {a \in Accounts : \E p \in Shells : Vouched(p, a)}
AccountsCoded == {a \in Accounts : \E p \in Shells : Coded(p, a)}

Promise == INSTANCE LoginPromise WITH
    now <- clock,
    account <- AccountsSeen,
    live <- SessionsInUse,
    issued <- nextSid - 1,
    password <- AccountsVouched,
    code <- AccountsCoded

\* Counting, locking, logging in and changing two factor take effect as if at
\* once, on the account as it is and with every factor it asks for, and no session
\* that was over is ever in use again.
KeepsPromise == Promise!PromiseSpec
=============================================================================
