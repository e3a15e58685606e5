------------------------------- MODULE Shell --------------------------------
(***************************************************************************)
(* internal/cli: the interactive loop of each authcli process over         *)
(* AuthService, with the login it has cached, the prompts of its commands, *)
(* Ctrl-C, the end of input, SIGTERM and the shutdown.                     *)
(*                                                                         *)
(* Every step that calls the service is a step of AuthService together     *)
(* with what it does to the shell, so this module implements AuthService   *)
(* with callers that follow the program. A service call that changes       *)
(* nothing is a step of the shell alone.                                   *)
(*                                                                         *)
(* Only commands that differ here are told apart: "whoami" stands for      *)
(* every command of a signed in user that only reads, "help" for the same  *)
(* of anybody. What a user types at the prompts of register and login is   *)
(* one input. A token is the id of its session.                            *)
(***************************************************************************)
EXTENDS AuthService, FiniteSets

CONSTANTS
    Interactive,      \* stdin is a terminal: the prompter is a readlinePrompter
    MaxCodePrompts,   \* maxCodePrompts
    MaxFaults,        \* bound: database failures, kills and unreadable secrets
    MaxSignals        \* bound: termination signals

ASSUME ShellConstants ==
    /\ Interactive \in BOOLEAN
    /\ MaxCodePrompts \in Nat \ {0}
    /\ MaxFaults \in Nat /\ MaxSignals \in Nat

VARIABLES
    ui,               \* where each shell is, and its State
    term,             \* its context is cancelled by a signal
    faults,           \* database failures, kills and unreadable secrets so far
    signals           \* termination signals so far

shellVars == <<vars, ui, term, faults, signals>>

Guest == {"register", "login"}
SignedIn == {"whoami", "enable-2fa", "disable-2fa", "logout"}
Commands == Guest \cup SignedIn \cup {"help", "exit"}

(***************************************************************************)
(* at: a command that is executed, or                                      *)
(*   "exited"      the process is not running                              *)
(*   "loop"        ReadLine of Shell.Run                                   *)
(*   "revalidate"  ResolveSession, for the command cmd that was typed or,  *)
(*   "reload"        with cmd = "none", for refreshUser; its last query    *)
(*   "code"        the prompt of completeTwoFactor                         *)
(*   "enroll"      the prompts of enable-2fa                               *)
(*   "cancel"      CancelTOTPEnrollment                                    *)
(* "exit" is the shutdown. token, acct and two are State: the token, the   *)
(* account and the TOTPEnabled of the cached user.                         *)
(***************************************************************************)
Places == {"exited", "loop", "revalidate", "reload", "code", "enroll", "cancel",
           "register", "login", "enable-2fa", "disable-2fa", "logout", "exit"}

UI == [at : Places, cmd : Commands \cup {"none"}, token : Nat,
       acct : Accounts \cup {NoAccount}, two : BOOLEAN,
       challenge : Nat, tries : Nat]

Off == [at |-> "exited", cmd |-> "none", token |-> 0, acct |-> NoAccount,
        two |-> FALSE, challenge |-> 0, tries |-> 0]

At(p, place) == ui[p].at = place
Show(p, u) == ui' = [ui EXCEPT ![p] = u]

\* A database call with the shell's own context can succeed.
Alive(p) == ~term[p]

\* Mutant: the cached user survives.
ClearTokenOnly(u) == [u EXCEPT !.token = 0]

\* State.Clear
Clear(u) == [u EXCEPT !.token = 0, !.acct = NoAccount, !.two = FALSE]

\* The loop of Run looks at the context before it reads the next line.
Back(p, u) ==
    [u EXCEPT !.at = IF term[p] THEN "exit" ELSE "loop",
              !.cmd = "none", !.challenge = 0, !.tries = 0]

\* Mutant: guest commands are offered to everybody.
InScopeAlways(cmd, authenticated) == cmd \in SignedIn => authenticated

InScope(cmd, authenticated) ==
    /\ cmd \in Guest => ~authenticated
    /\ cmd \in SignedIn => authenticated

\* The command is executed, or there is nothing to execute: it only prints, it
\* is out of scope, or disable-2fa finds two factor off in the cached user.
Dispatch(p, u) ==
    IF \/ u.cmd \in {"none", "whoami", "help"}
       \/ ~InScope(u.cmd, u.token # 0)
       \/ u.cmd = "disable-2fa" /\ ~u.two
    THEN Back(p, u)
    ELSE [u EXCEPT !.at = u.cmd, !.cmd = "none"]

\* ResolveSession failed: revalidate drops the login and a guest command goes on;
\* refreshUser ignores it.
NotResolved(p, u) == IF u.cmd = "none" THEN Back(p, u) ELSE Dispatch(p, Clear(u))

\* A call of the service returned an error that is not about the input.
AfterError(p, u) ==
    IF u.at \in {"revalidate", "reload"} THEN NotResolved(p, u)
    ELSE IF u.at = "exit" THEN Clear(u)
    ELSE Back(p, u)

Calm == UNCHANGED <<term, faults, signals>>

Fault ==
    /\ faults < MaxFaults
    /\ faults' = faults + 1
    /\ UNCHANGED <<term, signals>>

\* The command ends with an error though the statement before took effect: its
\* answer was lost to the database or to a signal that came just then.
Lost(p) == Show(p, Back(p, ui[p])) /\ Fault

(***************************************************************************)
(* The loop                                                                *)
(***************************************************************************)
\* dispatch: a cached login is checked before any command.
TypeLine(p, cmd) ==
    /\ At(p, "loop") /\ Alive(p)
    /\ LET u == [ui[p] EXCEPT !.cmd = cmd]
       IN  Show(p, IF u.token = 0 THEN Dispatch(p, u)
                                  ELSE [u EXCEPT !.at = "revalidate"])
    /\ UNCHANGED vars /\ Calm

ResolveSession(p) ==
    /\ At(p, "revalidate") /\ Alive(p)
    /\ ResolveLoad(p, ui[p].token)
    /\ UNCHANGED ui /\ Calm

SessionDead(p) ==
    /\ At(p, "revalidate") /\ Alive(p) /\ Ready(p)
    /\ ui[p].token \in DOMAIN sessions => ~IsActive(sessions[ui[p].token], clock)
    /\ Show(p, NotResolved(p, ui[p]))
    /\ UNCHANGED vars /\ Calm

SessionTouched(p) ==
    /\ At(p, "revalidate") /\ Alive(p)
    /\ Touch(p)
    /\ IF /\ op[p].ref \in DOMAIN sessions
          /\ ~sessions[op[p].ref].revoked
       THEN Show(p, [ui[p] EXCEPT !.at = "reload"])
       ELSE Show(p, NotResolved(p, ui[p]))
    /\ Calm

\* FindByID, the end of ResolveSession, and State.Refresh.
Reload(p) ==
    /\ At(p, "reload") /\ Alive(p)
    /\ Show(p, Dispatch(p, [ui[p] EXCEPT !.two = users[ui[p].acct].enabled]))
    /\ UNCHANGED vars /\ Calm

Prompts == {"loop", "register", "login", "code", "enroll", "disable-2fa"}

\* Mutant: the prompt of a command does not see the end of input.
EndOfInputAtLoop(p) ==
    /\ At(p, "loop")
    /\ Show(p, [ui[p] EXCEPT !.at = "exit"])
    /\ UNCHANGED vars /\ Calm

\* Ctrl-D, the end of a pipe, or a prompter that was closed: the loop ends.
EndOfInput(p) ==
    /\ ui[p].at \in Prompts /\ Ready(p)
    /\ Show(p, [ui[p] EXCEPT !.at = "exit", !.challenge = 0, !.tries = 0])
    /\ UNCHANGED vars /\ Calm

\* Ctrl-C or an empty line at a prompt, or an input the service refuses without
\* a change; enable-2fa may also fail to generate a key.
GiveUp(p) ==
    /\ ui[p].at \in {"register", "login", "enable-2fa", "disable-2fa"} /\ Ready(p)
    /\ Show(p, Back(p, ui[p]))
    /\ UNCHANGED vars /\ Calm

(***************************************************************************)
(* register and login                                                      *)
(***************************************************************************)
SignUp(p) ==
    /\ At(p, "register") /\ Alive(p)
    /\ \E a \in Accounts : Register(p, a)
    /\ Show(p, Back(p, ui[p]))
    /\ Calm

\* No login begins once MaxSessions were issued, a bound of the model.
Password(p) ==
    /\ At(p, "login") /\ Alive(p)
    /\ \/ /\ nextSid \in SessionIds
          /\ \E a \in Accounts, good \in BOOLEAN : AuthenticateLoad(p, a, good)
       \/ ClearLockSave(p)
       \/ Rehash(p)
    /\ UNCHANGED ui /\ Calm

PasswordRefused(p) ==
    /\ At(p, "login") /\ Alive(p)
    /\ PasswordFailed(p)
    /\ Show(p, Back(p, ui[p]))
    /\ Calm

AskForCode(p) ==
    /\ At(p, "login") /\ Alive(p)
    /\ \E id \in 1 .. MaxChallenges :
          Park(p, id) /\ Show(p, [ui[p] EXCEPT !.at = "code", !.challenge = id])
    /\ Calm

\* The session is issued and State.Set follows.
LoggedIn(p) ==
    /\ ui[p].at \in {"login", "code"} /\ Alive(p)
    /\ PasswordLogin(p) \/ CodeLogin(p)
    /\ \/ /\ Show(p, [Back(p, ui[p]) EXCEPT !.token = nextSid, !.acct = op[p].acct,
                                            !.two = op[p].row.enabled])
          /\ Calm
       \/ Lost(p)

Pending(p) == {c \in challenges[p] : c.id = ui[p].challenge}

AnswerCode(p) ==
    /\ At(p, "code")
    /\ \E c \in Pending(p) : FindChallenge(p, c)
    /\ UNCHANGED ui /\ Calm

Unreadable(p) ==
    LET row == users[op[p].acct] IN row.enabled /\ ~Decrypts(row, KeyOf[p])

\* FindByID. An unreadable secret leaves the parked login: it counts as a fault.
ReadAccount(p) ==
    /\ At(p, "code") /\ Alive(p)
    /\ LoadUser(p)
    /\ UNCHANGED ui
    /\ IF Unreadable(p) THEN Fault ELSE Calm

\* No database call: a signal does not stop it.
CheckCode(p) ==
    /\ At(p, "code")
    /\ \E code \in Codes :
          CodeWrong(p, code) \/ (nextSid \in SessionIds /\ CodeRight(p, code))
    /\ UNCHANGED ui /\ Calm

\* The prompt comes again unless the account is now locked.
CodeCounted(p) ==
    /\ At(p, "code") /\ Alive(p)
    /\ \/ /\ CodeFailed(p, TRUE)
          /\ Show(p, IF TripsLock(op[p].row) THEN Back(p, ui[p]) ELSE ui[p])
          /\ Calm
       \/ CodeFailed(p, FALSE) /\ Lost(p)

\* The challenge is refused and dropped, also when the account cannot be read.
CodeTooLate(p) ==
    /\ At(p, "code")
    /\ \/ (\E c \in Pending(p) : ChallengeExpired(p, c)) /\ Calm
       \/ LoadUserFailed(p) /\ (Fault \/ (term[p] /\ Calm))
       \/ ChallengeRefused(p) /\ Calm
    /\ Show(p, Back(p, ui[p]))

\* The secret cannot be decrypted: the error ends the command.
CodeUnreadable(p) ==
    /\ At(p, "code")
    /\ SecretUnreadable(p)
    /\ Show(p, Back(p, ui[p]))
    /\ Calm

Abandon(p) ==
    /\ At(p, "code")
    /\ \E c \in Pending(p) : AbandonChallenge(p, c)
    /\ Show(p, Back(p, ui[p]))
    /\ Calm

(***************************************************************************)
(* enable-2fa and disable-2fa                                              *)
(***************************************************************************)
BeginEnrollment(p) ==
    /\ At(p, "enable-2fa") /\ Alive(p)
    /\ BeginLoad(p, ui[p].acct)
    /\ UNCHANGED ui /\ Calm

\* The end of BeginTOTPEnrollment and of CancelTOTPEnrollment.
Saved(p) ==
    /\ Alive(p)
    /\ SaveRow(p)
    /\ \/ /\ Show(p, IF At(p, "enable-2fa") THEN [ui[p] EXCEPT !.at = "enroll"]
                                            ELSE Back(p, ui[p]))
          /\ Calm
       \/ Lost(p)

\* Mutant: no session is spared.
KeptNone(p) == 0

\* sessionID(state). A row that is gone cannot be spared.
Kept(p) == IF ui[p].token \in DOMAIN sessions THEN ui[p].token ELSE 0

Confirm(p) ==
    /\ At(p, "enroll") /\ Alive(p)
    /\ \E code \in Codes : ConfirmLoad(p, ui[p].acct, code, Kept(p))
    /\ UNCHANGED ui /\ Calm

Disable(p) ==
    /\ At(p, "disable-2fa") /\ Alive(p)
    /\ \E code \in Codes : DisableLoad(p, ui[p].acct, code, Kept(p))
    /\ UNCHANGED ui /\ Calm

\* Mutant: the other sessions live on.
PostureChangedAlone(p) ==
    /\ Alive(p)
    /\ Running(p, "confirm") \/ Running(p, "disable")
    /\ UpdateUser(op[p].acct, op[p].row)
    /\ Return(p)
    /\ UNCHANGED <<clock, sessions, nextSid, nextSecret, challenges>>
    /\ Show(p, [ui[p] EXCEPT !.at = "revalidate", !.tries = 0])
    /\ Calm

\* The change is committed and refreshUser follows.
PostureChanged(p) ==
    /\ Alive(p)
    /\ ConfirmSave(p) \/ DisableSave(p)
    /\ Show(p, [ui[p] EXCEPT !.at = "revalidate", !.tries = 0])
    /\ Calm

\* ErrInvalidTOTPCode: the prompt comes again, at most MaxCodePrompts times.
WrongCode(p) ==
    /\ ui[p].at \in {"enroll", "disable-2fa"} /\ Alive(p) /\ Ready(p)
    /\ users[ui[p].acct].secret # NoSecret
    /\ users[ui[p].acct].enabled <=> At(p, "disable-2fa")
    /\ Decrypts(users[ui[p].acct], KeyOf[p])
    /\ Show(p, IF ui[p].tries + 1 < MaxCodePrompts
               THEN [ui[p] EXCEPT !.tries = @ + 1]
               ELSE IF At(p, "enroll") THEN [ui[p] EXCEPT !.at = "cancel", !.tries = 0]
               ELSE Back(p, ui[p]))
    /\ UNCHANGED vars /\ Calm

\* Ctrl-C or an empty line at the enrollment prompt.
GiveUpEnrollment(p) ==
    /\ At(p, "enroll") /\ Ready(p)
    /\ Show(p, [ui[p] EXCEPT !.at = "cancel", !.tries = 0])
    /\ UNCHANGED vars /\ Calm

\* The enrollment is not pending any more, or cannot be read.
EnrollmentLost(p) ==
    /\ At(p, "enroll") /\ Alive(p) /\ Ready(p)
    /\ \/ ~HasPendingTOTPEnrollment(users[ui[p].acct])
       \/ ~Decrypts(users[ui[p].acct], KeyOf[p])
    /\ Show(p, Back(p, ui[p]))
    /\ UNCHANGED vars /\ Calm

CancelEnrollment(p) ==
    /\ At(p, "cancel") /\ Alive(p)
    /\ \/ CancelLoad(p, ui[p].acct) /\ UNCHANGED ui
       \/ /\ Ready(p) /\ ~HasPendingTOTPEnrollment(users[ui[p].acct])
          /\ Show(p, Back(p, ui[p]))
          /\ UNCHANGED vars
    /\ Calm

(***************************************************************************)
(* logout and the shutdown, whose context outlives the signal              *)
(***************************************************************************)
Leaving(p) == At(p, "exit") \/ (At(p, "logout") /\ Alive(p))

LoggedOut(p) ==
    Show(p, IF At(p, "logout") THEN Back(p, Clear(ui[p])) ELSE Clear(ui[p]))

EndSession(p) ==
    /\ Leaving(p)
    /\ LogoutLoad(p, ui[p].token)
    /\ UNCHANGED ui /\ Calm

SessionEnded(p) ==
    /\ Leaving(p)
    /\ LogoutRevoke(p)
    /\ \/ LoggedOut(p) /\ Calm
       \/ At(p, "logout") /\ Lost(p)

SessionOver(p) ==
    /\ Leaving(p) /\ Ready(p)
    /\ ui[p].token # 0
    /\ ui[p].token \in DOMAIN sessions => sessions[ui[p].token].revoked
    /\ LoggedOut(p)
    /\ UNCHANGED vars /\ Calm

Exit(p) ==
    /\ At(p, "exit") /\ Ready(p)
    /\ ui[p].token = 0
    /\ Restart(p, {})
    /\ Show(p, Off)
    /\ Calm

(***************************************************************************)
(* Failures and signals                                                    *)
(***************************************************************************)
\* A shell that is in a service call, or about to make one.
Calling(p) == ~Ready(p) \/ ui[p].at \notin Prompts \cup {"exited"}

\* Its next database call fails, always so when its context is cancelled.
CallFails(p) ==
    /\ Calling(p)
    /\ At(p, "exit") => ui[p].token # 0
    /\ Fault \/ (term[p] /\ ~At(p, "exit") /\ Calm)
    /\ DBError(p) \/ (Ready(p) /\ UNCHANGED vars)
    /\ Show(p, AfterError(p, ui[p]))

\* SIGTERM or SIGHUP cancels the context; the watcher closes the prompter.
Signal(p) ==
    /\ ~At(p, "exited") /\ Alive(p)
    /\ signals < MaxSignals
    /\ signals' = signals + 1
    /\ term' = [term EXCEPT ![p] = TRUE]
    /\ UNCHANGED <<vars, ui, faults>>

\* The process is killed, or Run returns an error of ReadLine that is not the end
\* of input: neither passes through the shutdown.
Kill(p) ==
    /\ ~At(p, "exited")
    /\ Restart(p, {})
    /\ Show(p, Off)
    /\ Fault

Start(p) ==
    /\ At(p, "exited")
    /\ \E gone \in SUBSET PurgeableIds : Restart(p, gone)
    /\ Show(p, [Off EXCEPT !.at = "loop"])
    /\ term' = [term EXCEPT ![p] = FALSE]
    /\ UNCHANGED <<faults, signals>>

(***************************************************************************)
(* The specification                                                       *)
(***************************************************************************)
ShellInit ==
    /\ Init
    /\ ui = [p \in Shells |-> Off]
    /\ term = [p \in Shells |-> FALSE]
    /\ faults = 0
    /\ signals = 0

LoopStep(p) ==
    \/ \E cmd \in Commands : TypeLine(p, cmd)
    \/ ResolveSession(p) \/ SessionDead(p) \/ SessionTouched(p) \/ Reload(p)
    \/ EndOfInput(p) \/ GiveUp(p)

LoginCommandStep(p) ==
    \/ SignUp(p) \/ Password(p) \/ PasswordRefused(p) \/ AskForCode(p) \/ LoggedIn(p)
    \/ AnswerCode(p) \/ ReadAccount(p) \/ CheckCode(p) \/ CodeCounted(p)
    \/ CodeTooLate(p) \/ CodeUnreadable(p)
    \/ Abandon(p)

AccountCommandStep(p) ==
    \/ BeginEnrollment(p) \/ Saved(p) \/ Confirm(p) \/ Disable(p) \/ PostureChanged(p)
    \/ WrongCode(p) \/ GiveUpEnrollment(p) \/ EnrollmentLost(p) \/ CancelEnrollment(p)

LeaveStep(p) == EndSession(p) \/ SessionEnded(p) \/ SessionOver(p) \/ Exit(p)

InterruptStep(p) == CallFails(p) \/ Signal(p) \/ Kill(p) \/ Start(p)

ShellNext ==
    \/ Tick /\ UNCHANGED <<ui, term, faults, signals>>
    \/ \E p \in Shells : \/ LoopStep(p)
                         \/ LoginCommandStep(p)
                         \/ AccountCommandStep(p)
                         \/ LeaveStep(p)
                         \/ InterruptStep(p)

ShellSpec == ShellInit /\ [][ShellNext]_shellVars

\* What a signalled process does by itself: its database calls fail, the check
\* of a code goes on, a closed prompter returns from its read, and the shutdown
\* runs to its end. A prompter that reads a pipe is not unblocked by Close.
Unblocked(p) ==
    \/ term[p] /\ CallFails(p)
    \/ term[p] /\ ~Ready(p) /\ (CheckCode(p) \/ CodeTooLate(p) \/ CodeUnreadable(p))
    \/ term[p] /\ Interactive /\ EndOfInput(p)
    \/ LeaveStep(p)

FairShellSpec == ShellSpec /\ \A p \in Shells : WF_shellVars(Unblocked(p))

(***************************************************************************)
(* Properties                                                              *)
(***************************************************************************)
\* The variables keep their types; a shell caches a user exactly when it has a
\* token, no two shells have the same one, and it is a session of that user.
ShellTypeOK ==
    /\ ui \in [Shells -> UI]
    /\ term \in [Shells -> BOOLEAN]
    /\ faults \in 0 .. MaxFaults
    /\ signals \in 0 .. MaxSignals
    /\ \A p \in Shells :
          /\ ui[p].token # 0 <=> ui[p].acct # NoAccount
          /\ ui[p].token \in DOMAIN sessions => sessions[ui[p].token].owner = ui[p].acct
          /\ \A q \in Shells \ {p} : ui[p].token # 0 => ui[q].token # ui[p].token

\* Live sessions whose token no shell has any more.
Stranded ==
    {i \in DOMAIN sessions :
        IsActive(sessions[i], clock) /\ \A p \in Shells : ui[p].token # i}

\* Parked logins nobody will answer, in a shell that is back at its prompt.
Forgotten(p) == {c \in challenges[p] : At(p, "loop") /\ Unexpired(c)}

\* "the session token lives here and nowhere else": whatever commands are typed,
\* cancelled, refused or ended by the end of input, each database failure, kill,
\* unreadable secret or signal strands at most one login, as a live session
\* without a holder or a parked login without a prompt; nothing else does.
LeftoversAccountedFor ==
    Cardinality(Stranded) + Cardinality(UNION {Forgotten(p) : p \in Shells})
        <= faults + signals

\* Whatever a shell calls, only its logout ends the session it holds: the changes
\* it makes to two factor spare it, and it counts no failures while it has one.
OwnSessionSpared ==
    [][\A p \in Shells :
          LET i == ui[p].token
          IN  /\ i \in DOMAIN sessions \cap DOMAIN sessions'
              /\ ~sessions[i].revoked /\ sessions'[i].revoked
              => op'[p] = op[p] \/ Running(p, "revoke")]_shellVars

\* "Revoking the session still has to happen when we are here because the
\* context was cancelled": without a database failure or a kill, no shell leaves
\* a live session behind.
RevokedAtExit ==
    (faults = 0 /\ \A p \in Shells : At(p, "exited")) => Stranded = {}

\* "A termination signal would otherwise sit unread until the user pressed a
\* key. Closing the prompter unblocks it": a signalled process ends by itself.
SignalEndsShell == \A p \in Shells : term[p] ~> At(p, "exited")
=============================================================================
