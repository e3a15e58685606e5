----------------------------- MODULE ShellProofs -----------------------------
(***************************************************************************)
(* Proofs about the interactive shells of module Shell, for any number of  *)
(* them. They implement AuthService, so everything proved about free       *)
(* callers holds for the program's own. What a shell shows and waits for   *)
(* fits the call it is in, and its parked login and session are its own    *)
(* (ShellsFit). Hence no call of a shell but its own logout ends its       *)
(* session, and every parked login or session left behind is paid for by a *)
(* fault or a signal (Balanced).                                           *)
(***************************************************************************)
EXTENDS Shell, LoginRefinementProofs, FiniteSetTheorems

(***************************************************************************)
(* Each group of actions is a step of AuthService or leaves it alone.      *)
(***************************************************************************)
\* A step of shell p as AuthService sees it.
ServiceStep(p) ==
    \/ LoginStep(p) \/ ChallengeStep(p) \/ EnrollmentStep(p)
    \/ SessionStep(p) \/ FailureStep(p)
    \/ UNCHANGED vars

LEMMA ServiceStepIsStep == ASSUME NEW p \in Shells, ServiceStep(p) PROVE [Next]_vars
  BY DEF ServiceStep, Next

LEMMA LoopStepImplements ==
    ASSUME NEW p \in Shells, LoopStep(p)
    PROVE  ServiceStep(p)
<1>1. CASE \E cmd \in Commands : TypeLine(p, cmd)
  BY <1>1 DEF TypeLine, ServiceStep
<1>2. CASE ResolveSession(p)
  BY <1>2, ZenonT(30) DEF ResolveSession, ServiceStep, SessionStep, ResolveLoad
<1>3. CASE SessionDead(p) \/ Reload(p) \/ EndOfInput(p) \/ GiveUp(p)
  BY <1>3 DEF SessionDead, Reload, EndOfInput, GiveUp, ServiceStep
<1>4. CASE SessionTouched(p)
  BY <1>4 DEF SessionTouched, ServiceStep, SessionStep
<1> QED BY <1>1, <1>2, <1>3, <1>4 DEF LoopStep

LEMMA LoginCommandStepImplements ==
    ASSUME NEW p \in Shells, LoginCommandStep(p)
    PROVE  ServiceStep(p)
<1>1. CASE SignUp(p)
  BY <1>1 DEF SignUp, ServiceStep, LoginStep
<1>2. CASE Password(p)
  BY <1>2 DEF Password, ServiceStep, LoginStep
<1>3. CASE PasswordRefused(p)
  BY <1>3 DEF PasswordRefused, ServiceStep, LoginStep
<1>4. CASE AskForCode(p)
  BY <1>4 DEF AskForCode, ServiceStep, LoginStep
<1>5. CASE LoggedIn(p)
  BY <1>5 DEF LoggedIn, ServiceStep, LoginStep, ChallengeStep
<1>6. CASE \/ AnswerCode(p) \/ ReadAccount(p) \/ CheckCode(p) \/ CodeTooLate(p)
           \/ CodeUnreadable(p) \/ Abandon(p)
  <2>1. AnswerStep(p)
    BY <1>6 DEF AnswerCode, ReadAccount, CheckCode, CodeTooLate, CodeUnreadable, Abandon,
       Pending, AnswerStep
  <2> QED BY <2>1 DEF ServiceStep, ChallengeStep
<1>7. CASE CodeCounted(p)
  BY <1>7 DEF CodeCounted, ServiceStep, ChallengeStep
<1> QED
  BY <1>1, <1>2, <1>3, <1>4, <1>5, <1>6, <1>7 DEF LoginCommandStep

LEMMA AccountCommandStepImplements ==
    ASSUME NEW p \in Shells, TypeOK, AccountCommandStep(p)
    PROVE  ServiceStep(p)
<1>0. DOMAIN users \subseteq Accounts
  BY DEF TypeOK
<1>1. CASE BeginEnrollment(p)
  <2>1. BeginLoad(p, ui[p].acct) /\ ui[p].acct \in Accounts
    BY <1>0, <1>1 DEF BeginEnrollment, BeginLoad
  <2> QED BY <2>1 DEF ServiceStep, EnrollmentStep
<1>2. CASE Saved(p)
  BY <1>2 DEF Saved, ServiceStep, EnrollmentStep
<1>3. CASE Confirm(p)
  <2>1. PICK code \in Codes : ConfirmLoad(p, ui[p].acct, code, Kept(p))
    BY <1>3 DEF Confirm
  <2>2. ui[p].acct \in Accounts /\ Kept(p) \in Keepable(ui[p].acct)
    BY <1>0, <2>1 DEF ConfirmLoad
  <2> QED BY <2>1, <2>2 DEF ServiceStep, EnrollmentStep
<1>4. CASE Disable(p)
  <2>1. PICK code \in Codes : DisableLoad(p, ui[p].acct, code, Kept(p))
    BY <1>4 DEF Disable
  <2>2. ui[p].acct \in Accounts /\ Kept(p) \in Keepable(ui[p].acct)
    BY <1>0, <2>1 DEF DisableLoad
  <2> QED BY <2>1, <2>2 DEF ServiceStep, EnrollmentStep
<1>5. CASE PostureChanged(p)
  BY <1>5 DEF PostureChanged, ServiceStep, EnrollmentStep
<1>6. CASE WrongCode(p) \/ GiveUpEnrollment(p) \/ EnrollmentLost(p)
  BY <1>6 DEF WrongCode, GiveUpEnrollment, EnrollmentLost, ServiceStep
<1>7. CASE CancelEnrollment(p)
  <2>1. CASE CancelLoad(p, ui[p].acct)
    <3>1. ui[p].acct \in Accounts
      BY <1>0, <2>1 DEF CancelLoad
    <3> QED BY <2>1, <3>1 DEF ServiceStep, EnrollmentStep
  <2>2. CASE UNCHANGED vars
    BY <2>2 DEF ServiceStep
  <2> QED BY <1>7, <2>1, <2>2 DEF CancelEnrollment
<1> QED
  BY <1>1, <1>2, <1>3, <1>4, <1>5, <1>6, <1>7 DEF AccountCommandStep

LEMMA LeaveStepImplements ==
    ASSUME NEW p \in Shells, LeaveStep(p)
    PROVE  ServiceStep(p)
<1>1. CASE EndSession(p)
  BY <1>1, ZenonT(30) DEF EndSession, LogoutLoad, ServiceStep, SessionStep
<1>2. CASE SessionEnded(p)
  BY <1>2 DEF SessionEnded, ServiceStep, SessionStep
<1>3. CASE SessionOver(p)
  BY <1>3 DEF SessionOver, ServiceStep
<1>4. CASE Exit(p)
  BY <1>4 DEF Exit, ServiceStep, FailureStep
<1> QED BY <1>1, <1>2, <1>3, <1>4 DEF LeaveStep

LEMMA InterruptStepImplements ==
    ASSUME NEW p \in Shells, InterruptStep(p)
    PROVE  ServiceStep(p)
<1>1. CASE CallFails(p)
  BY <1>1 DEF CallFails, ServiceStep, FailureStep
<1>2. CASE Signal(p)
  BY <1>2 DEF Signal, ServiceStep
<1>3. CASE Kill(p)
  BY <1>3 DEF Kill, ServiceStep, FailureStep
<1>4. CASE Start(p)
  BY <1>4 DEF Start, ServiceStep, FailureStep
<1> QED BY <1>1, <1>2, <1>3, <1>4 DEF InterruptStep

LEMMA ShellStepImplements ==
    ASSUME TypeOK, [ShellNext]_shellVars
    PROVE  [Next]_vars
<1>1. CASE Tick
  BY <1>1 DEF Next
<1>2. ASSUME NEW p \in Shells, LoopStep(p) PROVE [Next]_vars
  BY <1>2, LoopStepImplements, ServiceStepIsStep
<1>3. ASSUME NEW p \in Shells, LoginCommandStep(p) PROVE [Next]_vars
  BY <1>3, LoginCommandStepImplements, ServiceStepIsStep
<1>4. ASSUME NEW p \in Shells, AccountCommandStep(p) PROVE [Next]_vars
  BY <1>4, AccountCommandStepImplements, ServiceStepIsStep
<1>5. ASSUME NEW p \in Shells, LeaveStep(p) PROVE [Next]_vars
  BY <1>5, LeaveStepImplements, ServiceStepIsStep
<1>6. ASSUME NEW p \in Shells, InterruptStep(p) PROVE [Next]_vars
  BY <1>6, InterruptStepImplements, ServiceStepIsStep
<1>7. CASE UNCHANGED shellVars
  BY <1>7 DEF shellVars, vars
<1> QED
  BY <1>1, <1>2, <1>3, <1>4, <1>5, <1>6, <1>7 DEF ShellNext

\* The interactive shells, with their prompts, signals and shutdown, make only
\* the service calls AuthService has, in the states it makes them in: whatever
\* AuthService guarantees to free callers, it guarantees to the program.
THEOREM ShellImplementsService == ShellSpec => Spec
<1>1. ShellInit => Init
  BY DEF ShellInit
<1>2. ShellInit => TypeOK
  BY <1>1, InitType
<1>3. TypeOK /\ [ShellNext]_shellVars => [Next]_vars
  BY ShellStepImplements
<1>4. TypeOK /\ [ShellNext]_shellVars => TypeOK'
  BY <1>3, TypeStep
<1> QED BY <1>1, <1>2, <1>3, <1>4, PTL DEF ShellSpec, Spec

\* An interactive shell that has the database to itself gives its user what the
\* documents promise: LoginPromise, through AuthService, down to its prompts.
THEOREM LoneShellKeepsPromise == ASSUME Alone PROVE ShellSpec => KeepsPromise
<1>1. Spec => KeepsPromise
  BY OneShellKeepsPromise
<1> QED BY <1>1, ShellImplementsService, PTL

(***************************************************************************)
(* What a shell knows about its own call and login: the inductive          *)
(* invariant under the properties of the shells.                           *)
(***************************************************************************)
SignedInPlaces == {"revalidate", "reload", "enable-2fa", "enroll", "cancel",
                   "disable-2fa", "logout"}
GuestPlaces == {"exited", "register", "login", "code"}

\* A cached login is one of a registered account, for a session that was issued.
LoginFits(u, accts, table, next) ==
    /\ u \in UI
    /\ u.token # 0 <=> u.acct # NoAccount
    /\ u.token # 0 => u.acct \in accts
    /\ u.token < next
    /\ u.token \in DOMAIN table => table[u.token].owner = u.acct

PlaceFits(u) ==
    /\ u.at \in SignedInPlaces => u.token # 0
    /\ u.at \in GuestPlaces => u.token = 0

\* A service call is made from the place of its command, and about the login or
\* the challenge the shell holds.
CallFits(u, call, table) ==
    /\ call.pc \in {"clearLock", "verify"} => u.at = "login"
    /\ call.pc \in {"loadUser", "checkCode", "codeFailed", "codeLogin"}
          => u.at = "code" /\ call.ref = u.challenge
    /\ call.pc = "save" => u.at \in {"enable-2fa", "cancel"}
    /\ call.pc = "confirm" => u.at = "enroll"
    /\ call.pc = "disable" => u.at = "disable-2fa"
    /\ call.pc = "touch" => u.at = "revalidate" /\ call.ref = u.token
    /\ call.pc = "revoke" => u.at \in {"logout", "exit"} /\ call.ref = u.token
    /\ call.pc \in {"confirm", "disable"} /\ u.token \in DOMAIN table
          => call.ref = u.token

IdsUnique(store) == \A c, d \in store : c.id = d.id => c = d

ShellFits(p) ==
    /\ LoginFits(ui[p], DOMAIN users, sessions, nextSid)
    /\ PlaceFits(ui[p])
    /\ CallFits(ui[p], op[p], sessions)
    /\ IdsUnique(challenges[p])

TokensApart ==
    \A p, q \in Shells : p # q /\ ui[p].token # 0 => ui[q].token # ui[p].token

ShellsFit ==
    /\ ui \in [Shells -> UI] /\ term \in [Shells -> BOOLEAN]
    /\ faults \in 0 .. MaxFaults /\ signals \in 0 .. MaxSignals
    /\ \A p \in Shells : ShellFits(p)
    /\ TokensApart

(***************************************************************************)
(* The helpers of the loop keep a login that fits                          *)
(***************************************************************************)
LEMMA BackFits ==
    ASSUME NEW p \in Shells, NEW u, NEW accts, NEW table, NEW next,
           LoginFits(u, accts, table, next)
    PROVE  /\ LoginFits(Back(p, u), accts, table, next)
           /\ PlaceFits(Back(p, u))
           /\ Back(p, u).token = u.token
           /\ Back(p, u).at = IF term[p] THEN "exit" ELSE "loop"
  BY DEF LoginFits, PlaceFits, Back, UI, Places, SignedInPlaces, GuestPlaces

LEMMA ClearFits ==
    ASSUME NEW u, NEW accts, NEW table, NEW next \in Nat \ {0},
           DOMAIN table \subseteq 1 .. next - 1,
           LoginFits(u, accts, table, next)
    PROVE  /\ LoginFits(Clear(u), accts, table, next)
           /\ Clear(u).token = 0 /\ Clear(u).at = u.at /\ Clear(u).cmd = u.cmd
<1>1. u \in UI
  BY DEF LoginFits
<1>2. /\ Clear(u) \in UI /\ Clear(u).token = 0 /\ Clear(u).acct = NoAccount
      /\ Clear(u).at = u.at /\ Clear(u).cmd = u.cmd
  BY <1>1 DEF Clear, UI
<1>3. 0 < next /\ 0 \notin DOMAIN table
  OBVIOUS
<1> QED BY <1>2, <1>3 DEF LoginFits

LEMMA DispatchFits ==
    ASSUME NEW p \in Shells, NEW u, NEW accts, NEW table, NEW next,
           LoginFits(u, accts, table, next)
    PROVE  /\ LoginFits(Dispatch(p, u), accts, table, next)
           /\ PlaceFits(Dispatch(p, u))
           /\ Dispatch(p, u).token = u.token
<1>1. CASE \/ u.cmd \in {"none", "whoami", "help"}
           \/ ~InScope(u.cmd, u.token # 0)
           \/ u.cmd = "disable-2fa" /\ ~u.two
  <2>1. Dispatch(p, u) = Back(p, u)
    BY <1>1 DEF Dispatch
  <2> QED BY <2>1, BackFits
<1>2. CASE ~ \/ u.cmd \in {"none", "whoami", "help"}
             \/ ~InScope(u.cmd, u.token # 0)
             \/ u.cmd = "disable-2fa" /\ ~u.two
  <2>1. Dispatch(p, u) = [u EXCEPT !.at = u.cmd, !.cmd = "none"]
    BY <1>2 DEF Dispatch
  <2>2. /\ u.cmd \in {"register", "login", "enable-2fa", "disable-2fa", "logout", "exit"}
        /\ u.cmd \in {"register", "login"} => u.token = 0
        /\ u.cmd \in {"enable-2fa", "disable-2fa", "logout"} => u.token # 0
    BY <1>2 DEF LoginFits, UI, Commands, Guest, SignedIn, InScope
  <2>3. /\ Dispatch(p, u) \in UI /\ Dispatch(p, u).at = u.cmd
        /\ Dispatch(p, u).token = u.token /\ Dispatch(p, u).acct = u.acct
    BY <2>1, <2>2 DEF LoginFits, UI, Places, Commands
  <2>4. LoginFits(Dispatch(p, u), accts, table, next)
    BY <2>3 DEF LoginFits
  <2>5. PlaceFits(Dispatch(p, u))
    BY <2>2, <2>3 DEF PlaceFits, SignedInPlaces, GuestPlaces
  <2> QED BY <2>3, <2>4, <2>5
<1> QED BY <1>1, <1>2

LEMMA NotResolvedFits ==
    ASSUME NEW p \in Shells, NEW u, NEW accts, NEW table, NEW next \in Nat \ {0},
           DOMAIN table \subseteq 1 .. next - 1,
           LoginFits(u, accts, table, next)
    PROVE  /\ LoginFits(NotResolved(p, u), accts, table, next)
           /\ PlaceFits(NotResolved(p, u))
           /\ NotResolved(p, u).token \in {0, u.token}
<1>1. LoginFits(Clear(u), accts, table, next) /\ Clear(u).token = 0
  BY ClearFits
<1> QED BY <1>1, BackFits, DispatchFits DEF NotResolved

LEMMA AfterErrorFits ==
    ASSUME NEW p \in Shells, NEW u, NEW accts, NEW table, NEW next \in Nat \ {0},
           DOMAIN table \subseteq 1 .. next - 1,
           LoginFits(u, accts, table, next)
    PROVE  /\ LoginFits(AfterError(p, u), accts, table, next)
           /\ PlaceFits(AfterError(p, u))
           /\ AfterError(p, u).token \in {0, u.token}
<1>1. u.at = "exit" => PlaceFits(Clear(u))
  BY ClearFits DEF PlaceFits, SignedInPlaces, GuestPlaces
<1> QED BY <1>1, ClearFits, BackFits, NotResolvedFits DEF AfterError

LEMMA IdleFits == \A u, table : CallFits(u, Idle, table)
  BY DEF CallFits, Idle

LEMMA OffFits ==
    ASSUME NEW accts, NEW table, NEW next \in Nat \ {0},
           DOMAIN table \subseteq 1 .. next - 1
    PROVE  /\ LoginFits(Off, accts, table, next) /\ PlaceFits(Off) /\ Off.token = 0
           /\ LoginFits([Off EXCEPT !.at = "loop"], accts, table, next)
           /\ PlaceFits([Off EXCEPT !.at = "loop"])
           /\ [Off EXCEPT !.at = "loop"].token = 0
<1>1. 0 < next /\ 0 \notin DOMAIN table
  OBVIOUS
<1>2. Off \in UI /\ [Off EXCEPT !.at = "loop"] \in UI
  BY DEF Off, UI, Places, Commands, Guest, SignedIn
<1>3. /\ Off.token = 0 /\ Off.acct = NoAccount /\ Off.at = "exited"
      /\ [Off EXCEPT !.at = "loop"].token = 0
      /\ [Off EXCEPT !.at = "loop"].acct = NoAccount
      /\ [Off EXCEPT !.at = "loop"].at = "loop"
  BY DEF Off
<1> QED BY <1>1, <1>2, <1>3 DEF LoginFits, PlaceFits, SignedInPlaces, GuestPlaces

(***************************************************************************)
(* What other shells do leaves a login that fits                           *)
(***************************************************************************)
\* No account is ever deleted.
LEMMA AccountsStay == TypeOK /\ [Next]_vars => DOMAIN users \subseteq DOMAIN users'
<1> SUFFICES ASSUME TypeOK, [Next]_vars PROVE DOMAIN users \subseteq DOMAIN users'
  OBVIOUS
<1>1. ASSUME NEW p \in Shells, LoginStep(p) PROVE DOMAIN users \subseteq DOMAIN users'
  BY <1>1 DEF LoginStep, Register, Insert, AuthenticateLoad, ClearLockSave, PasswordFailed,
     RecordFailure, Rehash, Park, PasswordLogin, CompleteLogin, UpdateUser, tables
<1>2. ASSUME NEW p \in Shells, ChallengeStep(p) PROVE DOMAIN users \subseteq DOMAIN users'
  BY <1>2, AnswerQuiet DEF ChallengeStep, CodeFailed, RecordFailure, CodeLogin,
     CompleteLogin, UpdateUser
<1>3. ASSUME NEW p \in Shells, EnrollmentStep(p) PROVE DOMAIN users \subseteq DOMAIN users'
  BY <1>3 DEF EnrollmentStep, BeginLoad, CancelLoad, SaveRow, ConfirmLoad, ConfirmSave,
     DisableLoad, DisableSave, PostureSave, UpdateUser, tables
<1>4. ASSUME NEW p \in Shells, SessionStep(p) \/ FailureStep(p)
      PROVE  DOMAIN users \subseteq DOMAIN users'
  BY <1>4 DEF SessionStep, ResolveLoad, Touch, LogoutLoad, LogoutRevoke, FailureStep,
     DBError, Restart, tables
<1> QED BY <1>1, <1>2, <1>3, <1>4 DEF Next, Tick, tables, vars

\* The tables of the next state, as the lemmas above want them.
LEMMA NextTables ==
    ASSUME TypeOK, [Next]_vars
    PROVE  /\ nextSid \in Nat \ {0} /\ nextSid' \in Nat \ {0} /\ nextSid <= nextSid'
           /\ DOMAIN sessions \subseteq 1 .. nextSid - 1
           /\ DOMAIN sessions' \subseteq 1 .. nextSid' - 1
           /\ DOMAIN sessions' \subseteq DOMAIN sessions \cup {nextSid}
           /\ \A i \in DOMAIN sessions \cap DOMAIN sessions' :
                 sessions'[i].owner = sessions[i].owner
<1>1. TypeOK'
  BY TypeStep
<1>2. SessionsStep
  BY SessionsFlow
<1>3. \A i \in DOMAIN sessions \cap DOMAIN sessions' :
         sessions'[i].owner = sessions[i].owner
  <2> SUFFICES ASSUME NEW i \in DOMAIN sessions \cap DOMAIN sessions'
               PROVE  sessions'[i].owner = sessions[i].owner
    OBVIOUS
  <2>1. sessions[i] \in Session(DOMAIN users) /\ i # nextSid
    BY DEF TypeOK
  <2> QED BY <1>2, <2>1 DEF SessionsStep, Session
<1> QED BY <1>1, <1>2, <1>3 DEF TypeOK, SessionsStep

LEMMA LoginStands ==
    ASSUME TypeOK, [Next]_vars, NEW u,
           LoginFits(u, DOMAIN users, sessions, nextSid)
    PROVE  /\ LoginFits(u, DOMAIN users', sessions', nextSid')
           /\ u.token \in DOMAIN sessions' => u.token \in DOMAIN sessions
<1>1. u.token \in Nat /\ u.token < nextSid
  BY DEF LoginFits, UI
<1>2. u.token < nextSid'
  BY <1>1, NextTables
<1>3. u.token \in DOMAIN sessions' => u.token \in DOMAIN sessions
  BY <1>1, NextTables
<1> QED BY <1>1, <1>2, <1>3, NextTables, AccountsStay DEF LoginFits

LEMMA CallStands ==
    ASSUME TypeOK, [Next]_vars, NEW u, NEW call,
           LoginFits(u, DOMAIN users, sessions, nextSid), CallFits(u, call, sessions)
    PROVE  CallFits(u, call, sessions')
  BY LoginStands DEF CallFits

(***************************************************************************)
(* A step of one shell                                                     *)
(***************************************************************************)
\* No shell sees the stack or the store of another.
LEMMA OthersApart ==
    ASSUME TypeOK, NEW p \in Shells, ServiceStep(p)
    PROVE  \A q \in Shells \ {p} : op'[q] = op[q] /\ challenges'[q] = challenges[q]
<1> op \in [Shells -> Call] /\ challenges \in [Shells -> SUBSET Challenge]
  BY DEF TypeOK
<1>1. CASE LoginStep(p)
  BY <1>1 DEF LoginStep, Register, AuthenticateLoad, ClearLockSave, PasswordFailed, Rehash,
     Park, SaveChallenge, PasswordLogin, Return
<1>2. CASE ChallengeStep(p)
  <2>1. ASSUME NEW c, FindChallenge(p, c) \/ LoadUser(p)
        PROVE  \A q \in Shells \ {p} : op'[q] = op[q] /\ challenges'[q] = challenges[q]
    BY <2>1 DEF FindChallenge, LoadUser, Proceed
  <2>2. ASSUME NEW code, CodeWrong(p, code) \/ CodeRight(p, code)
        PROVE  \A q \in Shells \ {p} : op'[q] = op[q] /\ challenges'[q] = challenges[q]
    BY <2>2 DEF CodeWrong, CodeRight, Decide, SaveChallenge, DeleteChallenge
  <2>3. ASSUME Discards(p)
        PROVE  \A q \in Shells \ {p} : op'[q] = op[q] /\ challenges'[q] = challenges[q]
    BY <2>3 DEF Discards, DeleteChallenge, Return
  <2>4. CASE AnswerStep(p)
    BY <2>1, <2>2, <2>3, <2>4, AnswerCases
  <2> QED BY <1>2, <2>4 DEF ChallengeStep, CodeFailed, CodeLogin, DeleteChallenge, Return
<1>3. CASE EnrollmentStep(p)
  BY <1>3 DEF EnrollmentStep, BeginLoad, CancelLoad, SaveRow, ConfirmLoad, ConfirmSave,
     DisableLoad, DisableSave, PostureSave, Proceed, Return
<1>4. CASE SessionStep(p) \/ FailureStep(p)
  BY <1>4 DEF SessionStep, ResolveLoad, Touch, LogoutLoad, LogoutRevoke, FailureStep,
     DBError, Restart, Return
<1>5. CASE UNCHANGED vars
  BY <1>5 DEF vars
<1> QED BY <1>1, <1>2, <1>3, <1>4, <1>5 DEF ServiceStep

\* A store never holds two challenges of one id.
LEMMA IdsStayUnique ==
    ASSUME TypeOK, NEW p \in Shells, ServiceStep(p), IdsUnique(challenges[p])
    PROVE  IdsUnique(challenges'[p])
<1> challenges \in [Shells -> SUBSET Challenge]
  BY DEF TypeOK
<1>1. ASSUME challenges'[p] \subseteq challenges[p] PROVE IdsUnique(challenges'[p])
  BY <1>1 DEF IdsUnique
<1>2. ASSUME NEW c, SaveChallenge(p, c) PROVE IdsUnique(challenges'[p])
  BY <1>2 DEF SaveChallenge, IdsUnique
<1>3. ASSUME NEW id, DeleteChallenge(p, id) PROVE IdsUnique(challenges'[p])
  BY <1>1, <1>3 DEF DeleteChallenge
<1>4. CASE LoginStep(p)
  BY <1>1, <1>2, <1>4 DEF LoginStep, Register, AuthenticateLoad, ClearLockSave,
     PasswordFailed, Rehash, Park, PasswordLogin
<1>5. CASE ChallengeStep(p)
  <2>1. CASE AnswerStep(p)
    BY <1>1, <1>2, <1>3, <2>1, AnswerCases
    DEF FindChallenge, LoadUser, CodeWrong, CodeRight, Discards
  <2> QED BY <1>1, <1>3, <1>5, <2>1 DEF ChallengeStep, CodeFailed, CodeLogin
<1>6. CASE EnrollmentStep(p)
  BY <1>1, <1>6 DEF EnrollmentStep, BeginLoad, CancelLoad, SaveRow, ConfirmLoad,
     ConfirmSave, DisableLoad, DisableSave, PostureSave
<1>7. CASE SessionStep(p) \/ FailureStep(p)
  BY <1>1, <1>7 DEF SessionStep, ResolveLoad, Touch, LogoutLoad, LogoutRevoke, FailureStep,
     DBError, Restart
<1>8. CASE UNCHANGED vars
  BY <1>1, <1>8 DEF vars
<1> QED BY <1>4, <1>5, <1>6, <1>7, <1>8 DEF ServiceStep

\* Where a step puts its call, and what about.
LEMMA CallsLoaded ==
    ASSUME TypeOK, NEW p \in Shells
    PROVE  /\ \A a, good : AuthenticateLoad(p, a, good) => op'[p].pc \in {"clearLock", "verify"}
           /\ ClearLockSave(p) \/ Rehash(p) => op'[p].pc = "verify"
           /\ \A c : FindChallenge(p, c) => op'[p].pc = "loadUser" /\ op'[p].ref = c.id
           /\ LoadUser(p) => op'[p].pc = "checkCode" /\ op'[p].ref = op[p].ref
           /\ \A code : CodeWrong(p, code) \/ CodeRight(p, code)
                 => op'[p].pc \in {"codeFailed", "codeLogin"} /\ op'[p].ref = op[p].ref
           /\ \A a : BeginLoad(p, a) \/ CancelLoad(p, a) => op'[p].pc = "save"
           /\ \A a, code, keep :
                 /\ ConfirmLoad(p, a, code, keep) => op'[p].pc = "confirm" /\ op'[p].ref = keep
                 /\ DisableLoad(p, a, code, keep) => op'[p].pc = "disable" /\ op'[p].ref = keep
           /\ \A i : /\ ResolveLoad(p, i) => op'[p].pc = "touch" /\ op'[p].ref = i
                     /\ LogoutLoad(p, i) => op'[p].pc = "revoke" /\ op'[p].ref = i
<1> op \in [Shells -> Call]
  BY DEF TypeOK
<1>1. \A a, good : AuthenticateLoad(p, a, good) => op'[p].pc \in {"clearLock", "verify"}
  BY DEF AuthenticateLoad, Idle
<1>2. ClearLockSave(p) \/ Rehash(p) => op'[p].pc = "verify"
  BY DEF ClearLockSave, Rehash, Running, Call
<1>3. ASSUME NEW code, CodeWrong(p, code) \/ CodeRight(p, code)
      PROVE  op'[p].pc \in {"codeFailed", "codeLogin"} /\ op'[p].ref = op[p].ref
  <2>1. PICK pc \in {"codeFailed", "codeLogin"} : Decide(p, pc)
    BY <1>3 DEF CodeWrong, CodeRight
  <2>2. op'[p] = [op[p] EXCEPT !.pc = pc, !.at = clock] /\ op[p] \in Call
    BY <2>1 DEF Decide
  <2> QED BY <2>2 DEF Call
<1>8. ASSUME NEW c, FindChallenge(p, c) PROVE op'[p].pc = "loadUser" /\ op'[p].ref = c.id
  <2>1. op'[p] = [Idle EXCEPT !.pc = "loadUser", !.acct = c.acct, !.row = NewUser(0),
                              !.ref = c.id]
    BY <1>8 DEF FindChallenge, Proceed
  <2> QED BY <2>1 DEF Idle
<1>9. ASSUME LoadUser(p) PROVE op'[p].pc = "checkCode" /\ op'[p].ref = op[p].ref
  <2>1. op'[p] = [Idle EXCEPT !.pc = "checkCode", !.acct = op[p].acct,
                              !.row = users[op[p].acct], !.ref = op[p].ref]
    BY <1>9 DEF LoadUser, Proceed
  <2> QED BY <2>1 DEF Idle
<1>4. \A a : BeginLoad(p, a) \/ CancelLoad(p, a) => op'[p].pc = "save"
  BY DEF BeginLoad, CancelLoad, Proceed, Idle
<1>5. ASSUME NEW a, NEW code, NEW keep, ConfirmLoad(p, a, code, keep)
      PROVE  op'[p].pc = "confirm" /\ op'[p].ref = keep
  <2>1. op'[p] = [Idle EXCEPT !.pc = "confirm", !.acct = a,
                              !.row = [users[a] EXCEPT !.enabled = TRUE], !.ref = keep]
    BY <1>5 DEF ConfirmLoad, Proceed
  <2> QED BY <2>1 DEF Idle
<1>6. ASSUME NEW a, NEW code, NEW keep, DisableLoad(p, a, code, keep)
      PROVE  op'[p].pc = "disable" /\ op'[p].ref = keep
  <2>1. PICK row : op'[p] = [Idle EXCEPT !.pc = "disable", !.acct = a,
                                         !.row = row, !.ref = keep]
    BY <1>6 DEF DisableLoad, Proceed
  <2> QED BY <2>1 DEF Idle
<1>7. \A i : /\ ResolveLoad(p, i) => op'[p].pc = "touch" /\ op'[p].ref = i
             /\ LogoutLoad(p, i) => op'[p].pc = "revoke" /\ op'[p].ref = i
  BY DEF ResolveLoad, LogoutLoad, Idle
<1> QED BY <1>1, <1>2, <1>3, <1>4, <1>5, <1>6, <1>7, <1>8, <1>9

LEMMA CallsReturned ==
    ASSUME TypeOK, NEW p \in Shells, NEW id, NEW acked, NEW gone,
           \/ PasswordFailed(p) \/ Park(p, id) \/ PasswordLogin(p)
           \/ CodeFailed(p, acked) \/ CodeLogin(p)
           \/ SaveRow(p) \/ ConfirmSave(p) \/ DisableSave(p)
           \/ Touch(p) \/ LogoutRevoke(p) \/ DBError(p) \/ Restart(p, gone)
           \/ Discards(p)
           \/ Ready(p) /\ UNCHANGED op
    PROVE  op'[p].pc = "idle"
<1>1. CASE Ready(p) /\ UNCHANGED op
  BY <1>1 DEF Ready, Running
<1>2. CASE op' = [op EXCEPT ![p] = Idle]
  BY <1>2 DEF TypeOK, Idle
<1> QED
  BY <1>1, <1>2
  DEF PasswordFailed, Park, PasswordLogin, CodeFailed, CodeLogin, SaveRow, ConfirmSave,
      DisableSave, PostureSave, Touch, LogoutRevoke, DBError, Restart, Discards, Return

\* The ways an answer, or none, ends the prompt for a code.
LEMMA PromptEnds ==
    ASSUME NEW p \in Shells, CodeTooLate(p) \/ CodeUnreadable(p) \/ Abandon(p)
    PROVE  AnswerStep(p) /\ Discards(p)
  BY DEF CodeTooLate, CodeUnreadable, Abandon, Pending, AnswerStep, Discards,
     ChallengeExpired, LoadUserFailed, ChallengeRefused, Refuse, SecretUnreadable,
     AbandonChallenge

\* Shell p goes on with u.
Settled(p, u) ==
    /\ ui' = [ui EXCEPT ![p] = u]
    /\ LoginFits(u, DOMAIN users', sessions', nextSid')
    /\ PlaceFits(u)
    /\ CallFits(u, op'[p], sessions')
    /\ \/ u.token \in {0, ui[p].token}
       \/ u.token = nextSid /\ nextSid' = nextSid + 1

BoundsKept ==
    /\ term' \in [Shells -> BOOLEAN]
    /\ faults' \in 0 .. MaxFaults /\ signals' \in 0 .. MaxSignals

LEMMA SettledFits ==
    ASSUME TypeOK, ShellsFit, NEW p \in Shells, ServiceStep(p), BoundsKept,
           NEW u, Settled(p, u)
    PROVE  ShellsFit'
<1>0. [Next]_vars
  BY ServiceStepIsStep
<1>1. u \in UI /\ u.token \in Nat
  BY DEF Settled, LoginFits, UI
<1>2. ui' \in [Shells -> UI] /\ ui'[p] = u /\ \A q \in Shells \ {p} : ui'[q] = ui[q]
  BY <1>1 DEF Settled, ShellsFit
<1>3. ShellFits(p)'
  BY <1>2, IdsStayUnique DEF Settled, ShellsFit, ShellFits
<1>4. ASSUME NEW q \in Shells \ {p} PROVE ShellFits(q)'
  <2>1. ui'[q] = ui[q] /\ op'[q] = op[q] /\ challenges'[q] = challenges[q]
    BY <1>2, OthersApart
  <2>2. LoginFits(ui[q], DOMAIN users', sessions', nextSid')
    BY <1>0, LoginStands DEF ShellsFit, ShellFits
  <2>3. CallFits(ui[q], op[q], sessions')
    BY <1>0, CallStands DEF ShellsFit, ShellFits
  <2> QED BY <2>1, <2>2, <2>3 DEF ShellsFit, ShellFits
<1>5. \A q \in Shells : ui[q].token < nextSid /\ ui[q].token \in Nat
  BY DEF ShellsFit, ShellFits, LoginFits, UI
<1>6. nextSid \in Nat \ {0}
  BY DEF TypeOK
<1>7. TokensApart'
  BY <1>1, <1>2, <1>5, <1>6 DEF Settled, ShellsFit, TokensApart
<1> QED BY <1>2, <1>3, <1>4, <1>7 DEF ShellsFit, BoundsKept

\* What the cases below know of the shell that takes the step.
LEMMA FitsNow ==
    ASSUME TypeOK, ShellsFit, NEW p \in Shells, ServiceStep(p)
    PROVE  /\ ui \in [Shells -> UI] /\ ui[p] \in UI /\ term[p] \in BOOLEAN
           /\ LoginFits(ui[p], DOMAIN users', sessions', nextSid')
           /\ PlaceFits(ui[p]) /\ CallFits(ui[p], op[p], sessions)
           /\ CallFits(ui[p], op[p], sessions')
           /\ nextSid' \in Nat \ {0} /\ DOMAIN sessions' \subseteq 1 .. nextSid' - 1
<1>1. [Next]_vars
  BY ServiceStepIsStep
<1> QED BY <1>1, LoginStands, CallStands, NextTables DEF ShellsFit, ShellFits

LEMMA StillFits ==
    ASSUME NEW u, NEW v, NEW accts, NEW table, NEW next, LoginFits(u, accts, table, next),
           v \in UI, v.token = u.token, v.acct = u.acct
    PROVE  LoginFits(v, accts, table, next)
  BY DEF LoginFits

LEMMA IdleCallFits == \A u, call, table : call.pc = "idle" => CallFits(u, call, table)
  BY DEF CallFits

LEMMA GoesBack ==
    ASSUME TypeOK, ShellsFit, NEW p \in Shells, ServiceStep(p),
           Show(p, Back(p, ui[p])), op'[p].pc = "idle"
    PROVE  Settled(p, Back(p, ui[p]))
  BY FitsNow, BackFits, IdleCallFits DEF Settled, Show

LEMMA StaysPut ==
    ASSUME TypeOK, ShellsFit, NEW p \in Shells, ServiceStep(p),
           UNCHANGED ui, CallFits(ui[p], op'[p], sessions')
    PROVE  Settled(p, ui[p])
  BY FitsNow DEF Settled

LEMMA MovesOn ==
    ASSUME TypeOK, ShellsFit, NEW p \in Shells, ServiceStep(p),
           NEW u \in UI, Show(p, u), op'[p].pc = "idle",
           u.token = ui[p].token, u.acct = ui[p].acct, PlaceFits(u)
    PROVE  Settled(p, u)
  BY FitsNow, StillFits, IdleCallFits DEF Settled, Show

\* A call that is over leaves the shell free to go on with any login that fits.
LEMMA GoesOn ==
    ASSUME NEW p \in Shells, NEW u, Show(p, u), op'[p].pc = "idle",
           LoginFits(u, DOMAIN users', sessions', nextSid'), PlaceFits(u),
           u.token \in {0, ui[p].token}
    PROVE  Settled(p, u)
  BY IdleCallFits DEF Settled, Show

\* Away from the places of the calls there is none.
LEMMA NoCallHere ==
    ASSUME TypeOK, ShellsFit, NEW p \in Shells,
           ui[p].at \notin {"login", "code", "enable-2fa", "cancel", "enroll",
                            "disable-2fa", "revalidate", "logout", "exit"}
    PROVE  op[p].pc = "idle"
<1>1. op[p].pc \in PCs
  BY DEF TypeOK, Call
<1> QED BY <1>1 DEF ShellsFit, ShellFits, CallFits, PCs

LEMMA CountersStay ==
    ASSUME ShellsFit, Calm \/ Fault
    PROVE  BoundsKept
<1>1. faults < MaxFaults => faults + 1 \in 0 .. MaxFaults
  BY ShellConstants DEF ShellsFit
<1> QED BY <1>1 DEF ShellsFit, Calm, Fault, BoundsKept

(***************************************************************************)
(* The actions of a shell keep what it knows                               *)
(***************************************************************************)
LEMMA LoopStepFits ==
    ASSUME TypeOK, ShellsFit, NEW p \in Shells, LoopStep(p)
    PROVE  BoundsKept /\ \E u : Settled(p, u)
<1>0. ServiceStep(p)
  BY LoopStepImplements
<1>1. /\ ui \in [Shells -> UI] /\ ui[p] \in UI
      /\ LoginFits(ui[p], DOMAIN users', sessions', nextSid')
      /\ PlaceFits(ui[p]) /\ CallFits(ui[p], op[p], sessions)
      /\ nextSid' \in Nat \ {0} /\ DOMAIN sessions' \subseteq 1 .. nextSid' - 1
  BY <1>0, FitsNow
<1>2. BoundsKept
  BY CountersStay DEF LoopStep, TypeLine, ResolveSession, SessionDead, SessionTouched,
     Reload, EndOfInput, GiveUp
<1> SUFFICES \E u : Settled(p, u)
  BY <1>2
<1>3. ASSUME NEW cmd \in Commands, TypeLine(p, cmd) PROVE \E u : Settled(p, u)
  <2> DEFINE u == [ui[p] EXCEPT !.cmd = cmd]
  <2>1. op'[p].pc = "idle"
    BY <1>3, NoCallHere DEF TypeLine, At, vars
  <2>2. u \in UI /\ u.token = ui[p].token /\ u.acct = ui[p].acct
    BY <1>1 DEF UI
  <2>3. LoginFits(u, DOMAIN users', sessions', nextSid')
    BY <1>1, <2>2, StillFits
  <2>4. CASE u.token = 0
    <3>1. Show(p, Dispatch(p, u))
      BY <1>3, <2>4 DEF TypeLine
    <3>2. /\ LoginFits(Dispatch(p, u), DOMAIN users', sessions', nextSid')
          /\ PlaceFits(Dispatch(p, u)) /\ Dispatch(p, u).token = u.token
      BY <2>3, DispatchFits
    <3> QED BY <2>1, <2>2, <3>1, <3>2, GoesOn
  <2>5. CASE u.token # 0
    <3> DEFINE w == [u EXCEPT !.at = "revalidate"]
    <3>1. Show(p, w)
      BY <1>3, <2>5 DEF TypeLine
    <3>2. w \in UI /\ w.token = u.token /\ w.acct = u.acct /\ w.at = "revalidate"
      BY <2>2 DEF UI, Places
    <3>3. PlaceFits(w)
      BY <2>5, <3>2 DEF PlaceFits, SignedInPlaces, GuestPlaces
    <3> QED BY <1>0, <2>1, <2>2, <3>1, <3>2, <3>3, MovesOn
  <2> QED BY <2>4, <2>5
<1>4. CASE ResolveSession(p)
  <2>1. /\ ui[p].at = "revalidate" /\ UNCHANGED ui
        /\ op'[p].pc = "touch" /\ op'[p].ref = ui[p].token
    BY <1>4, CallsLoaded DEF ResolveSession, At
  <2>2. CallFits(ui[p], op'[p], sessions')
    BY <2>1 DEF CallFits
  <2> QED BY <1>0, <2>1, <2>2, StaysPut
<1>5. CASE SessionDead(p)
  <2>1. op'[p].pc = "idle" /\ Show(p, NotResolved(p, ui[p]))
    BY <1>5 DEF SessionDead, Ready, Running, vars
  <2>2. /\ LoginFits(NotResolved(p, ui[p]), DOMAIN users', sessions', nextSid')
        /\ PlaceFits(NotResolved(p, ui[p]))
        /\ NotResolved(p, ui[p]).token \in {0, ui[p].token}
    BY <1>1, NotResolvedFits
  <2> QED BY <2>1, <2>2, GoesOn
<1>6. CASE SessionTouched(p)
  <2>1. op'[p].pc = "idle" /\ ui[p].at = "revalidate"
    BY <1>6, CallsReturned DEF SessionTouched, At
  <2>2. CASE Show(p, [ui[p] EXCEPT !.at = "reload"])
    <3> DEFINE w == [ui[p] EXCEPT !.at = "reload"]
    <3>1. w \in UI /\ w.token = ui[p].token /\ w.acct = ui[p].acct /\ w.at = "reload"
      BY <1>1 DEF UI, Places
    <3>2. PlaceFits(w)
      BY <1>1, <2>1, <3>1 DEF PlaceFits, SignedInPlaces, GuestPlaces
    <3> QED BY <1>0, <2>1, <2>2, <3>1, <3>2, MovesOn
  <2>3. CASE Show(p, NotResolved(p, ui[p]))
    <3>1. /\ LoginFits(NotResolved(p, ui[p]), DOMAIN users', sessions', nextSid')
          /\ PlaceFits(NotResolved(p, ui[p]))
          /\ NotResolved(p, ui[p]).token \in {0, ui[p].token}
      BY <1>1, NotResolvedFits
    <3> QED BY <2>1, <2>3, <3>1, GoesOn
  <2> QED BY <1>6, <2>2, <2>3 DEF SessionTouched
<1>7. CASE Reload(p)
  <2> DEFINE u == [ui[p] EXCEPT !.two = users[ui[p].acct].enabled]
  <2>1. op'[p].pc = "idle" /\ Show(p, Dispatch(p, u)) /\ ui[p].at = "reload"
    BY <1>7, NoCallHere DEF Reload, At, vars
  <2>2. ui[p].acct \in DOMAIN users
    BY <2>1 DEF ShellsFit, ShellFits, PlaceFits, SignedInPlaces, LoginFits
  <2>3. users[ui[p].acct] \in User
    BY <2>2 DEF TypeOK
  <2>4. users[ui[p].acct].enabled \in BOOLEAN
    BY <2>3 DEF User
  <2>5. u \in UI /\ u.token = ui[p].token /\ u.acct = ui[p].acct
    BY <1>1, <2>4 DEF UI
  <2>6. LoginFits(u, DOMAIN users', sessions', nextSid')
    BY <1>1, <2>5, StillFits
  <2>7. /\ LoginFits(Dispatch(p, u), DOMAIN users', sessions', nextSid')
        /\ PlaceFits(Dispatch(p, u)) /\ Dispatch(p, u).token = u.token
    BY <2>6, DispatchFits
  <2> QED BY <2>1, <2>5, <2>7, GoesOn
<1>8. CASE EndOfInput(p)
  <2> DEFINE u == [ui[p] EXCEPT !.at = "exit", !.challenge = 0, !.tries = 0]
  <2>1. op'[p].pc = "idle" /\ Show(p, u)
    BY <1>8 DEF EndOfInput, Ready, Running, vars
  <2>2. u \in UI /\ u.token = ui[p].token /\ u.acct = ui[p].acct /\ u.at = "exit"
    BY <1>1 DEF UI, Places
  <2>3. PlaceFits(u)
    BY <2>2 DEF PlaceFits, SignedInPlaces, GuestPlaces
  <2> QED BY <1>0, <2>1, <2>2, <2>3, MovesOn
<1>9. CASE GiveUp(p)
  BY <1>0, <1>9, GoesBack DEF GiveUp, Ready, Running, vars
<1> QED BY <1>3, <1>4, <1>5, <1>6, <1>7, <1>8, <1>9 DEF LoopStep

LEMMA LoginCommandStepFits ==
    ASSUME TypeOK, ShellsFit, NEW p \in Shells, LoginCommandStep(p)
    PROVE  BoundsKept /\ \E u : Settled(p, u)
<1>0. ServiceStep(p)
  BY LoginCommandStepImplements
<1>1. /\ ui \in [Shells -> UI] /\ ui[p] \in UI
      /\ LoginFits(ui[p], DOMAIN users', sessions', nextSid')
      /\ PlaceFits(ui[p]) /\ CallFits(ui[p], op[p], sessions)
  BY <1>0, FitsNow
<1>2. BoundsKept
  <2>1. CASE CodeTooLate(p) \/ ReadAccount(p)
    BY <2>1, CountersStay DEF CodeTooLate, ReadAccount
  <2>2. CASE ~(CodeTooLate(p) \/ ReadAccount(p))
    BY <2>2, CountersStay DEF LoginCommandStep, SignUp, Password, PasswordRefused, AskForCode,
       LoggedIn, AnswerCode, CheckCode, CodeCounted, CodeUnreadable, Abandon, Lost
  <2> QED BY <2>1, <2>2
<1> SUFFICES \E u : Settled(p, u)
  BY <1>2
<1>3. CASE SignUp(p)
  <2>1. op'[p].pc = "idle"
    BY <1>3 DEF SignUp, Register, Ready, Running
  <2> QED BY <1>0, <1>3, <2>1, GoesBack DEF SignUp
<1>4. CASE Password(p)
  <2>1. op'[p].pc \in {"clearLock", "verify"} /\ ui[p].at = "login" /\ UNCHANGED ui
    BY <1>4, CallsLoaded DEF Password, At
  <2>2. CallFits(ui[p], op'[p], sessions')
    BY <2>1 DEF CallFits
  <2> QED BY <1>0, <2>1, <2>2, StaysPut
<1>5. CASE PasswordRefused(p)
  <2>1. op'[p].pc = "idle"
    BY <1>5, CallsReturned DEF PasswordRefused
  <2> QED BY <1>0, <1>5, <2>1, GoesBack DEF PasswordRefused
<1>6. CASE AskForCode(p)
  <2>1. PICK id \in 1 .. MaxChallenges :
           Park(p, id) /\ Show(p, [ui[p] EXCEPT !.at = "code", !.challenge = id])
    BY <1>6 DEF AskForCode
  <2> DEFINE u == [ui[p] EXCEPT !.at = "code", !.challenge = id]
  <2>2. op'[p].pc = "idle" /\ ui[p].at = "login"
    BY <1>6, <2>1, CallsReturned DEF AskForCode, At
  <2>3. u \in UI /\ u.token = ui[p].token /\ u.acct = ui[p].acct /\ u.at = "code"
    <3>1. id \in Nat
      BY <2>1
    <3> QED BY <1>1, <3>1 DEF UI, Places
  <2>4. PlaceFits(u)
    BY <1>1, <2>2, <2>3 DEF PlaceFits, SignedInPlaces, GuestPlaces
  <2> QED BY <1>0, <2>1, <2>2, <2>3, <2>4, MovesOn
<1>7. CASE LoggedIn(p)
  <2>1. op'[p].pc = "idle"
    BY <1>7, CallsReturned DEF LoggedIn
  <2>2. CASE Lost(p)
    BY <1>0, <2>1, <2>2, GoesBack DEF Lost
  <2>3. ASSUME Show(p, [Back(p, ui[p]) EXCEPT !.token = nextSid, !.acct = op[p].acct,
                                              !.two = op[p].row.enabled])
        PROVE  \E u : Settled(p, u)
    <3> DEFINE u == [Back(p, ui[p]) EXCEPT !.token = nextSid, !.acct = op[p].acct,
                                           !.two = op[p].row.enabled]
    <3>1. op[p] \in Call /\ op[p].acct \in DOMAIN users /\ nextSid \in Nat \ {0}
      BY <1>7 DEF LoggedIn, PasswordLogin, PasswordAccepted, CodeLogin, Ready, Running,
         TypeOK
    <3>2. /\ op[p].row.enabled \in BOOLEAN /\ op[p].acct \in Accounts
          /\ op[p].acct # NoAccount
      BY <3>1, ServiceConstants DEF Call, User, TypeOK
    <3>3. Back(p, ui[p]) \in UI /\ Back(p, ui[p]).at \in {"exit", "loop"}
      BY <1>1, BackFits DEF LoginFits
    <3>4. /\ u \in UI /\ u.token = nextSid /\ u.acct = op[p].acct
          /\ u.at \in {"exit", "loop"}
      BY <3>1, <3>2, <3>3 DEF UI
    <3>5. PICK now : CompleteLogin(op[p].acct, op[p].row, now)
      BY <1>7 DEF LoggedIn, PasswordLogin, CodeLogin
    <3>6. /\ nextSid' = nextSid + 1 /\ DOMAIN users' = DOMAIN users
          /\ sessions'[nextSid].owner = op[p].acct
      BY <3>5 DEF CompleteLogin, UpdateUser, Insert, NewSession
    <3>7. LoginFits(u, DOMAIN users', sessions', nextSid')
      BY <3>1, <3>2, <3>4, <3>6 DEF LoginFits
    <3>8. PlaceFits(u)
      BY <3>4 DEF PlaceFits, SignedInPlaces, GuestPlaces
    <3> QED BY <2>1, <2>3, <3>4, <3>6, <3>7, <3>8, IdleCallFits DEF Settled, Show
  <2> QED BY <1>7, <2>2, <2>3 DEF LoggedIn
<1>8. CASE AnswerCode(p) \/ ReadAccount(p) \/ CheckCode(p)
  <2>1. ASSUME AnswerCode(p)
        PROVE  op'[p].pc = "loadUser" /\ op'[p].ref = ui[p].challenge
    BY <2>1, CallsLoaded DEF AnswerCode, Pending
  <2>4. ASSUME ReadAccount(p) \/ CheckCode(p)
        PROVE  /\ op'[p].pc \in {"checkCode", "codeFailed", "codeLogin"}
               /\ op'[p].ref = ui[p].challenge
    <3>1. op[p].ref = ui[p].challenge
      BY <1>1, <2>4 DEF ReadAccount, LoadUser, CheckCode, CodeWrong, CodeRight, Passes,
         Running, CallFits
    <3>2. op'[p].pc \in {"checkCode", "codeFailed", "codeLogin"} /\ op'[p].ref = op[p].ref
      BY <2>4, CallsLoaded DEF ReadAccount, CheckCode
    <3> QED BY <3>1, <3>2
  <2>2. /\ op'[p].pc \in {"loadUser", "checkCode", "codeFailed", "codeLogin"}
        /\ op'[p].ref = ui[p].challenge /\ ui[p].at = "code" /\ UNCHANGED ui
    BY <1>8, <2>1, <2>4 DEF AnswerCode, ReadAccount, CheckCode, At
  <2>3. CallFits(ui[p], op'[p], sessions')
    BY <2>2 DEF CallFits
  <2> QED BY <1>0, <2>2, <2>3, StaysPut
<1>9. CASE CodeCounted(p)
  <2>1. op'[p].pc = "idle"
    BY <1>9, CallsReturned DEF CodeCounted
  <2>2. CASE Show(p, ui[p])
    BY <1>0, <1>1, <2>1, <2>2, MovesOn
  <2>3. CASE Show(p, Back(p, ui[p]))
    BY <1>0, <2>1, <2>3, GoesBack
  <2> QED BY <1>9, <2>2, <2>3 DEF CodeCounted, Lost
<1>10. CASE CodeTooLate(p) \/ CodeUnreadable(p) \/ Abandon(p)
  <2>1. op'[p].pc = "idle"
    BY <1>10, PromptEnds, CallsReturned
  <2>2. Show(p, Back(p, ui[p]))
    BY <1>10 DEF CodeTooLate, CodeUnreadable, Abandon
  <2> QED BY <1>0, <2>1, <2>2, GoesBack
<1> QED
  BY <1>3, <1>4, <1>5, <1>6, <1>7, <1>8, <1>9, <1>10 DEF LoginCommandStep

LEMMA AccountCommandStepFits ==
    ASSUME TypeOK, ShellsFit, NEW p \in Shells, AccountCommandStep(p)
    PROVE  BoundsKept /\ \E u : Settled(p, u)
<1>0. ServiceStep(p)
  BY AccountCommandStepImplements
<1>1. /\ ui \in [Shells -> UI] /\ ui[p] \in UI
      /\ LoginFits(ui[p], DOMAIN users', sessions', nextSid')
      /\ PlaceFits(ui[p]) /\ CallFits(ui[p], op[p], sessions)
  BY <1>0, FitsNow
<1>2. BoundsKept
  BY CountersStay DEF AccountCommandStep, BeginEnrollment, Saved, Confirm, Disable,
     PostureChanged, WrongCode, GiveUpEnrollment, EnrollmentLost, CancelEnrollment, Lost
<1> SUFFICES \E u : Settled(p, u)
  BY <1>2
<1>m. ASSUME NEW place \in SignedInPlaces, ui[p].at \in SignedInPlaces, NEW tries \in Nat,
             op'[p].pc = "idle",
             Show(p, [ui[p] EXCEPT !.at = place, !.tries = tries])
      PROVE  \E u : Settled(p, u)
  <2> DEFINE u == [ui[p] EXCEPT !.at = place, !.tries = tries]
  <2>1. u \in UI /\ u.token = ui[p].token /\ u.acct = ui[p].acct /\ u.at = place
    BY <1>1 DEF UI, Places, SignedInPlaces
  <2>2. PlaceFits(u)
    BY <1>1, <1>m, <2>1 DEF PlaceFits, SignedInPlaces, GuestPlaces
  <2> QED BY <1>0, <1>m, <2>1, <2>2, MovesOn
<1>t. ui[p].tries \in Nat /\ ui[p].tries + 1 \in Nat
  BY <1>1 DEF UI
<1>3. CASE BeginEnrollment(p)
  <2>1. op'[p].pc = "save" /\ ui[p].at = "enable-2fa" /\ UNCHANGED ui
    BY <1>3, CallsLoaded DEF BeginEnrollment, At
  <2>2. CallFits(ui[p], op'[p], sessions')
    BY <2>1 DEF CallFits
  <2> QED BY <1>0, <2>1, <2>2, StaysPut
<1>4. CASE Saved(p)
  <2>1. op'[p].pc = "idle"
    BY <1>4, CallsReturned DEF Saved
  <2>2. ASSUME At(p, "enable-2fa"), Show(p, [ui[p] EXCEPT !.at = "enroll"])
        PROVE  \E u : Settled(p, u)
    <3>1. [ui[p] EXCEPT !.at = "enroll"]
            = [ui[p] EXCEPT !.at = "enroll", !.tries = ui[p].tries]
      BY <1>1 DEF UI
    <3> QED BY <1>m, <1>t, <2>1, <2>2, <3>1 DEF At, SignedInPlaces
  <2>3. ASSUME Show(p, Back(p, ui[p])) PROVE \E u : Settled(p, u)
    BY <1>0, <2>1, <2>3, GoesBack
  <2> QED BY <1>4, <2>2, <2>3 DEF Saved, Lost
<1>5. CASE Confirm(p) \/ Disable(p)
  <2>1. /\ \/ op'[p].pc = "confirm" /\ ui[p].at = "enroll"
           \/ op'[p].pc = "disable" /\ ui[p].at = "disable-2fa"
        /\ op'[p].ref = Kept(p) /\ UNCHANGED <<ui, sessions>>
    BY <1>5, CallsLoaded DEF Confirm, Disable, At, ConfirmLoad, DisableLoad, tables
  <2>2. ui[p].token \in DOMAIN sessions' => op'[p].ref = ui[p].token
    BY <2>1 DEF Kept
  <2>3. CallFits(ui[p], op'[p], sessions')
    BY <2>1, <2>2 DEF CallFits
  <2> QED BY <1>0, <2>1, <2>3, StaysPut
<1>6. CASE PostureChanged(p)
  <2>1. op'[p].pc = "idle"
    BY <1>6, CallsReturned DEF PostureChanged
  <2>2. ui[p].at \in SignedInPlaces
    BY <1>1, <1>6 DEF PostureChanged, ConfirmSave, DisableSave, Running, CallFits,
       SignedInPlaces
  <2> QED BY <1>6, <1>m, <2>1, <2>2 DEF PostureChanged, SignedInPlaces
<1>7. CASE WrongCode(p)
  <2>1. op'[p].pc = "idle" /\ ui[p].at \in {"enroll", "disable-2fa"}
    BY <1>7 DEF WrongCode, Ready, Running, vars
  <2>2. ui[p].tries + 1 \in Nat
    BY <1>t
  <2>3. ASSUME Show(p, [ui[p] EXCEPT !.tries = @ + 1]) PROVE \E u : Settled(p, u)
    <3>1. [ui[p] EXCEPT !.tries = @ + 1]
            = [ui[p] EXCEPT !.at = ui[p].at, !.tries = ui[p].tries + 1]
      BY <1>1 DEF UI
    <3> QED BY <1>m, <2>1, <2>2, <2>3, <3>1 DEF SignedInPlaces
  <2>4. ASSUME Show(p, [ui[p] EXCEPT !.at = "cancel", !.tries = 0])
        PROVE  \E u : Settled(p, u)
    BY <1>m, <2>1, <2>4 DEF SignedInPlaces
  <2>5. ASSUME Show(p, Back(p, ui[p])) PROVE \E u : Settled(p, u)
    BY <1>0, <2>1, <2>5, GoesBack
  <2> QED BY <1>7, <2>3, <2>4, <2>5 DEF WrongCode
<1>8. CASE GiveUpEnrollment(p)
  <2>1. op'[p].pc = "idle" /\ ui[p].at = "enroll"
    BY <1>8 DEF GiveUpEnrollment, Ready, Running, vars, At
  <2> QED BY <1>8, <1>m, <2>1 DEF GiveUpEnrollment, SignedInPlaces
<1>9. CASE EnrollmentLost(p)
  <2>1. op'[p].pc = "idle" /\ Show(p, Back(p, ui[p]))
    BY <1>9 DEF EnrollmentLost, Ready, Running, vars
  <2> QED BY <1>0, <2>1, GoesBack
<1>10. CASE CancelEnrollment(p)
  <2>1. ASSUME CancelLoad(p, ui[p].acct), UNCHANGED ui PROVE \E u : Settled(p, u)
    <3>1. op'[p].pc = "save" /\ ui[p].at = "cancel"
      BY <1>10, <2>1, CallsLoaded DEF CancelEnrollment, At
    <3>2. CallFits(ui[p], op'[p], sessions')
      BY <3>1 DEF CallFits
    <3> QED BY <1>0, <2>1, <3>2, StaysPut
  <2>2. ASSUME Ready(p), Show(p, Back(p, ui[p])), UNCHANGED vars
        PROVE  \E u : Settled(p, u)
    BY <1>0, <2>2, GoesBack DEF Ready, Running, vars
  <2> QED BY <1>10, <2>1, <2>2 DEF CancelEnrollment
<1> QED
  BY <1>3, <1>4, <1>5, <1>6, <1>7, <1>8, <1>9, <1>10 DEF AccountCommandStep

LEMMA LeaveStepFits ==
    ASSUME TypeOK, ShellsFit, NEW p \in Shells, LeaveStep(p)
    PROVE  BoundsKept /\ \E u : Settled(p, u)
<1>0. ServiceStep(p)
  BY LeaveStepImplements
<1>1. /\ ui \in [Shells -> UI] /\ ui[p] \in UI
      /\ LoginFits(ui[p], DOMAIN users', sessions', nextSid')
      /\ PlaceFits(ui[p]) /\ CallFits(ui[p], op[p], sessions)
      /\ nextSid' \in Nat \ {0} /\ DOMAIN sessions' \subseteq 1 .. nextSid' - 1
  BY <1>0, FitsNow
<1>2. BoundsKept
  BY CountersStay DEF LeaveStep, EndSession, SessionEnded, SessionOver, Exit, Lost
<1> SUFFICES \E u : Settled(p, u)
  BY <1>2
<1>c. /\ LoginFits(Clear(ui[p]), DOMAIN users', sessions', nextSid')
      /\ Clear(ui[p]).token = 0 /\ Clear(ui[p]).at = ui[p].at
  BY <1>1, ClearFits
<1>o. ASSUME Leaving(p), LoggedOut(p), op'[p].pc = "idle" PROVE \E u : Settled(p, u)
  <2>1. CASE At(p, "logout")
    <3>1. /\ LoginFits(Back(p, Clear(ui[p])), DOMAIN users', sessions', nextSid')
          /\ PlaceFits(Back(p, Clear(ui[p]))) /\ Back(p, Clear(ui[p])).token = 0
      BY <1>c, BackFits
    <3> QED BY <1>o, <2>1, <3>1, GoesOn DEF LoggedOut
  <2>2. CASE ~At(p, "logout")
    <3>1. PlaceFits(Clear(ui[p]))
      BY <1>c, <1>o, <2>2 DEF Leaving, At, PlaceFits, SignedInPlaces, GuestPlaces
    <3> QED BY <1>c, <1>o, <2>2, <3>1, GoesOn DEF LoggedOut
  <2> QED BY <2>1, <2>2
<1>3. CASE EndSession(p)
  <2>1. /\ op'[p].pc = "revoke" /\ op'[p].ref = ui[p].token
        /\ ui[p].at \in {"logout", "exit"} /\ UNCHANGED ui
    BY <1>3, CallsLoaded DEF EndSession, Leaving, At
  <2>2. CallFits(ui[p], op'[p], sessions')
    BY <2>1 DEF CallFits
  <2> QED BY <1>0, <2>1, <2>2, StaysPut
<1>4. CASE SessionEnded(p)
  <2>1. op'[p].pc = "idle" /\ Leaving(p)
    BY <1>4, CallsReturned DEF SessionEnded
  <2>2. CASE Lost(p)
    BY <1>0, <2>1, <2>2, GoesBack DEF Lost
  <2> QED BY <1>4, <1>o, <2>1, <2>2 DEF SessionEnded
<1>5. CASE SessionOver(p)
  <2>1. op'[p].pc = "idle"
    BY <1>5 DEF SessionOver, Ready, Running, vars
  <2> QED BY <1>5, <1>o, <2>1 DEF SessionOver
<1>6. CASE Exit(p)
  <2>1. op'[p].pc = "idle"
    BY <1>6, CallsReturned DEF Exit
  <2> QED BY <1>1, <1>6, <2>1, OffFits, GoesOn DEF Exit
<1> QED BY <1>3, <1>4, <1>5, <1>6 DEF LeaveStep

LEMMA InterruptStepFits ==
    ASSUME TypeOK, ShellsFit, NEW p \in Shells, InterruptStep(p)
    PROVE  BoundsKept /\ \E u : Settled(p, u)
<1>0. ServiceStep(p)
  BY InterruptStepImplements
<1>1. /\ ui \in [Shells -> UI] /\ ui[p] \in UI
      /\ LoginFits(ui[p], DOMAIN users', sessions', nextSid')
      /\ PlaceFits(ui[p]) /\ CallFits(ui[p], op[p], sessions)
      /\ CallFits(ui[p], op[p], sessions')
      /\ nextSid' \in Nat \ {0} /\ DOMAIN sessions' \subseteq 1 .. nextSid' - 1
  BY <1>0, FitsNow
<1>2. CASE CallFails(p)
  <2>1. op'[p].pc = "idle" /\ Show(p, AfterError(p, ui[p]))
    BY <1>2, CallsReturned DEF CallFails, vars
  <2>2. /\ LoginFits(AfterError(p, ui[p]), DOMAIN users', sessions', nextSid')
        /\ PlaceFits(AfterError(p, ui[p]))
        /\ AfterError(p, ui[p]).token \in {0, ui[p].token}
    BY <1>1, AfterErrorFits
  <2>3. BoundsKept
    BY <1>2, CountersStay DEF CallFails
  <2> QED BY <2>1, <2>2, <2>3, GoesOn
<1>3. CASE Signal(p)
  <2>1. UNCHANGED <<vars, ui>>
    BY <1>3 DEF Signal
  <2>2. signals < MaxSignals => signals + 1 \in 0 .. MaxSignals
    BY ShellConstants DEF ShellsFit
  <2>3. BoundsKept
    BY <1>3, <2>2 DEF Signal, ShellsFit, BoundsKept
  <2>4. CallFits(ui[p], op'[p], sessions')
    BY <1>1, <2>1 DEF vars
  <2> QED BY <1>0, <2>1, <2>3, <2>4, StaysPut
<1>4. CASE Kill(p)
  <2>1. op'[p].pc = "idle" /\ Show(p, Off) /\ BoundsKept
    BY <1>4, CallsReturned, CountersStay DEF Kill
  <2> QED BY <1>1, <2>1, OffFits, GoesOn
<1>5. CASE Start(p)
  <2>1. op'[p].pc = "idle" /\ Show(p, [Off EXCEPT !.at = "loop"])
    BY <1>5, CallsReturned DEF Start
  <2>2. BoundsKept
    BY <1>5 DEF Start, ShellsFit, BoundsKept
  <2> QED BY <1>1, <2>1, <2>2, OffFits, GoesOn
<1> QED BY <1>2, <1>3, <1>4, <1>5 DEF InterruptStep

(***************************************************************************)
(* The invariant of the shells                                             *)
(***************************************************************************)
\* The shell that takes a step of ShellNext.
ShellStep(p) ==
    \/ LoopStep(p) \/ LoginCommandStep(p) \/ AccountCommandStep(p)
    \/ LeaveStep(p) \/ InterruptStep(p)

LEMMA ShellStepSettles ==
    ASSUME TypeOK, ShellsFit, NEW p \in Shells, ShellStep(p)
    PROVE  ServiceStep(p) /\ BoundsKept /\ \E u : Settled(p, u)
  BY LoopStepFits, LoginCommandStepFits, AccountCommandStepFits, LeaveStepFits,
     InterruptStepFits, LoopStepImplements, LoginCommandStepImplements,
     AccountCommandStepImplements, LeaveStepImplements, InterruptStepImplements
  DEF ShellStep

\* Time and stuttering change no login.
LEMMA TickFits ==
    ASSUME TypeOK, ShellsFit, Tick \/ UNCHANGED vars,
           UNCHANGED <<ui, term, faults, signals>>
    PROVE  ShellsFit'
<1>1. UNCHANGED <<users, sessions, nextSid, challenges, op>>
  BY DEF Tick, tables, vars
<1> QED BY <1>1 DEF ShellsFit, ShellFits, LoginFits, PlaceFits, CallFits, IdsUnique, TokensApart

LEMMA InitFits == ShellInit => ShellsFit
<1> SUFFICES ASSUME ShellInit PROVE ShellsFit
  OBVIOUS
<1>1. /\ users = EmptyTable /\ sessions = EmptyTable /\ nextSid = 1
      /\ challenges = [p \in Shells |-> {}] /\ op = [p \in Shells |-> Idle]
      /\ ui = [p \in Shells |-> Off] /\ term = [p \in Shells |-> FALSE]
      /\ faults = 0 /\ signals = 0
  BY DEF ShellInit, Init
<1>2. /\ LoginFits(Off, DOMAIN users, sessions, nextSid) /\ PlaceFits(Off)
      /\ Off.token = 0 /\ Off \in UI
  <2>1. DOMAIN sessions \subseteq 1 .. nextSid - 1 /\ nextSid \in Nat \ {0}
    BY <1>1 DEF EmptyTable
  <2>2. LoginFits(Off, DOMAIN users, sessions, nextSid) /\ PlaceFits(Off) /\ Off.token = 0
    BY <2>1, OffFits
  <2> QED BY <2>2 DEF LoginFits
<1>3. \A p \in Shells : ShellFits(p)
  BY <1>1, <1>2, IdleFits DEF ShellFits, IdsUnique
<1> QED BY <1>1, <1>2, <1>3, ShellConstants DEF ShellsFit, TokensApart

LEMMA FitsStep == ShellsFit /\ TypeOK /\ [ShellNext]_shellVars => ShellsFit'
<1> SUFFICES ASSUME ShellsFit, TypeOK, [ShellNext]_shellVars PROVE ShellsFit'
  OBVIOUS
<1>1. ASSUME NEW p \in Shells, ShellStep(p) PROVE ShellsFit'
  BY <1>1, ShellStepSettles, SettledFits
<1>2. CASE \/ Tick /\ UNCHANGED <<ui, term, faults, signals>>
           \/ UNCHANGED shellVars
  BY <1>2, TickFits DEF shellVars
<1> QED BY <1>1, <1>2 DEF ShellNext, ShellStep

\* ShellsFit holds in every state of the shells.
LEMMA ShellsAlwaysFit == ShellSpec => [](TypeOK /\ ShellsFit)
<1>1. ShellInit => TypeOK /\ ShellsFit
  BY InitType, InitFits DEF ShellInit
<1>2. TypeOK /\ ShellsFit /\ [ShellNext]_shellVars => TypeOK' /\ ShellsFit'
  BY ShellStepImplements, TypeStep, FitsStep
<1> QED BY <1>1, <1>2, PTL DEF ShellSpec

\* Whatever is typed, cancelled, refused, signalled or killed, in any number of
\* shells: a shell caches a user exactly while it has a token, the token is of a
\* session of that user, and no two shells share one.
THEOREM ShellsTyped == ShellSpec => []ShellTypeOK
<1>1. ShellsFit => ShellTypeOK
  BY DEF ShellsFit, ShellFits, LoginFits, TokensApart, ShellTypeOK
<1> QED BY <1>1, ShellsAlwaysFit, PTL

(***************************************************************************)
(* A shell ends its own session only by its logout                         *)
(***************************************************************************)
\* The calls that revoke sessions.
LEMMA RevokingSteps ==
    ASSUME TypeOK, NEW p \in Shells, ServiceStep(p),
           NEW i \in DOMAIN sessions \cap DOMAIN sessions',
           ~sessions[i].revoked, sessions'[i].revoked
    PROVE  \/ op[p].pc \in {"verify", "codeFailed", "codeLogin", "revoke"}
           \/ op[p].pc \in {"confirm", "disable"} /\ ~(op[p].ref # 0 /\ i = op[p].ref)
<1>1. ~(UNCHANGED sessions)
  OBVIOUS
<1>2. CASE LoginStep(p)
  BY <1>1, <1>2 DEF LoginStep, Register, AuthenticateLoad, ClearLockSave, PasswordFailed,
     Rehash, Park, PasswordLogin, PasswordAccepted, Running, tables
<1>3. CASE ChallengeStep(p)
  BY <1>1, <1>3, AnswerQuiet DEF ChallengeStep, CodeFailed, CodeLogin, Running
<1>4. CASE EnrollmentStep(p)
  <2>1. CASE ConfirmSave(p) \/ DisableSave(p)
    <3>1. op[p].pc \in {"confirm", "disable"} /\ RevokeMatching(op[p].acct, op[p].ref)
      BY <2>1 DEF ConfirmSave, DisableSave, PostureSave, Running
    <3> QED BY <3>1 DEF RevokeMatching
  <2>2. CASE ~(ConfirmSave(p) \/ DisableSave(p))
    BY <1>1, <1>4, <2>2 DEF EnrollmentStep, BeginLoad, CancelLoad, SaveRow, ConfirmLoad,
       DisableLoad, tables
  <2> QED BY <2>1, <2>2
<1>5. CASE SessionStep(p)
  <2>1. CASE Touch(p)
    <3>1. sessions[i] \in Session(DOMAIN users)
      BY DEF TypeOK
    <3>2. sessions'[i].revoked = sessions[i].revoked
      BY <2>1, <3>1 DEF Touch, TouchSession, Session
    <3> QED BY <3>2
  <2>2. CASE ~Touch(p)
    BY <1>1, <1>5, <2>2 DEF SessionStep, ResolveLoad, LogoutLoad, LogoutRevoke, Running,
       tables
  <2> QED BY <2>1, <2>2
<1>6. CASE FailureStep(p)
  BY <1>1, <1>6 DEF FailureStep, DBError, Restart, DeleteExpired, tables
<1>7. CASE UNCHANGED vars
  BY <1>1, <1>7 DEF vars
<1> QED BY <1>2, <1>3, <1>4, <1>5, <1>6, <1>7 DEF ServiceStep

LEMMA OwnSessionStep ==
    ASSUME TypeOK, ShellsFit, NEW q \in Shells, ShellStep(q), NEW p \in Shells,
           ui[p].token \in DOMAIN sessions \cap DOMAIN sessions',
           ~sessions[ui[p].token].revoked, sessions'[ui[p].token].revoked
    PROVE  op'[p] = op[p] \/ Running(p, "revoke")
<1>1. ServiceStep(q)
  BY ShellStepSettles
<1>2. CASE p # q
  BY <1>1, <1>2, OthersApart
<1>3. CASE p = q
  <2>1. 0 \notin DOMAIN sessions
    BY DEF TypeOK
  <2>2. /\ op[p].pc \in {"verify", "codeFailed", "codeLogin"} => ui[p].token = 0
        /\ op[p].pc \in {"confirm", "disable"} => op[p].ref = ui[p].token
    BY DEF ShellsFit, ShellFits, CallFits, PlaceFits, GuestPlaces
  <2> QED BY <1>1, <1>3, <2>1, <2>2, RevokingSteps DEF Running
<1> QED BY <1>2, <1>3

\* However the shells interleave, a shell never ends the session it holds except
\* by its own logout: confirming or disabling two factor spares it, and failed
\* logins are counted only in shells that hold none.
THEOREM OwnSessionsSpared == ShellSpec => OwnSessionSpared
<1>1. TypeOK /\ ShellsFit /\ [ShellNext]_shellVars =>
        [\A p \in Shells :
           LET i == ui[p].token
           IN  /\ i \in DOMAIN sessions \cap DOMAIN sessions'
               /\ ~sessions[i].revoked /\ sessions'[i].revoked
               => op'[p] = op[p] \/ Running(p, "revoke")]_shellVars
  <2> SUFFICES ASSUME TypeOK, ShellsFit, [ShellNext]_shellVars, NEW p \in Shells,
                      ui[p].token \in DOMAIN sessions \cap DOMAIN sessions',
                      ~sessions[ui[p].token].revoked, sessions'[ui[p].token].revoked
               PROVE  op'[p] = op[p] \/ Running(p, "revoke")
    OBVIOUS
  <2>1. ASSUME NEW q \in Shells, ShellStep(q) PROVE op'[p] = op[p] \/ Running(p, "revoke")
    BY <2>1, OwnSessionStep
  <2>2. CASE Tick
    BY <2>2 DEF Tick, tables
  <2>3. CASE UNCHANGED shellVars
    BY <2>3 DEF shellVars, vars
  <2> QED BY <2>1, <2>2, <2>3 DEF ShellNext, ShellStep
<1> QED BY <1>1, ShellsAlwaysFit, PTL DEF ShellSpec, OwnSessionSpared

(***************************************************************************)
(* The ledger: every leftover login is paid for by a fault or a signal     *)
(***************************************************************************)
Doors == {"revalidate", "reload"}

\* Signalled shells that are checking their login: the check fails and drops it,
\* with no fault of its own.
Doomed == {p \in Shells : term[p] /\ ui[p].at \in Doors}

\* The answer of p is checked against a secret p cannot read, which ends the prompt
\* without the parked login. The fault was counted when the account was read.
Condemned(p) ==
    /\ Running(p, "checkCode")
    /\ op[p].row.enabled /\ ~Decrypts(op[p].row, KeyOf[p])

\* The parked logins of p that no prompt of p will answer. A signalled shell that
\* is not back at its prompt never comes back to it.
Unanswered(p) ==
    {c \in challenges[p] : /\ At(p, "loop") \/ (~term[p] /\ ~At(p, "exit"))
                           /\ Unexpired(c)
                           /\ At(p, "code") => c.id # ui[p].challenge \/ Condemned(p)}

AllUnanswered == UNION {{<<p, c>> : c \in Unanswered(p)} : p \in Shells}

Balanced ==
    /\ IsFiniteSet(Stranded) /\ IsFiniteSet(Doomed) /\ IsFiniteSet(AllUnanswered)
    /\ Cardinality(Stranded) + Cardinality(Doomed) + Cardinality(AllUnanswered)
         <= faults + signals

\* A step leaves nothing over; or one thing, for a fault or a signal; or a doomed
\* shell drops its login.
Clean ==
    /\ Stranded' \subseteq Stranded
    /\ Doomed' \subseteq Doomed
    /\ AllUnanswered' \subseteq AllUnanswered
    /\ faults' + signals' >= faults + signals

Owed(x) ==
    /\ faults' + signals' = faults + signals + 1
    /\ \/ /\ Stranded' \subseteq Stranded \cup {x}
          /\ Doomed' \subseteq Doomed /\ AllUnanswered' \subseteq AllUnanswered
       \/ /\ Doomed' \subseteq Doomed \cup {x}
          /\ Stranded' \subseteq Stranded /\ AllUnanswered' \subseteq AllUnanswered
       \/ /\ AllUnanswered' \subseteq AllUnanswered \cup {x}
          /\ Stranded' \subseteq Stranded /\ Doomed' \subseteq Doomed

Dropped(p, x) ==
    /\ p \in Doomed /\ Doomed' \subseteq Doomed \ {p}
    /\ Stranded' \subseteq Stranded \cup {x}
    /\ AllUnanswered' \subseteq AllUnanswered
    /\ faults' + signals' = faults + signals

LEMMA CountSubset ==
    ASSUME NEW S, NEW T, IsFiniteSet(S), T \subseteq S
    PROVE  IsFiniteSet(T) /\ Cardinality(T) <= Cardinality(S) /\ Cardinality(T) \in Nat
  BY FS_Subset, FS_CardinalityType

LEMMA CountOneMore ==
    ASSUME NEW S, NEW T, NEW x, IsFiniteSet(S), T \subseteq S \cup {x}
    PROVE  /\ IsFiniteSet(T) /\ Cardinality(T) \in Nat
           /\ Cardinality(T) <= Cardinality(S) + 1
<1>1. /\ IsFiniteSet(S \cup {x})
      /\ Cardinality(S \cup {x}) = IF x \in S THEN Cardinality(S) ELSE Cardinality(S) + 1
  BY FS_AddElement
<1>2. /\ IsFiniteSet(T) /\ Cardinality(T) <= Cardinality(S \cup {x})
      /\ Cardinality(T) \in Nat
  BY <1>1, CountSubset
<1>3. Cardinality(S) \in Nat
  BY FS_CardinalityType
<1> QED BY <1>1, <1>2, <1>3

LEMMA CountOneLess ==
    ASSUME NEW S, NEW T, NEW x \in S, IsFiniteSet(S), T \subseteq S \ {x}
    PROVE  /\ IsFiniteSet(T) /\ Cardinality(T) \in Nat
           /\ Cardinality(T) + 1 <= Cardinality(S)
<1>1. /\ IsFiniteSet(S \ {x}) /\ Cardinality(S) \in Nat
      /\ Cardinality(S \ {x}) = Cardinality(S) - 1
  BY FS_RemoveElement, FS_CardinalityType
<1>2. /\ IsFiniteSet(T) /\ Cardinality(T) <= Cardinality(S \ {x})
      /\ Cardinality(T) \in Nat
  BY <1>1, CountSubset
<1> QED BY <1>1, <1>2

LEMMA BalancedStep ==
    ASSUME Balanced, NEW x, NEW p, Clean \/ Owed(x) \/ Dropped(p, x),
           faults + signals \in Nat, faults' + signals' \in Nat
    PROVE  Balanced'
<1> DEFINE a == Cardinality(Stranded)
           b == Cardinality(Doomed)
           c == Cardinality(AllUnanswered)
<1>0. a \in Nat /\ b \in Nat /\ c \in Nat /\ a + b + c <= faults + signals
  BY FS_CardinalityType DEF Balanced
<1>1. ASSUME Stranded' \subseteq Stranded
      PROVE  IsFiniteSet(Stranded') /\ a' \in Nat /\ a' <= a
  BY <1>1, CountSubset DEF Balanced
<1>2. ASSUME Doomed' \subseteq Doomed
      PROVE  IsFiniteSet(Doomed') /\ b' \in Nat /\ b' <= b
  BY <1>2, CountSubset DEF Balanced
<1>3. ASSUME AllUnanswered' \subseteq AllUnanswered
      PROVE  IsFiniteSet(AllUnanswered') /\ c' \in Nat /\ c' <= c
  BY <1>3, CountSubset DEF Balanced
<1>4. ASSUME Stranded' \subseteq Stranded \cup {x}
      PROVE  IsFiniteSet(Stranded') /\ a' \in Nat /\ a' <= a + 1
  BY <1>4, CountOneMore DEF Balanced
<1>5. ASSUME Doomed' \subseteq Doomed \cup {x}
      PROVE  IsFiniteSet(Doomed') /\ b' \in Nat /\ b' <= b + 1
  BY <1>5, CountOneMore DEF Balanced
<1>6. ASSUME AllUnanswered' \subseteq AllUnanswered \cup {x}
      PROVE  IsFiniteSet(AllUnanswered') /\ c' \in Nat /\ c' <= c + 1
  BY <1>6, CountOneMore DEF Balanced
<1>7. ASSUME p \in Doomed, Doomed' \subseteq Doomed \ {p}
      PROVE  IsFiniteSet(Doomed') /\ b' \in Nat /\ b' + 1 <= b
  BY <1>7, CountOneLess DEF Balanced
<1> SUFFICES /\ IsFiniteSet(Stranded') /\ IsFiniteSet(Doomed') /\ IsFiniteSet(AllUnanswered')
             /\ a' + b' + c' <= faults' + signals'
  BY DEF Balanced
<1> HIDE DEF a, b, c
<1>8. CASE Clean
  BY <1>0, <1>1, <1>2, <1>3, <1>8 DEF Clean
<1>9. CASE Owed(x)
  <2>1. CASE /\ Stranded' \subseteq Stranded \cup {x}
             /\ Doomed' \subseteq Doomed /\ AllUnanswered' \subseteq AllUnanswered
    BY <1>0, <1>2, <1>3, <1>4, <1>9, <2>1 DEF Owed
  <2>2. CASE /\ Doomed' \subseteq Doomed \cup {x}
             /\ Stranded' \subseteq Stranded /\ AllUnanswered' \subseteq AllUnanswered
    BY <1>0, <1>1, <1>3, <1>5, <1>9, <2>2 DEF Owed
  <2>3. CASE /\ AllUnanswered' \subseteq AllUnanswered \cup {x}
             /\ Stranded' \subseteq Stranded /\ Doomed' \subseteq Doomed
    BY <1>0, <1>1, <1>2, <1>6, <1>9, <2>3 DEF Owed
  <2> QED BY <1>9, <2>1, <2>2, <2>3 DEF Owed
<1>10. CASE Dropped(p, x)
  BY <1>0, <1>3, <1>4, <1>7, <1>10 DEF Dropped
<1> QED BY <1>8, <1>9, <1>10

\* What the ledger is for: the leftovers are among its entries.
LEMMA BalancedAccounts ==
    ASSUME Balanced, faults + signals \in Nat
    PROVE  LeftoversAccountedFor
<1> DEFINE F == UNION {Forgotten(p) : p \in Shells}
           G == {x \in AllUnanswered : x[2] \in F}
           f == [x \in G |-> x[2]]
<1>1. \A c \in F : \E x \in G : x[2] = c
  <2> SUFFICES ASSUME NEW c \in F PROVE \E x \in G : x[2] = c
    OBVIOUS
  <2>1. PICK p \in Shells : c \in Forgotten(p)
    OBVIOUS
  <2>2. c \in Unanswered(p)
    BY <2>1 DEF Forgotten, Unanswered, At
  <2>3. <<p, c>> \in AllUnanswered
    BY <2>2 DEF AllUnanswered
  <2> QED BY <2>3
<1>2. IsFiniteSet(G) /\ Cardinality(G) <= Cardinality(AllUnanswered) /\ Cardinality(G) \in Nat
  BY CountSubset DEF Balanced
<1>3. f \in Surjection(G, F)
  BY <1>1 DEF Surjection
<1>4. IsFiniteSet(F) /\ Cardinality(F) <= Cardinality(G)
  BY <1>2, <1>3, FS_Surjection
<1>5. /\ Cardinality(Stranded) \in Nat /\ Cardinality(Doomed) \in Nat
      /\ Cardinality(AllUnanswered) \in Nat /\ Cardinality(F) \in Nat
  BY <1>4, FS_CardinalityType DEF Balanced
<1>6. Cardinality(Stranded) + Cardinality(F) <= faults + signals
  <2> HIDE DEF F
  <2> QED BY <1>2, <1>4, <1>5 DEF Balanced
<1> QED BY <1>6 DEF LeftoversAccountedFor

(***************************************************************************)
(* What the step of one shell does to the ledger                           *)
(***************************************************************************)
LEMMA TermStep ==
    ASSUME NEW p \in Shells, ShellStep(p)
    PROVE  \/ UNCHANGED term
           \/ \E b \in BOOLEAN : term' = [term EXCEPT ![p] = b]
<1>1. CASE LoopStep(p)
  BY <1>1 DEF LoopStep, TypeLine, ResolveSession, SessionDead, SessionTouched, Reload,
     EndOfInput, GiveUp, Calm
<1>2. CASE LoginCommandStep(p)
  <2>1. CASE CodeTooLate(p) \/ ReadAccount(p)
    BY <2>1 DEF CodeTooLate, ReadAccount, Calm, Fault
  <2>2. CASE ~(CodeTooLate(p) \/ ReadAccount(p))
    BY <1>2, <2>2 DEF LoginCommandStep, SignUp, Password, PasswordRefused, AskForCode,
       LoggedIn, AnswerCode, CheckCode, CodeCounted, CodeUnreadable, Abandon, Lost, Calm,
       Fault
  <2> QED BY <2>1, <2>2
<1>3. CASE AccountCommandStep(p)
  BY <1>3 DEF AccountCommandStep, BeginEnrollment, Saved, Confirm, Disable, PostureChanged,
     WrongCode, GiveUpEnrollment, EnrollmentLost, CancelEnrollment, Lost, Calm, Fault
<1>4. CASE LeaveStep(p)
  BY <1>4 DEF LeaveStep, EndSession, SessionEnded, SessionOver, Exit, Lost, Calm, Fault
<1>5. CASE InterruptStep(p)
  BY <1>5 DEF InterruptStep, CallFails, Signal, Kill, Start, Calm, Fault
<1> QED BY <1>1, <1>2, <1>3, <1>4, <1>5 DEF ShellStep

LEMMA ClockStands ==
    ASSUME NEW p \in Shells, ServiceStep(p)
    PROVE  clock' = clock
<1>1. CASE LoginStep(p)
  BY <1>1 DEF LoginStep, Register, AuthenticateLoad, ClearLockSave, PasswordFailed, Rehash,
     Park, PasswordLogin
<1>2. CASE ChallengeStep(p)
  BY <1>2, AnswerQuiet DEF ChallengeStep, CodeFailed, CodeLogin
<1>3. CASE EnrollmentStep(p)
  BY <1>3 DEF EnrollmentStep, BeginLoad, CancelLoad, SaveRow, ConfirmLoad, ConfirmSave,
     DisableLoad, DisableSave, PostureSave
<1>4. CASE SessionStep(p) \/ FailureStep(p)
  BY <1>4 DEF SessionStep, ResolveLoad, Touch, LogoutLoad, LogoutRevoke, FailureStep,
     DBError, Restart
<1> QED BY <1>1, <1>2, <1>3, <1>4 DEF ServiceStep, vars

LEMMA ShellStepShape ==
    ASSUME TypeOK, ShellsFit, NEW p \in Shells, ShellStep(p)
    PROVE  /\ [Next]_vars /\ clock' = clock
           /\ ui'[p] \in UI /\ Settled(p, ui'[p])
           /\ \A q \in Shells \ {p} :
                 /\ ui'[q] = ui[q] /\ term'[q] = term[q]
                 /\ challenges'[q] = challenges[q] /\ op'[q] = op[q]
<1>1. ServiceStep(p)
  BY ShellStepSettles
<1>2. PICK u : Settled(p, u)
  BY ShellStepSettles
<1>3. ui \in [Shells -> UI] /\ term \in [Shells -> BOOLEAN] /\ u \in UI
  BY <1>2 DEF ShellsFit, Settled, LoginFits
<1>4. ui'[p] = u /\ \A q \in Shells \ {p} : ui'[q] = ui[q]
  BY <1>2, <1>3 DEF Settled
<1>5. \A q \in Shells \ {p} : term'[q] = term[q]
  BY <1>3, TermStep
<1> QED BY <1>1, <1>2, <1>3, <1>4, <1>5, ServiceStepIsStep, ClockStands, OthersApart

\* A session is newly stranded only when its shell let go of it, or when nobody
\* took it up.
LEMMA StrandedBy ==
    ASSUME TypeOK, ShellsFit, NEW p \in Shells, ShellStep(p),
           NEW i \in Stranded', i \notin Stranded
    PROVE  /\ ui'[p].token # i
           /\ \/ i = ui[p].token /\ i \in DOMAIN sessions' /\ IsActive(sessions'[i], clock)
              \/ i = nextSid /\ nextSid' = nextSid + 1
<1>1. /\ [Next]_vars /\ clock' = clock
      /\ \A q \in Shells \ {p} : ui'[q] = ui[q]
  BY ShellStepShape
<1>2. /\ i \in DOMAIN sessions' /\ IsActive(sessions'[i], clock)
      /\ \A q \in Shells : ui'[q].token # i
  BY <1>1 DEF Stranded
<1>3. SessionsStep
  BY <1>1, SessionsFlow
<1>4. ASSUME i \in DOMAIN sessions, IsActive(sessions[i], clock) PROVE i = ui[p].token
  BY <1>1, <1>2, <1>4 DEF Stranded
<1>5. ASSUME i \in DOMAIN sessions, NEW q \in Shells, Running(q, "touch"), op[q].ref = i
      PROVE  i = ui[p].token
  <2>1. ui[q].token = i
    BY <1>5 DEF Running, ShellsFit, ShellFits, CallFits
  <2> QED BY <1>1, <1>2, <2>1
<1>6. CASE i \in DOMAIN sessions /\ sessions'[i] = sessions[i]
  BY <1>2, <1>4, <1>6
<1>7. CASE i \in DOMAIN sessions /\ sessions'[i] = [sessions[i] EXCEPT !.revoked = TRUE]
  <2>1. sessions[i] \in Session(DOMAIN users)
    BY <1>7 DEF TypeOK
  <2>2. sessions'[i].revoked
    BY <1>7, <2>1 DEF Session
  <2> QED BY <1>2, <2>2 DEF IsActive
<1> QED BY <1>2, <1>3, <1>5, <1>6, <1>7 DEF SessionsStep

LEMMA NoneStranded ==
    ASSUME TypeOK, ShellsFit, NEW p \in Shells, ShellStep(p), nextSid' = nextSid,
           \/ ui'[p].token = ui[p].token
           \/ ui[p].token \in DOMAIN sessions' => ~IsActive(sessions'[ui[p].token], clock)
    PROVE  Stranded' \subseteq Stranded
<1>1. nextSid \in Nat
  BY DEF TypeOK
<1> QED BY <1>1, StrandedBy

LEMMA OneStranded ==
    ASSUME TypeOK, ShellsFit, NEW p \in Shells, ShellStep(p),
           \/ nextSid' = nextSid
           \/ ui'[p].token = ui[p].token
    PROVE  \E x : Stranded' \subseteq Stranded \cup {x}
<1>1. nextSid \in Nat
  BY DEF TypeOK
<1>2. CASE nextSid' = nextSid
  <2>1. Stranded' \subseteq Stranded \cup {ui[p].token}
    BY <1>1, <1>2, StrandedBy
  <2> QED BY <2>1
<1>3. CASE ui'[p].token = ui[p].token
  <2>1. Stranded' \subseteq Stranded \cup {nextSid}
    BY <1>3, StrandedBy
  <2> QED BY <2>1
<1> QED BY <1>2, <1>3

\* The session just issued is held, and there was no other to let go of.
LEMMA NewOneHeld ==
    ASSUME TypeOK, ShellsFit, NEW p \in Shells, ShellStep(p),
           ui[p].token = 0, ui'[p].token = nextSid
    PROVE  Stranded' \subseteq Stranded
<1>1. 0 \notin DOMAIN sessions'
  BY ShellStepShape, NextTables
<1> QED BY <1>1, StrandedBy

LEMMA NoneDoomed ==
    ASSUME TypeOK, ShellsFit, NEW p \in Shells, ShellStep(p),
           ui'[p].at \in Doors /\ term'[p] => ui[p].at \in Doors /\ term[p]
    PROVE  Doomed' \subseteq Doomed
  BY ShellStepShape DEF Doomed

LEMMA OneDoomed ==
    ASSUME TypeOK, ShellsFit, NEW p \in Shells, ShellStep(p)
    PROVE  Doomed' \subseteq Doomed \cup {p}
  BY ShellStepShape DEF Doomed

LEMMA OtherUnanswered ==
    ASSUME TypeOK, ShellsFit, NEW p \in Shells, ShellStep(p)
    PROVE  \A q \in Shells \ {p} : Unanswered(q)' = Unanswered(q)
  BY ShellStepShape DEF Unanswered, At, Unexpired, Condemned, Running

LEMMA NoneUnanswered ==
    ASSUME TypeOK, ShellsFit, NEW p \in Shells, ShellStep(p),
           Unanswered(p)' \subseteq Unanswered(p)
    PROVE  AllUnanswered' \subseteq AllUnanswered
<1>1. \A q \in Shells : Unanswered(q)' \subseteq Unanswered(q)
  BY OtherUnanswered
<1> QED BY <1>1 DEF AllUnanswered

LEMMA OneUnanswered ==
    ASSUME TypeOK, ShellsFit, NEW p \in Shells, ShellStep(p), NEW c,
           Unanswered(p)' \subseteq Unanswered(p) \cup {c}
    PROVE  AllUnanswered' \subseteq AllUnanswered \cup {<<p, c>>}
<1>1. \A q \in Shells \ {p} : Unanswered(q)' = Unanswered(q)
  BY OtherUnanswered
<1> QED BY <1>1 DEF AllUnanswered

LEMMA BackGoes ==
    ASSUME NEW p \in Shells, NEW u \in UI
    PROVE  /\ Back(p, u).at \in {"exit", "loop"} /\ Back(p, u).token = u.token
           /\ Back(p, u).at = "loop" => ~term[p]
  BY DEF Back, UI

LEMMA DispatchGoes ==
    ASSUME NEW p \in Shells, NEW u \in UI
    PROVE  /\ Dispatch(p, u).at \notin Doors /\ Dispatch(p, u).token = u.token
           /\ Dispatch(p, u).at = "loop" => ~term[p]
<1>1. /\ Back(p, u).at \notin Doors /\ Back(p, u).token = u.token
      /\ Back(p, u).at = "loop" => ~term[p]
  BY BackGoes DEF Doors
<1>2. CASE Dispatch(p, u) = Back(p, u)
  BY <1>1, <1>2
<1>3. CASE Dispatch(p, u) # Back(p, u)
  <2>1. Dispatch(p, u) = [u EXCEPT !.at = u.cmd, !.cmd = "none"]
    BY <1>3 DEF Dispatch
  <2>2. Dispatch(p, u).at = u.cmd /\ Dispatch(p, u).token = u.token
    BY <2>1 DEF UI
  <2> QED BY <2>2 DEF UI, Commands, Guest, SignedIn, Doors
<1> QED BY <1>2, <1>3

LEMMA NotResolvedGoes ==
    ASSUME NEW p \in Shells, NEW u \in UI
    PROVE  /\ NotResolved(p, u).at \notin Doors
           /\ NotResolved(p, u).at = "loop" => ~term[p]
<1>1. Clear(u) \in UI
  BY DEF Clear, UI
<1> QED BY <1>1, BackGoes, DispatchGoes DEF NotResolved, Doors

(***************************************************************************)
(* The parked logins of the shell that takes the step                      *)
(***************************************************************************)
LEMMA StoreKept ==
    ASSUME TypeOK, ShellsFit, NEW p \in Shells, ShellStep(p),
           term'[p] = term[p], challenges'[p] \subseteq challenges[p],
           ui[p].at \notin {"code", "exit"},
           ui'[p].at = "loop" => ui[p].at = "loop" \/ ~term[p]
    PROVE  Unanswered(p)' \subseteq Unanswered(p)
  BY ShellStepShape DEF Unanswered, At, Unexpired

LEMMA StandStill ==
    ASSUME TypeOK, ShellsFit, NEW p \in Shells, ShellStep(p),
           term'[p] = term[p], challenges'[p] \subseteq challenges[p], UNCHANGED ui,
           At(p, "code") => ~Condemned(p)'
    PROVE  Unanswered(p)' \subseteq Unanswered(p)
  BY ShellStepShape DEF Unanswered, At, Unexpired

LEMMA GoneForGood ==
    ASSUME NEW p \in Shells, challenges'[p] = {} \/ ui'[p].at = "exit"
    PROVE  Unanswered(p)' \subseteq Unanswered(p)
  BY DEF Unanswered, At

\* The prompt for the code ends with the parked login it was about.
LEMMA CodeSettled ==
    ASSUME TypeOK, ShellsFit, NEW p \in Shells, ShellStep(p),
           term'[p] = term[p], ui[p].at = "code", ui'[p].at = "loop" => ~term[p],
           challenges'[p] \subseteq challenges[p],
           \A c \in challenges'[p] : c.id # ui[p].challenge
    PROVE  Unanswered(p)' \subseteq Unanswered(p)
  BY ShellStepShape DEF Unanswered, At, Unexpired

\* Or without it.
LEMMA CodeLeftOver ==
    ASSUME TypeOK, ShellsFit, NEW p \in Shells, ShellStep(p),
           term'[p] = term[p], ui[p].at = "code", ui'[p].at = "loop" => ~term[p],
           challenges'[p] \subseteq challenges[p]
    PROVE  \E x : AllUnanswered' \subseteq AllUnanswered \cup {x}
<1>1. \A c, d \in challenges[p] : c.id = ui[p].challenge /\ d.id = ui[p].challenge => c = d
  BY DEF ShellsFit, ShellFits, IdsUnique
<1>2. PICK c : \A d \in challenges[p] : d.id = ui[p].challenge => d = c
  BY <1>1
<1>3. Unanswered(p)' \subseteq Unanswered(p) \cup {c}
  BY <1>2, ShellStepShape DEF Unanswered, At, Unexpired
<1> QED BY <1>3, OneUnanswered

(***************************************************************************)
(* Steps that leave nothing over                                           *)
(***************************************************************************)
LEMMA CountersGrow ==
    ASSUME ShellsFit, Calm \/ Fault
    PROVE  /\ faults + signals \in Nat /\ faults' + signals' >= faults + signals
           /\ Fault => faults' + signals' = faults + signals + 1
           /\ Calm => faults' + signals' = faults + signals
           /\ term' = term
<1>1. faults \in Nat /\ signals \in Nat
  BY ShellConstants DEF ShellsFit
<1> QED BY <1>1 DEF Calm, Fault

\* A shell that keeps its session, or lets go of a dead one, strands nothing.
LetsGoOfDead(p) ==
    \/ ui'[p].token = ui[p].token
    \/ ui[p].token \in DOMAIN sessions' => ~IsActive(sessions'[ui[p].token], clock)

LEMMA CleanStep ==
    ASSUME TypeOK, ShellsFit, NEW p \in Shells, ShellStep(p), Calm \/ Fault,
           nextSid' = nextSid, LetsGoOfDead(p),
           ui'[p].at \in Doors /\ term[p] => ui[p].at \in Doors,
           Unanswered(p)' \subseteq Unanswered(p)
    PROVE  Clean
<1>1. Stranded' \subseteq Stranded
  BY NoneStranded DEF LetsGoOfDead
<1>2. Doomed' \subseteq Doomed
  BY NoneDoomed, CountersGrow
<1>3. AllUnanswered' \subseteq AllUnanswered
  BY NoneUnanswered
<1> QED BY <1>1, <1>2, <1>3, CountersGrow DEF Clean

\* A call of the service begins: the shell stays where it is.
LEMMA CleanBegin ==
    ASSUME TypeOK, ShellsFit, NEW p \in Shells, ShellStep(p), Calm,
           nextSid' = nextSid, challenges'[p] \subseteq challenges[p], UNCHANGED ui,
           At(p, "code") => ~Condemned(p)'
    PROVE  Clean
<1>1. Unanswered(p)' \subseteq Unanswered(p)
  BY StandStill, CountersGrow
<1> QED BY <1>1, CleanStep DEF LetsGoOfDead

\* Away from the prompt for a code and from the shutdown.
LEMMA CleanRoutine ==
    ASSUME TypeOK, ShellsFit, NEW p \in Shells, ShellStep(p), Calm \/ Fault,
           nextSid' = nextSid, challenges'[p] \subseteq challenges[p], LetsGoOfDead(p),
           ui[p].at \notin {"code", "exit"},
           ui'[p].at \in Doors /\ term[p] => ui[p].at \in Doors,
           ui'[p].at = "loop" => ui[p].at = "loop" \/ ~term[p]
    PROVE  Clean
<1>1. Unanswered(p)' \subseteq Unanswered(p)
  BY StoreKept, CountersGrow
<1> QED BY <1>1, CleanStep

LEMMA CleanBack ==
    ASSUME TypeOK, ShellsFit, NEW p \in Shells, ShellStep(p), Calm \/ Fault,
           nextSid' = nextSid, challenges'[p] \subseteq challenges[p],
           ui[p].at \notin {"code", "exit"}, Show(p, Back(p, ui[p]))
    PROVE  Clean
<1>1. ui'[p] = Back(p, ui[p]) /\ ui[p] \in UI
  BY DEF Show, ShellsFit
<1> QED BY <1>1, BackGoes, CleanRoutine DEF LetsGoOfDead, Doors

LEMMA LoopTallied ==
    ASSUME TypeOK, ShellsFit, NEW p \in Shells, LoopStep(p)
    PROVE  Clean
<1>0. ShellStep(p) /\ ui \in [Shells -> UI] /\ ui[p] \in UI
  BY DEF ShellStep, ShellsFit
<1>1. CASE \E cmd \in Commands : TypeLine(p, cmd)
  <2>1. PICK cmd \in Commands : TypeLine(p, cmd)
    BY <1>1
  <2> DEFINE u == [ui[p] EXCEPT !.cmd = cmd]
  <2>2. /\ nextSid' = nextSid /\ challenges'[p] = challenges[p] /\ Calm
        /\ ui[p].at = "loop" /\ ~term[p]
    BY <2>1 DEF TypeLine, vars, At, Alive
  <2>3. u \in UI /\ u.token = ui[p].token
    BY <1>0 DEF UI
  <2>4. ui'[p].token = ui[p].token
    <3>1. [u EXCEPT !.at = "revalidate"].token = u.token
      BY <2>3 DEF UI
    <3> QED BY <1>0, <2>1, <2>3, <3>1, DispatchGoes DEF TypeLine, Show
  <2> QED BY <1>0, <2>2, <2>4, CleanRoutine DEF LetsGoOfDead
<1>2. CASE ResolveSession(p)
  <2>1. nextSid' = nextSid /\ challenges'[p] = challenges[p] /\ Calm /\ UNCHANGED ui
    BY <1>2 DEF ResolveSession, ResolveLoad, tables
  <2> QED BY <1>0, <1>2, <2>1, CleanBegin DEF ResolveSession, At
<1>3. CASE SessionDead(p)
  <2>1. /\ nextSid' = nextSid /\ challenges'[p] = challenges[p] /\ Calm
        /\ ui[p].at = "revalidate" /\ ~term[p] /\ ui'[p] = NotResolved(p, ui[p])
    BY <1>0, <1>3 DEF SessionDead, vars, At, Alive, Show
  <2>2. LetsGoOfDead(p)
    BY <1>3 DEF SessionDead, vars, LetsGoOfDead
  <2> QED BY <1>0, <2>1, <2>2, CleanRoutine
<1>4. CASE SessionTouched(p)
  <2>1. /\ nextSid' = nextSid /\ challenges'[p] = challenges[p] /\ Calm
        /\ ui[p].at = "revalidate" /\ ~term[p]
    BY <1>4 DEF SessionTouched, Touch, At, Alive
  <2>2. op[p].ref = ui[p].token
    BY <1>4 DEF SessionTouched, Touch, Running, ShellsFit, ShellFits, CallFits
  <2>3. LetsGoOfDead(p)
    <3>1. CASE op[p].ref \in DOMAIN sessions /\ ~sessions[op[p].ref].revoked
      <4>1. ui'[p] = [ui[p] EXCEPT !.at = "reload"]
        BY <1>0, <1>4, <3>1 DEF SessionTouched, Show
      <4> QED BY <1>0, <4>1 DEF UI, LetsGoOfDead
    <3>2. CASE ~(op[p].ref \in DOMAIN sessions /\ ~sessions[op[p].ref].revoked)
      <4>1. TouchSession(op[p].ref, op[p].until)
        BY <1>4 DEF SessionTouched, Touch
      <4> QED BY <2>2, <3>2, <4>1 DEF TouchSession, IsActive, LetsGoOfDead
    <3> QED BY <3>1, <3>2
  <2> QED BY <1>0, <2>1, <2>3, CleanRoutine
<1>5. CASE Reload(p)
  <2> DEFINE u == [ui[p] EXCEPT !.two = users[ui[p].acct].enabled]
  <2>1. /\ nextSid' = nextSid /\ challenges'[p] = challenges[p] /\ Calm
        /\ ui[p].at = "reload" /\ ~term[p] /\ ui'[p] = Dispatch(p, u)
    BY <1>0, <1>5 DEF Reload, vars, At, Alive, Show
  <2>2. Dispatch(p, u).token = ui[p].token
    BY <1>0 DEF Dispatch, Back, UI
  <2> QED BY <1>0, <2>1, <2>2, CleanRoutine DEF LetsGoOfDead
<1>6. CASE EndOfInput(p)
  <2>1. /\ nextSid' = nextSid /\ Calm
        /\ ui'[p] = [ui[p] EXCEPT !.at = "exit", !.challenge = 0, !.tries = 0]
    BY <1>0, <1>6 DEF EndOfInput, vars, Show
  <2>2. ui'[p].at = "exit" /\ ui'[p].token = ui[p].token
    BY <1>0, <2>1 DEF UI
  <2>3. Unanswered(p)' \subseteq Unanswered(p)
    BY <2>2, GoneForGood
  <2> QED BY <1>0, <2>1, <2>2, <2>3, CleanStep DEF LetsGoOfDead, Doors
<1>7. CASE GiveUp(p)
  <2>1. /\ nextSid' = nextSid /\ challenges'[p] = challenges[p] /\ Calm
        /\ ui[p].at \notin {"code", "exit"} /\ Show(p, Back(p, ui[p]))
    BY <1>7 DEF GiveUp, vars
  <2> QED BY <1>0, <2>1, CleanBack
<1> QED BY <1>1, <1>2, <1>3, <1>4, <1>5, <1>6, <1>7 DEF LoopStep

LEMMA LoginTallied ==
    ASSUME TypeOK, ShellsFit, ParkedLoginConsumed, NEW p \in Shells, LoginCommandStep(p)
    PROVE  Clean \/ \E x : Owed(x)
<1>0. ShellStep(p) /\ ui \in [Shells -> UI] /\ ui[p] \in UI
  BY DEF ShellStep, ShellsFit
<1>p. challenges \in [Shells -> SUBSET Challenge]
  BY DEF TypeOK
<1>1. CASE SignUp(p)
  <2>1. /\ nextSid' = nextSid /\ challenges'[p] = challenges[p] /\ Calm
        /\ ui[p].at = "register" /\ Show(p, Back(p, ui[p]))
    BY <1>1 DEF SignUp, Register, At
  <2> QED BY <1>0, <2>1, CleanBack
<1>2. CASE Password(p)
  <2>1. nextSid' = nextSid /\ challenges'[p] = challenges[p] /\ Calm /\ UNCHANGED ui
    BY <1>2 DEF Password, AuthenticateLoad, ClearLockSave, Rehash, tables
  <2> QED BY <1>0, <1>2, <2>1, CleanBegin DEF Password, At
<1>3. CASE PasswordRefused(p)
  <2>1. /\ nextSid' = nextSid /\ challenges'[p] = challenges[p] /\ Calm
        /\ ui[p].at = "login" /\ Show(p, Back(p, ui[p]))
    BY <1>3 DEF PasswordRefused, PasswordFailed, RecordFailure, At
  <2> QED BY <1>0, <2>1, CleanBack
<1>4. CASE AskForCode(p)
  <2>1. PICK id \in 1 .. MaxChallenges :
           Park(p, id) /\ Show(p, [ui[p] EXCEPT !.at = "code", !.challenge = id])
    BY <1>4 DEF AskForCode
  <2>2. nextSid' = nextSid /\ Calm /\ ui[p].at = "login" /\ clock' = clock
    BY <1>4, <2>1 DEF AskForCode, Park, tables, At
  <2>3. ui'[p].at = "code" /\ ui'[p].challenge = id /\ ui'[p].token = ui[p].token
    BY <1>0, <2>1 DEF Show, UI
  <2>4. \A c \in challenges'[p] : c.id # id => c \in challenges[p]
    BY <1>p, <2>1 DEF Park, SaveChallenge
  <2>6. ~Condemned(p)'
    BY <2>1, CallsReturned DEF Condemned, Running
  <2>5. Unanswered(p)' \subseteq Unanswered(p)
    BY <2>2, <2>3, <2>4, <2>6, CountersGrow DEF Unanswered, At, Unexpired
  <2> QED BY <1>0, <2>2, <2>3, <2>5, CleanStep DEF LetsGoOfDead, Doors
<1>5. CASE LoggedIn(p)
  <2>1. /\ ui[p].at \in {"login", "code"} /\ ui[p].token = 0
        /\ challenges'[p] = challenges[p]
    BY <1>5 DEF LoggedIn, PasswordLogin, CodeLogin, ShellsFit, ShellFits, PlaceFits,
       GuestPlaces
  <2>2. /\ ui'[p].at \in {"exit", "loop"} /\ term' = term
        /\ ui'[p].at = "loop" => ~term[p]
    <3>1. /\ Back(p, ui[p]).at \in {"exit", "loop"} /\ Back(p, ui[p]) \in UI
          /\ Back(p, ui[p]).at = "loop" => ~term[p]
      BY <1>0, BackGoes DEF Back, UI, Places
    <3>2. ui'[p].at = Back(p, ui[p]).at
      <4>1. CASE Lost(p)
        BY <1>0, <4>1 DEF Lost, Show
      <4>2. CASE ~Lost(p)
        <5>1. ui'[p] = [Back(p, ui[p]) EXCEPT !.token = nextSid, !.acct = op[p].acct,
                                              !.two = op[p].row.enabled]
          BY <1>0, <1>5, <4>2 DEF LoggedIn, Show
        <5> QED BY <3>1, <5>1 DEF UI
      <4> QED BY <4>1, <4>2
    <3> QED BY <1>5, <3>1, <3>2, CountersGrow DEF LoggedIn, Lost
  <2>3. Unanswered(p)' \subseteq Unanswered(p)
    <3>1. CASE ui[p].at = "login"
      BY <1>0, <2>1, <2>2, <3>1, StoreKept
    <3>2. CASE ui[p].at = "code"
      <4>1. CodeLogin(p)
        BY <1>5, <3>2 DEF LoggedIn, PasswordLogin, PasswordAccepted, Running, ShellsFit,
           ShellFits, CallFits
      <4>2. op[p].ref = ui[p].challenge
        BY <4>1 DEF CodeLogin, Running, ShellsFit, ShellFits, CallFits
      <4>3. \A c \in challenges'[p] : c.id # ui[p].challenge
        BY <2>1, <4>1, <4>2 DEF CodeLogin, ParkedLoginConsumed
      <4> QED BY <1>0, <2>1, <2>2, <3>2, <4>3, CodeSettled
    <3> QED BY <2>1, <3>1, <3>2
  <2>4. AllUnanswered' \subseteq AllUnanswered
    BY <1>0, <2>3, NoneUnanswered
  <2>5. Doomed' \subseteq Doomed
    BY <1>0, <2>2, NoneDoomed DEF Doors
  <2>6. CASE Lost(p)
    <3>1. ui'[p].token = ui[p].token
      BY <1>0, <2>6, BackGoes DEF Lost, Show
    <3>2. PICK x : Stranded' \subseteq Stranded \cup {x}
      BY <1>0, <3>1, OneStranded
    <3> QED BY <2>4, <2>5, <2>6, <3>2, CountersGrow DEF Owed, Lost
  <2>7. CASE ~Lost(p)
    <3>1. Calm /\ ui'[p].token = nextSid
      <4>1. Back(p, ui[p]) \in UI
        BY <1>0 DEF Back, UI, Places
      <4> QED BY <1>0, <1>5, <2>7, <4>1 DEF LoggedIn, Show, UI
    <3>2. Stranded' \subseteq Stranded
      BY <1>0, <2>1, <3>1, NewOneHeld
    <3> QED BY <2>4, <2>5, <3>1, <3>2, CountersGrow DEF Clean
  <2> QED BY <2>6, <2>7
<1>6. CASE AnswerCode(p) \/ CheckCode(p)
  <2>1. AnswerStep(p) /\ Calm /\ UNCHANGED ui
    BY <1>6 DEF AnswerCode, CheckCode, Pending, AnswerStep
  <2>2. challenges'[p] \subseteq challenges[p]
    BY <1>p, <1>6 DEF AnswerCode, FindChallenge, CheckCode, CodeWrong, CodeRight,
       SaveChallenge, DeleteChallenge
  <2>3. ~Condemned(p)'
    BY <1>6, CallsLoaded DEF AnswerCode, CheckCode, Condemned, Running
  <2> QED BY <1>0, <2>1, <2>2, <2>3, AnswerQuiet, CleanBegin
<1>10. CASE ReadAccount(p)
  <2>1. /\ UNCHANGED <<ui, challenges, nextSid>> /\ ui[p].at = "code" /\ ~term[p]
        /\ Calm \/ Fault
    BY <1>10 DEF ReadAccount, LoadUser, tables, At, Alive
  <2>2. op'[p].row = users[op[p].acct]
    <3>1. op'[p] = [Idle EXCEPT !.pc = "checkCode", !.acct = op[p].acct,
                                !.row = users[op[p].acct], !.ref = op[p].ref]
      BY <1>10 DEF ReadAccount, LoadUser, Proceed, TypeOK
    <3> QED BY <3>1 DEF Idle
  <2>3. CASE ~Unreadable(p)
    <3>1. Calm /\ ~Condemned(p)'
      BY <1>10, <2>2, <2>3 DEF ReadAccount, Unreadable, Condemned
    <3> QED BY <1>0, <2>1, <3>1, CleanBegin
  <2>4. CASE Unreadable(p)
    <3>1. Fault
      BY <1>10, <2>4 DEF ReadAccount
    <3>2. PICK x : AllUnanswered' \subseteq AllUnanswered \cup {x}
      BY <1>0, <2>1, <3>1, CodeLeftOver, CountersGrow
    <3>3. Stranded' \subseteq Stranded
      BY <1>0, <2>1, NoneStranded
    <3>4. Doomed' \subseteq Doomed
      BY <1>0, <2>1, NoneDoomed DEF Doors
    <3> QED BY <3>1, <3>2, <3>3, <3>4, CountersGrow DEF Owed
  <2> QED BY <2>3, <2>4
<1>7. CASE CodeCounted(p)
  <2>1. nextSid' = nextSid /\ ui[p].at = "code" /\ ui[p].token = 0
    BY <1>7 DEF CodeCounted, CodeFailed, RecordFailure, At, ShellsFit, ShellFits, PlaceFits,
       GuestPlaces
  <2>2. op[p].ref = ui[p].challenge
    BY <1>7 DEF CodeCounted, CodeFailed, Running, ShellsFit, ShellFits, CallFits
  <2>3. ASSUME CodeFailed(p, TRUE), TripsLock(op[p].row), Show(p, Back(p, ui[p])), Calm
        PROVE  Clean
    <3>1. /\ ui'[p].token = ui[p].token /\ ui'[p].at \in {"exit", "loop"}
          /\ ui'[p].at = "loop" => ~term[p]
      BY <1>0, <2>3, BackGoes DEF Show
    <3>2. challenges'[p] = {c \in challenges[p] : c.id # ui[p].challenge}
      BY <1>p, <2>2, <2>3 DEF CodeFailed, DeleteChallenge
    <3>3. Unanswered(p)' \subseteq Unanswered(p)
      BY <1>0, <2>1, <2>3, <3>1, <3>2, CodeSettled, CountersGrow
    <3> QED BY <1>0, <2>1, <2>3, <3>1, <3>3, CleanStep DEF LetsGoOfDead, Doors
  <2>4. ASSUME CodeFailed(p, TRUE), ~TripsLock(op[p].row), Show(p, ui[p]), Calm
        PROVE  Clean
    <3>1. UNCHANGED ui /\ challenges'[p] = challenges[p]
      BY <1>0, <2>4 DEF Show, CodeFailed
    <3>2. ~Condemned(p)'
      BY <2>4, CallsReturned DEF Condemned, Running
    <3> QED BY <1>0, <2>1, <2>4, <3>1, <3>2, CleanBegin
  <2>5. ASSUME CodeFailed(p, FALSE), Lost(p) PROVE \E x : Owed(x)
    <3>1. /\ ui'[p].token = ui[p].token /\ ui'[p].at \in {"exit", "loop"}
          /\ ui'[p].at = "loop" => ~term[p]
      BY <1>0, <2>5, BackGoes DEF Lost, Show
    <3>2. challenges'[p] = challenges[p] /\ Fault
      BY <2>5 DEF CodeFailed, Lost
    <3>3. PICK x : AllUnanswered' \subseteq AllUnanswered \cup {x}
      BY <1>0, <2>1, <3>1, <3>2, CodeLeftOver, CountersGrow
    <3>4. Stranded' \subseteq Stranded
      BY <1>0, <2>1, <3>1, NoneStranded
    <3>5. Doomed' \subseteq Doomed
      BY <1>0, <3>1, NoneDoomed DEF Doors
    <3> QED BY <3>2, <3>3, <3>4, <3>5, CountersGrow DEF Owed
  <2> QED BY <1>7, <2>3, <2>4, <2>5 DEF CodeCounted
<1>8. CASE CodeTooLate(p) \/ Abandon(p)
  <2>1. challenges'[p] = {d \in challenges[p] : d.id # ui[p].challenge}
    <3>1. CASE (\E c \in Pending(p) : ChallengeExpired(p, c)) \/ Abandon(p)
      BY <1>p, <3>1 DEF Abandon, AbandonChallenge, ChallengeExpired, DeleteChallenge, Pending
    <3>2. CASE LoadUserFailed(p) \/ ChallengeRefused(p)
      <4>1. op[p].ref = ui[p].challenge
        BY <3>2 DEF LoadUserFailed, ChallengeRefused, Running, ShellsFit, ShellFits, CallFits
      <4> QED BY <1>p, <3>2, <4>1 DEF LoadUserFailed, ChallengeRefused, Refuse,
             DeleteChallenge
    <3> QED BY <1>8, <3>1, <3>2 DEF CodeTooLate
  <2>3. nextSid' = nextSid
    BY <1>8, PromptEnds, AnswerQuiet
  <2>4. (Calm \/ Fault) /\ ui[p].at = "code" /\ Show(p, Back(p, ui[p]))
    BY <1>8 DEF CodeTooLate, Abandon, At
  <2>5. /\ ui'[p].token = ui[p].token /\ ui'[p].at \in {"exit", "loop"}
        /\ ui'[p].at = "loop" => ~term[p]
    BY <1>0, <2>4, BackGoes DEF Show
  <2>6. Unanswered(p)' \subseteq Unanswered(p)
    BY <1>0, <2>1, <2>4, <2>5, CodeSettled, CountersGrow
  <2> QED BY <1>0, <2>3, <2>4, <2>5, <2>6, CleanStep DEF LetsGoOfDead, Doors
<1>9. CASE CodeUnreadable(p)
  <2>1. /\ nextSid' = nextSid /\ challenges' = challenges /\ clock' = clock /\ Calm
        /\ ui[p].at = "code" /\ Show(p, Back(p, ui[p])) /\ Condemned(p)
    BY <1>9 DEF CodeUnreadable, SecretUnreadable, Passes, Condemned, At, tables
  <2>2. /\ ui'[p].token = ui[p].token /\ ui'[p].at \in {"exit", "loop"}
        /\ ui'[p].at = "loop" => ~term[p]
    BY <1>0, <2>1, BackGoes DEF Show
  <2>3. Unanswered(p)' \subseteq Unanswered(p)
    BY <2>1, <2>2, CountersGrow DEF Unanswered, At, Unexpired
  <2> QED BY <1>0, <2>1, <2>2, <2>3, CleanStep DEF LetsGoOfDead, Doors
<1> QED
  BY <1>1, <1>2, <1>3, <1>4, <1>5, <1>6, <1>7, <1>8, <1>9, <1>10 DEF LoginCommandStep

LEMMA AccountTallied ==
    ASSUME TypeOK, ShellsFit, NEW p \in Shells, AccountCommandStep(p)
    PROVE  Clean
<1>0. ShellStep(p) /\ ui \in [Shells -> UI] /\ ui[p] \in UI
  BY DEF ShellStep, ShellsFit
<1>1. CASE BeginEnrollment(p) \/ Confirm(p) \/ Disable(p)
  <2>1. nextSid' = nextSid /\ challenges'[p] = challenges[p] /\ Calm /\ UNCHANGED ui
    BY <1>1 DEF BeginEnrollment, Confirm, Disable, BeginLoad, ConfirmLoad, DisableLoad, tables
  <2> QED BY <1>0, <1>1, <2>1, CleanBegin DEF BeginEnrollment, Confirm, Disable, At
<1>2. CASE Saved(p)
  <2>1. nextSid' = nextSid /\ challenges'[p] = challenges[p] /\ SaveRow(p)
    BY <1>2 DEF Saved, SaveRow
  <2>2. ui[p].at \in {"enable-2fa", "cancel"}
    BY <2>1 DEF SaveRow, Running, ShellsFit, ShellFits, CallFits
  <2>3. ASSUME Show(p, [ui[p] EXCEPT !.at = "enroll"]), Calm PROVE Clean
    <3>1. ui'[p].at = "enroll" /\ ui'[p].token = ui[p].token
      BY <1>0, <2>3 DEF Show, UI
    <3> QED BY <1>0, <2>1, <2>2, <2>3, <3>1, CleanRoutine DEF LetsGoOfDead, Doors
  <2>4. ASSUME Show(p, Back(p, ui[p])), Calm \/ Fault PROVE Clean
    BY <1>0, <2>1, <2>2, <2>4, CleanBack
  <2> QED BY <1>2, <2>3, <2>4 DEF Saved, Lost
<1>3. CASE PostureChanged(p)
  <2>1. /\ nextSid' = nextSid /\ challenges'[p] = challenges[p] /\ Calm /\ ~term[p]
        /\ Show(p, [ui[p] EXCEPT !.at = "revalidate", !.tries = 0])
        /\ op[p].pc \in {"confirm", "disable"}
    BY <1>3 DEF PostureChanged, ConfirmSave, DisableSave, PostureSave, Running, Alive
  <2>2. ui[p].at \in {"enroll", "disable-2fa"}
    BY <2>1 DEF ShellsFit, ShellFits, CallFits
  <2>3. ui'[p].at = "revalidate" /\ ui'[p].token = ui[p].token
    BY <1>0, <2>1 DEF Show, UI
  <2> QED BY <1>0, <2>1, <2>2, <2>3, CleanRoutine DEF LetsGoOfDead
<1>4. CASE WrongCode(p)
  <2>1. /\ nextSid' = nextSid /\ challenges'[p] = challenges[p] /\ Calm
        /\ ui[p].at \in {"enroll", "disable-2fa"} /\ ~term[p]
    BY <1>4 DEF WrongCode, vars, Alive
  <2>2. ASSUME Show(p, [ui[p] EXCEPT !.tries = @ + 1]) PROVE Clean
    <3>1. ui'[p].at = ui[p].at /\ ui'[p].token = ui[p].token
      BY <1>0, <2>2 DEF Show, UI
    <3> QED BY <1>0, <2>1, <3>1, CleanRoutine DEF LetsGoOfDead, Doors
  <2>3. ASSUME Show(p, [ui[p] EXCEPT !.at = "cancel", !.tries = 0]) PROVE Clean
    <3>1. ui'[p].at = "cancel" /\ ui'[p].token = ui[p].token
      BY <1>0, <2>3 DEF Show, UI
    <3> QED BY <1>0, <2>1, <3>1, CleanRoutine DEF LetsGoOfDead, Doors
  <2>4. ASSUME Show(p, Back(p, ui[p])) PROVE Clean
    BY <1>0, <2>1, <2>4, CleanBack
  <2> QED BY <1>4, <2>2, <2>3, <2>4 DEF WrongCode
<1>5. CASE GiveUpEnrollment(p)
  <2>1. /\ nextSid' = nextSid /\ challenges'[p] = challenges[p] /\ Calm
        /\ ui[p].at = "enroll" /\ Show(p, [ui[p] EXCEPT !.at = "cancel", !.tries = 0])
    BY <1>5 DEF GiveUpEnrollment, vars, At
  <2>2. ui'[p].at = "cancel" /\ ui'[p].token = ui[p].token
    BY <1>0, <2>1 DEF Show, UI
  <2> QED BY <1>0, <2>1, <2>2, CleanRoutine DEF LetsGoOfDead, Doors
<1>6. CASE EnrollmentLost(p)
  <2>1. /\ nextSid' = nextSid /\ challenges'[p] = challenges[p] /\ Calm
        /\ ui[p].at = "enroll" /\ Show(p, Back(p, ui[p]))
    BY <1>6 DEF EnrollmentLost, vars, At
  <2> QED BY <1>0, <2>1, CleanBack
<1>7. CASE CancelEnrollment(p)
  <2>1. /\ nextSid' = nextSid /\ challenges'[p] = challenges[p] /\ Calm
        /\ ui[p].at = "cancel" /\ (UNCHANGED ui \/ Show(p, Back(p, ui[p])))
    BY <1>7 DEF CancelEnrollment, CancelLoad, tables, vars, At
  <2> QED BY <1>0, <2>1, CleanBack, CleanBegin DEF At
<1> QED
  BY <1>1, <1>2, <1>3, <1>4, <1>5, <1>6, <1>7 DEF AccountCommandStep

LEMMA LeaveTallied ==
    ASSUME TypeOK, ShellsFit, NEW p \in Shells, LeaveStep(p)
    PROVE  Clean
<1>0. ShellStep(p) /\ ui \in [Shells -> UI] /\ ui[p] \in UI
  BY DEF ShellStep, ShellsFit
<1>c. Clear(ui[p]) \in UI /\ Clear(ui[p]).at = ui[p].at
  BY <1>0 DEF Clear, UI
<1>o. ASSUME Leaving(p), LoggedOut(p), Calm, LetsGoOfDead(p),
             nextSid' = nextSid, challenges'[p] = challenges[p]
      PROVE  Clean
  <2>1. CASE At(p, "logout")
    <3>1. /\ ui[p].at = "logout" /\ ui'[p].at \in {"exit", "loop"}
          /\ ui'[p].at = "loop" => ~term[p]
      BY <1>0, <1>c, <1>o, <2>1, BackGoes DEF LoggedOut, Show, At
    <3> QED BY <1>0, <1>o, <3>1, CleanRoutine DEF Doors
  <2>2. CASE ~At(p, "logout")
    <3>1. ui'[p].at = "exit"
      BY <1>0, <1>c, <1>o, <2>2 DEF Leaving, LoggedOut, Show, At
    <3>2. Unanswered(p)' \subseteq Unanswered(p)
      BY <3>1, GoneForGood
    <3> QED BY <1>0, <1>o, <3>1, <3>2, CleanStep DEF Doors
  <2> QED BY <2>1, <2>2
<1>1. CASE EndSession(p)
  <2>1. nextSid' = nextSid /\ challenges'[p] = challenges[p] /\ Calm /\ UNCHANGED ui
    BY <1>1 DEF EndSession, LogoutLoad, tables
  <2> QED BY <1>0, <1>1, <2>1, CleanBegin DEF EndSession, Leaving, At
<1>2. CASE SessionEnded(p)
  <2>1. /\ nextSid' = nextSid /\ challenges'[p] = challenges[p] /\ Leaving(p)
        /\ RevokeSession(op[p].ref)
    BY <1>2 DEF SessionEnded, LogoutRevoke
  <2>2. op[p].ref = ui[p].token
    BY <1>2 DEF SessionEnded, LogoutRevoke, Running, ShellsFit, ShellFits, CallFits
  <2>3. ASSUME ui[p].token \in DOMAIN sessions' PROVE sessions'[ui[p].token].revoked
    <3>1. ui[p].token \in DOMAIN sessions
      BY <2>1, <2>3 DEF RevokeSession
    <3>2. sessions[ui[p].token] \in Session(DOMAIN users)
      BY <3>1 DEF TypeOK
    <3> QED BY <2>1, <2>2, <3>1, <3>2 DEF RevokeSession, Session
  <2>4. LetsGoOfDead(p)
    BY <2>3 DEF LetsGoOfDead, IsActive
  <2>5. ASSUME At(p, "logout"), Lost(p) PROVE Clean
    BY <1>0, <2>1, <2>5, CleanBack DEF At, Lost
  <2> QED BY <1>2, <1>o, <2>1, <2>4, <2>5 DEF SessionEnded
<1>3. CASE SessionOver(p)
  <2>1. /\ nextSid' = nextSid /\ challenges'[p] = challenges[p] /\ Leaving(p) /\ Calm
        /\ LoggedOut(p) /\ sessions' = sessions
    BY <1>3 DEF SessionOver, vars
  <2>2. LetsGoOfDead(p)
    BY <1>3, <2>1 DEF SessionOver, LetsGoOfDead, IsActive
  <2> QED BY <1>o, <2>1, <2>2
<1>4. CASE Exit(p)
  <2>1. nextSid' = nextSid /\ Calm /\ ui'[p] = Off /\ ui[p].token = 0
    BY <1>0, <1>4 DEF Exit, Restart, Show
  <2>2. challenges'[p] = {}
    BY <1>4 DEF Exit, Restart, TypeOK
  <2>3. Unanswered(p)' \subseteq Unanswered(p)
    BY <2>2, GoneForGood
  <2> QED BY <1>0, <2>1, <2>3, CleanStep DEF LetsGoOfDead, Doors, Off
<1> QED BY <1>1, <1>2, <1>3, <1>4 DEF LeaveStep

LEMMA InterruptTallied ==
    ASSUME TypeOK, ShellsFit, NEW p \in Shells, InterruptStep(p)
    PROVE  Clean \/ \E x : Owed(x) \/ Dropped(p, x)
<1>0. ShellStep(p) /\ ui \in [Shells -> UI] /\ ui[p] \in UI
  BY DEF ShellStep, ShellsFit
<1>1. CASE CallFails(p)
  <2>1. /\ nextSid' = nextSid /\ challenges'[p] = challenges[p]
        /\ ui'[p] = AfterError(p, ui[p])
        /\ Fault \/ (Calm /\ term[p] /\ ui[p].at # "exit")
    BY <1>0, <1>1 DEF CallFails, DBError, tables, vars, Show, At
  <2>2. term' = term
    BY <2>1, CountersGrow
  <2>3. PICK x : Stranded' \subseteq Stranded \cup {x}
    BY <1>0, <2>1, OneStranded
  <2>4. CASE ui[p].at \in Doors
    <3>1. /\ ui'[p].at \notin Doors
          /\ ui'[p].at = "loop" => ~term[p]
      BY <1>0, <2>1, <2>4, NotResolvedGoes DEF AfterError, Doors
    <3>2. Unanswered(p)' \subseteq Unanswered(p)
      BY <1>0, <2>1, <2>2, <2>4, <3>1, StoreKept DEF Doors
    <3>3. AllUnanswered' \subseteq AllUnanswered
      BY <1>0, <3>2, NoneUnanswered
    <3>4. Doomed' \subseteq Doomed
      BY <1>0, <3>1, NoneDoomed
    <3>5. CASE Fault
      BY <2>3, <3>3, <3>4, <3>5, CountersGrow DEF Owed
    <3>6. CASE Calm /\ term[p]
      <4>1. p \in Doomed /\ p \notin Doomed'
        BY <2>4, <3>1, <3>6 DEF Doomed
      <4> QED BY <2>3, <3>3, <3>4, <3>6, <4>1, CountersGrow DEF Dropped
    <3> QED BY <2>1, <3>5, <3>6
  <2>5. CASE ui[p].at = "exit"
    <3>1. ui'[p].at = "exit" /\ Fault
      BY <1>0, <2>1, <2>5 DEF AfterError, Clear, UI
    <3>2. Unanswered(p)' \subseteq Unanswered(p)
      BY <3>1, GoneForGood
    <3>3. AllUnanswered' \subseteq AllUnanswered
      BY <1>0, <3>2, NoneUnanswered
    <3>4. Doomed' \subseteq Doomed
      BY <1>0, <3>1, NoneDoomed DEF Doors
    <3> QED BY <2>3, <3>1, <3>3, <3>4, CountersGrow DEF Owed
  <2>6. CASE ui[p].at \notin Doors \cup {"exit"}
    <3>1. ui'[p] = Back(p, ui[p])
      BY <2>1, <2>6 DEF AfterError, Doors
    <3>2. /\ ui'[p].token = ui[p].token /\ ui'[p].at \in {"exit", "loop"}
          /\ ui'[p].at = "loop" => ~term[p]
      BY <1>0, <3>1, BackGoes
    <3>3. CASE ui[p].at # "code"
      BY <1>0, <2>1, <2>6, <3>2, <3>3, CleanRoutine DEF LetsGoOfDead, Doors
    <3>4. CASE ui[p].at = "code" /\ Fault
      <4>1. PICK y : AllUnanswered' \subseteq AllUnanswered \cup {y}
        BY <1>0, <2>1, <2>2, <3>2, <3>4, CodeLeftOver
      <4>2. Stranded' \subseteq Stranded
        BY <1>0, <2>1, <3>2, NoneStranded
      <4>3. Doomed' \subseteq Doomed
        BY <1>0, <3>2, NoneDoomed DEF Doors
      <4> QED BY <3>4, <4>1, <4>2, <4>3, CountersGrow DEF Owed
    <3>5. CASE ui[p].at = "code" /\ Calm /\ term[p]
      <4>1. ui'[p].at = "exit"
        BY <3>2, <3>5
      <4>2. Unanswered(p)' \subseteq Unanswered(p)
        BY <4>1, GoneForGood
      <4> QED BY <1>0, <2>1, <3>2, <3>5, <4>2, CleanStep DEF LetsGoOfDead, Doors
    <3> QED BY <2>1, <3>3, <3>4, <3>5
  <2> QED BY <2>4, <2>5, <2>6
<1>2. CASE Signal(p)
  <2>1. /\ UNCHANGED <<vars, ui, faults>> /\ signals' = signals + 1
        /\ nextSid' = nextSid /\ challenges' = challenges /\ clock' = clock
    BY <1>2 DEF Signal, vars
  <2>2. term'[p] = TRUE
    BY <1>2 DEF Signal, ShellsFit
  <2>3. Unanswered(p)' \subseteq Unanswered(p)
    BY <2>1, <2>2 DEF Unanswered, At, Unexpired, Condemned, Running, vars
  <2>4. AllUnanswered' \subseteq AllUnanswered
    BY <1>0, <2>3, NoneUnanswered
  <2>5. Stranded' \subseteq Stranded
    BY <1>0, <2>1, NoneStranded
  <2>6. Doomed' \subseteq Doomed \cup {p}
    BY <1>0, OneDoomed
  <2>7. faults' + signals' = faults + signals + 1
    BY <2>1, ShellConstants DEF ShellsFit
  <2> QED BY <2>4, <2>5, <2>6, <2>7 DEF Owed
<1>3. CASE Kill(p)
  <2>1. nextSid' = nextSid /\ Fault /\ ui'[p] = Off /\ challenges'[p] = {}
    BY <1>0, <1>3 DEF Kill, Restart, Show, TypeOK
  <2>2. PICK x : Stranded' \subseteq Stranded \cup {x}
    BY <1>0, <2>1, OneStranded
  <2>3. Unanswered(p)' \subseteq Unanswered(p)
    BY <2>1, GoneForGood
  <2>4. AllUnanswered' \subseteq AllUnanswered
    BY <1>0, <2>3, NoneUnanswered
  <2>5. Doomed' \subseteq Doomed
    BY <1>0, <2>1, NoneDoomed DEF Doors, Off
  <2> QED BY <2>1, <2>2, <2>4, <2>5, CountersGrow DEF Owed
<1>4. CASE Start(p)
  <2>1. /\ nextSid' = nextSid /\ UNCHANGED <<faults, signals>> /\ challenges'[p] = {}
        /\ ui'[p] = [Off EXCEPT !.at = "loop"]
    BY <1>0, <1>4 DEF Start, Restart, Show, TypeOK
  <2>2. ui[p].token = 0 /\ ui'[p].token = 0 /\ ui'[p].at = "loop"
    BY <1>4, <2>1 DEF Start, At, Off, ShellsFit, ShellFits, PlaceFits, GuestPlaces
  <2>3. Unanswered(p)' \subseteq Unanswered(p)
    BY <2>1, GoneForGood
  <2>4. AllUnanswered' \subseteq AllUnanswered
    BY <1>0, <2>3, NoneUnanswered
  <2>5. Stranded' \subseteq Stranded
    BY <1>0, <2>1, <2>2, NoneStranded
  <2>6. Doomed' \subseteq Doomed
    BY <1>0, <2>2, NoneDoomed DEF Doors
  <2>7. faults' + signals' >= faults + signals
    BY <2>1, ShellConstants DEF ShellsFit
  <2> QED BY <2>4, <2>5, <2>6, <2>7 DEF Clean
<1> QED BY <1>1, <1>2, <1>3, <1>4 DEF InterruptStep

\* Time only lets sessions and parked logins run out.
LEMMA TickTallied ==
    ASSUME TypeOK, ShellsFit, Tick \/ UNCHANGED vars, UNCHANGED <<ui, term, faults, signals>>
    PROVE  Clean
<1>1. /\ UNCHANGED <<sessions, challenges, op>> /\ clock \in Nat /\ clock' \in Nat
      /\ clock <= clock'
  BY DEF TypeOK, Tick, tables, vars
<1>2. ASSUME NEW i \in Stranded' PROVE i \in Stranded
  <2>1. sessions[i] \in Session(DOMAIN users)
    BY <1>1, <1>2 DEF Stranded, TypeOK
  <2>2. IsActive(sessions[i], clock)
    BY <1>1, <1>2, <2>1 DEF Stranded, IsActive, ExpiresAt, Earlier, Session
  <2> QED BY <1>1, <1>2, <2>2 DEF Stranded
<1>3. ASSUME NEW p \in Shells PROVE Unanswered(p)' \subseteq Unanswered(p)
  <2>1. \A c \in challenges[p] : c.expires > clock' => c.expires > clock
    <3> SUFFICES ASSUME NEW c \in challenges[p], c.expires > clock' PROVE c.expires > clock
      OBVIOUS
    <3>1. c.expires \in Nat
      BY DEF TypeOK, Challenge
    <3> QED BY <1>1, <3>1
  <2> QED BY <1>1, <2>1 DEF Unanswered, At, Unexpired, Condemned, Running
<1>4. faults' + signals' >= faults + signals
  BY ShellConstants DEF ShellsFit
<1> QED BY <1>2, <1>3, <1>4 DEF Clean, Doomed, AllUnanswered

LEMMA BalanceKept ==
    TypeOK /\ ShellsFit /\ ParkedLoginConsumed /\ Balanced /\ [ShellNext]_shellVars
        => Balanced'
<1> SUFFICES ASSUME TypeOK, ShellsFit, ParkedLoginConsumed, Balanced, [ShellNext]_shellVars
             PROVE  Balanced'
  OBVIOUS
<1>1. faults + signals \in Nat /\ faults' + signals' \in Nat
  <2>1. faults' \in 0 .. MaxFaults /\ signals' \in 0 .. MaxSignals
    <3>1. ShellsFit'
      BY FitsStep
    <3> QED BY <3>1 DEF ShellsFit
  <2>2. faults' \in Nat /\ signals' \in Nat
    BY <2>1, ShellConstants
  <2>3. faults \in Nat /\ signals \in Nat
    BY ShellConstants DEF ShellsFit
  <2>4. \A m, n \in Nat : m + n \in Nat
    OBVIOUS
  <2> QED BY <2>2, <2>3, <2>4
<1>2. ASSUME NEW p \in Shells, ShellStep(p) PROVE Balanced'
  <2>1. Clean \/ \E x : Owed(x) \/ Dropped(p, x)
    BY <1>2, LoopTallied, LoginTallied, AccountTallied, LeaveTallied, InterruptTallied
    DEF ShellStep
  <2> QED BY <1>1, <2>1, BalancedStep
<1>3. CASE \/ Tick /\ UNCHANGED <<ui, term, faults, signals>>
           \/ UNCHANGED shellVars
  BY <1>1, <1>3, TickTallied, BalancedStep DEF shellVars
<1> QED BY <1>2, <1>3 DEF ShellNext, ShellStep

\* Whatever is typed, cancelled, refused, lost or killed, in any number of shells:
\* the live sessions without a holder and the parked logins without a prompt are
\* never more than the faults and signals there were.
THEOREM LeftoversPaidFor == ShellSpec => []LeftoversAccountedFor
<1>1. ShellInit => Balanced
  <2> SUFFICES ASSUME ShellInit PROVE Balanced
    OBVIOUS
  <2>1. Stranded = {}
    BY DEF ShellInit, Init, Stranded, EmptyTable
  <2>2. Doomed = {} /\ AllUnanswered = {}
    BY DEF ShellInit, Init, Doomed, AllUnanswered, Unanswered
  <2>3. faults = 0 /\ signals = 0
    BY DEF ShellInit
  <2> QED BY <2>1, <2>2, <2>3, FS_EmptySet DEF Balanced
<1>2. TypeOK /\ ShellsFit /\ Balanced => LeftoversAccountedFor
  <2>1. ShellsFit => faults + signals \in Nat
    BY ShellConstants DEF ShellsFit
  <2> QED BY <2>1, BalancedAccounts
<1> QED
  BY <1>1, <1>2, BalanceKept, ShellsAlwaysFit, ShellImplementsService, ParkedLoginsConsumed,
     PTL DEF ShellSpec
=============================================================================
