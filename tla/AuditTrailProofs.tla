-------------------------- MODULE AuditTrailProofs --------------------------
(***************************************************************************)
(* The account rows and the audit trail tell the same story when one shell *)
(* has the database to itself: two factor is on exactly when the trail     *)
(* says so, and, provided a parked login does not outlive a lock, the      *)
(* failure counter is what the trail counts, or after a lock one less.     *)
(* So the next lock comes in time, or one failure late.                    *)
(***************************************************************************)
EXTENDS AuthAuditProofs, LoginRefinementProofs, FiniteSetTheorems

(***************************************************************************)
(* What the trail says of an account, and what its row says                *)
(***************************************************************************)
Breaks == {"login_succeeded", "account_locked"}
Switches == {"totp_enabled", "totp_disabled"}

Said(trail, a, n, types) == trail[n].acct = a /\ trail[n].type \in types

Streak(trail, a) ==
    {n \in 1 .. Len(trail) :
        /\ trail[n].acct = a /\ trail[n].counted
        /\ \A m \in 1 .. Len(trail) : Said(trail, a, m, Breaks) => m < n}

\* The trail says type, and not the opposite since.
Stands(trail, a, type, opposite) ==
    \E n \in 1 .. Len(trail) :
        /\ Said(trail, a, n, {type})
        /\ \A m \in 1 .. Len(trail) : Said(trail, a, m, {opposite}) => m < n

On(trail, a) == Stands(trail, a, "totp_enabled", "totp_disabled")
LockedLast(trail, a) == Stands(trail, a, "account_locked", "login_succeeded")

Counted(trail, a) == Cardinality(Streak(trail, a))

Fails(table, a) == IF a \in DOMAIN table THEN table[a].failed ELSE 0
Switched(table, a) == a \in DOMAIN table /\ table[a].enabled
CarriesLock(table, a) == a \in DOMAIN table /\ table[a].lockedUntil # Unset

\* The counter against the trail: as long as the row carries the lock, open or run
\* out, they agree; once it is cleared, with what was counted on it, the counter
\* may be one short.
Told(counted, lockedLast, failed, carries) ==
    /\ counted = failed \/ (lockedLast /\ counted = failed + 1)
    /\ carries => counted = failed /\ lockedLast

\* Accounts that are not registered yet have neither failures nor two factor.
CountersTold(trail, table) ==
    \A a \in Accounts :
        Told(Counted(trail, a), LockedLast(trail, a), Fails(table, a), CarriesLock(table, a))
SwitchesTold(trail, table) == \A a \in Accounts : On(trail, a) <=> Switched(table, a)

(***************************************************************************)
(* One more entry                                                          *)
(***************************************************************************)
LEMMA OneMore ==
    ASSUME NEW s \in Seq(Event), NEW e \in Event
    PROVE  /\ s \o <<e>> \in Seq(Event)
           /\ Len(s \o <<e>>) = Len(s) + 1 /\ Len(s) \in Nat
           /\ 1 .. Len(s) + 1 = (1 .. Len(s)) \cup {Len(s) + 1}
           /\ \A n \in 1 .. Len(s) : (s \o <<e>>)[n] = s[n] /\ n < Len(s) + 1
           /\ (s \o <<e>>)[Len(s) + 1] = e
<1>1. <<e>> \in Seq(Event) /\ Len(<<e>>) = 1 /\ <<e>>[1] = e /\ Len(s) \in Nat
  OBVIOUS
<1> DEFINE one == <<e>>
<1> HIDE DEF one
<1>2. /\ s \o one \in Seq(Event) /\ Len(s \o one) = Len(s) + Len(one)
      /\ \A i \in 1 .. Len(s) + Len(one) :
            (s \o one)[i] = IF i <= Len(s) THEN s[i] ELSE one[i - Len(s)]
  BY <1>1, ConcatProperties DEF one
<1>3. one \in Seq(Event) /\ Len(one) = 1 /\ one[1] = e
  BY <1>1 DEF one
<1>4. Len(s) + 1 - Len(s) = 1
  BY <1>1
<1>5. (s \o one)[Len(s) + 1] = e
  BY <1>1, <1>2, <1>3, <1>4
<1>6. \A n \in 1 .. Len(s) : (s \o one)[n] = s[n] /\ n < Len(s) + 1
  BY <1>1, <1>2, <1>3
<1> QED BY <1>1, <1>2, <1>3, <1>5, <1>6 DEF one

LEMMA StreakFinite ==
    ASSUME NEW s \in Seq(Event), NEW a
    PROVE  /\ IsFiniteSet(Streak(s, a)) /\ Counted(s, a) \in Nat
           /\ Len(s) + 1 \notin Streak(s, a)
<1>1. Len(s) \in Nat /\ Len(s) + 1 \notin 1 .. Len(s)
  OBVIOUS
<1>2. IsFiniteSet(1 .. Len(s))
  BY <1>1, FS_Interval
<1>3. Streak(s, a) \subseteq 1 .. Len(s)
  BY DEF Streak
<1>4. IsFiniteSet(Streak(s, a))
  BY <1>2, <1>3, FS_Subset
<1> QED BY <1>1, <1>3, <1>4, FS_CardinalityType DEF Counted

\* The entry of another account, or one that neither counts nor breaks the
\* streak, leaves it; a counted one is added to it; a break empties it.
LEMMA CountedAfter ==
    ASSUME NEW s \in Seq(Event), NEW e \in Event, NEW a,
           NEW t, t = s \o <<e>>
    PROVE  /\ e.acct # a \/ (e.type \notin Breaks /\ e.counted = FALSE) => Counted(t, a) = Counted(s, a)
           /\ e.acct = a /\ e.type \in Breaks => Counted(t, a) = 0
           /\ e.acct = a /\ e.type \notin Breaks /\ e.counted = TRUE
                => Counted(t, a) = Counted(s, a) + 1
<1> DEFINE last == Len(s) + 1
           old == 1 .. Len(s)
<1>1. /\ Len(t) = last /\ 1 .. last = old \cup {last} /\ t[last] = e
      /\ \A n \in old : t[n] = s[n] /\ n < last /\ n # last
      /\ ~(last < last)
      /\ \A n \in old : n \in Int /\ ~(last < n)
  BY OneMore
<1> HIDE DEF last, old
<1>2. Streak(s, a) = {n \in old : /\ s[n].acct = a /\ s[n].counted
                                  /\ \A m \in old : Said(s, a, m, Breaks) => m < n}
  BY DEF Streak, old
<1>3. Streak(t, a) = {n \in old \cup {last} :
                         /\ t[n].acct = a /\ t[n].counted
                         /\ \A m \in old \cup {last} : Said(t, a, m, Breaks) => m < n}
  BY <1>1 DEF Streak
<1>4. /\ \A m \in old : Said(t, a, m, Breaks) <=> Said(s, a, m, Breaks)
      /\ Said(t, a, last, Breaks) <=> e.acct = a /\ e.type \in Breaks
  BY <1>1 DEF Said
<1>5. CASE e.acct # a \/ (e.type \notin Breaks /\ e.counted = FALSE)
  <2>1. \A n : n \in Streak(t, a) <=> n \in Streak(s, a)
    BY <1>1, <1>2, <1>3, <1>4, <1>5
  <2>2. Streak(t, a) = Streak(s, a)
    BY <2>1 DEF Streak
  <2> QED BY <1>5, <2>2 DEF Counted
<1>6. CASE e.acct = a /\ e.type \in Breaks
  <2>1. Said(t, a, last, Breaks)
    BY <1>4, <1>6
  <2>2. ASSUME NEW n \in Streak(t, a) PROVE FALSE
    <3>1. n \in old \cup {last} /\ last < n
      BY <1>3, <2>1
    <3> QED BY <1>1, <3>1
  <2>3. Streak(t, a) = {}
    BY <2>2
  <2> QED BY <1>6, <2>3, FS_EmptySet DEF Counted
<1>7. CASE e.acct = a /\ e.type \notin Breaks /\ e.counted = TRUE
  <2>1. ~Said(t, a, last, Breaks)
    BY <1>4, <1>7
  <2>2. \A m \in old \cup {last} : Said(t, a, m, Breaks) => m < last
    BY <1>1, <2>1
  <2>3. last \in Streak(t, a)
    BY <1>1, <1>3, <1>7, <2>2
  <2>4. \A n \in old : n \in Streak(t, a) <=> n \in Streak(s, a)
    BY <1>1, <1>2, <1>3, <1>4, <2>1
  <2>5. Streak(t, a) \subseteq old \cup {last} /\ Streak(s, a) \subseteq old
    BY <1>2, <1>3
  <2>6. Streak(t, a) = Streak(s, a) \cup {last}
    BY <2>3, <2>4, <2>5
  <2>7. last \notin Streak(s, a) /\ IsFiniteSet(Streak(s, a))
    BY StreakFinite DEF last
  <2>8. Counted(t, a) = Counted(s, a) + 1
    BY <2>6, <2>7, FS_AddElement DEF Counted
  <2> QED BY <1>7, <2>8
<1> QED BY <1>5, <1>6, <1>7

LEMMA StandsAfter ==
    ASSUME NEW s \in Seq(Event), NEW e \in Event, NEW a,
           NEW t, t = s \o <<e>>, NEW type, NEW opposite, type # opposite
    PROVE  /\ e.acct # a \/ e.type \notin {type, opposite}
                => (Stands(t, a, type, opposite) <=> Stands(s, a, type, opposite))
           /\ e.acct = a /\ e.type = type => Stands(t, a, type, opposite)
           /\ e.acct = a /\ e.type = opposite => ~Stands(t, a, type, opposite)
<1> DEFINE last == Len(s) + 1
           old == 1 .. Len(s)
<1>1. /\ Len(t) = last /\ 1 .. last = old \cup {last} /\ t[last] = e
      /\ \A n \in old : t[n] = s[n] /\ n < last /\ n # last
      /\ ~(last < last)
      /\ \A n \in old : n \in Int /\ ~(last < n)
  BY OneMore
<1> HIDE DEF last, old
<1>2. Stands(s, a, type, opposite) <=>
        \E n \in old : /\ Said(s, a, n, {type})
                       /\ \A m \in old : Said(s, a, m, {opposite}) => m < n
  BY DEF Stands, old
<1>3. Stands(t, a, type, opposite) <=>
        \E n \in old \cup {last} :
           /\ Said(t, a, n, {type})
           /\ \A m \in old \cup {last} : Said(t, a, m, {opposite}) => m < n
  BY <1>1 DEF Stands
<1>4. \A types : /\ \A m \in old : Said(t, a, m, types) <=> Said(s, a, m, types)
                 /\ Said(t, a, last, types) <=> e.acct = a /\ e.type \in types
  BY <1>1 DEF Said
<1>5. CASE e.acct # a \/ e.type \notin {type, opposite}
  <2>1. ~Said(t, a, last, {type}) /\ ~Said(t, a, last, {opposite})
    BY <1>4, <1>5
  <2>2. Stands(t, a, type, opposite) <=> Stands(s, a, type, opposite)
    BY <1>2, <1>3, <1>4, <2>1
  <2> QED BY <1>5, <2>2
<1>6. CASE e.acct = a /\ e.type = type
  <2>1. Said(t, a, last, {type}) /\ ~Said(t, a, last, {opposite})
    BY <1>4, <1>6
  <2>2. \A m \in old \cup {last} : Said(t, a, m, {opposite}) => m < last
    BY <1>1, <2>1
  <2>3. Stands(t, a, type, opposite)
    BY <1>3, <2>1, <2>2
  <2> QED BY <1>6, <2>3
<1>7. CASE e.acct = a /\ e.type = opposite
  <2>1. Said(t, a, last, {opposite}) /\ ~Said(t, a, last, {type})
    BY <1>4, <1>7
  <2>2. ~Stands(t, a, type, opposite)
    BY <1>1, <1>3, <2>1
  <2> QED BY <1>7, <2>2
<1> QED BY <1>5, <1>6, <1>7

LEMMA OnAfter ==
    ASSUME NEW s \in Seq(Event), NEW e \in Event, NEW a,
           NEW t, t = s \o <<e>>
    PROVE  /\ e.acct # a \/ e.type \notin Switches => (On(t, a) <=> On(s, a))
           /\ e.acct = a /\ e.type = "totp_enabled" => On(t, a)
           /\ e.acct = a /\ e.type = "totp_disabled" => ~On(t, a)
BY StandsAfter DEF On, Switches

LEMMA LockedLastAfter ==
    ASSUME NEW s \in Seq(Event), NEW e \in Event, NEW a,
           NEW t, t = s \o <<e>>
    PROVE  /\ e.acct # a \/ e.type \notin Breaks => (LockedLast(t, a) <=> LockedLast(s, a))
           /\ e.acct = a /\ e.type = "account_locked" => LockedLast(t, a)
BY StandsAfter DEF LockedLast, Breaks

(***************************************************************************)
(* What an operation writes                                                *)
(***************************************************************************)
LEMMA EntryTold ==
    ASSUME events \in Seq(Event), NEW type \in EventTypes, NEW a \in Accounts,
           Log(Entry(type, a))
    PROVE  /\ \A b : b # a \/ type \notin Breaks => Counted(events', b) = Counted(events, b)
           /\ type \in Breaks => Counted(events', a) = 0
           /\ \A b : b # a \/ type \notin Breaks
                 => (LockedLast(events', b) <=> LockedLast(events, b))
           /\ \A b : b # a \/ type \notin Switches => (On(events', b) <=> On(events, b))
           /\ type = "totp_enabled" => On(events', a)
           /\ type = "totp_disabled" => ~On(events', a)
<1> DEFINE e == [type |-> type, acct |-> a, counted |-> FALSE]
<1>1. e \in Event /\ e.type = type /\ e.acct = a /\ e.counted = FALSE
  BY DEF Event
<1>2. events' = events \o <<e>>
  BY DEF Log, Entry
<1> HIDE DEF e
<1>3. \A b : b # a \/ type \notin Breaks => Counted(events', b) = Counted(events, b)
  BY <1>1, <1>2, CountedAfter
<1>4. type \in Breaks => Counted(events', a) = 0
  BY <1>1, <1>2, CountedAfter
<1>5. \A b : b # a \/ type \notin Switches => (On(events', b) <=> On(events, b))
  BY <1>1, <1>2, OnAfter
<1>6. /\ type = "totp_enabled" => On(events', a)
      /\ type = "totp_disabled" => ~On(events', a)
  BY <1>1, <1>2, OnAfter
<1>7. \A b : b # a \/ type \notin Breaks => (LockedLast(events', b) <=> LockedLast(events, b))
  BY <1>1, <1>2, LockedLastAfter
<1> QED BY <1>3, <1>4, <1>5, <1>6, <1>7

\* recordFailure: one counted entry, or the entry that ends the streak after it.
LEMMA FailureTold ==
    ASSUME events \in Seq(Event), NEW type \in {"login_failed", "totp_failed"},
           NEW a \in Accounts, NEW row, Log(FailureEntries(a, row, type))
    PROVE  /\ \A b : b # a => Counted(events', b) = Counted(events, b)
           /\ TripsLock(row) => Counted(events', a) = 0
           /\ ~TripsLock(row) => Counted(events', a) = Counted(events, a) + 1
           /\ \A b : On(events', b) <=> On(events, b)
           /\ \A b : b # a => (LockedLast(events', b) <=> LockedLast(events, b))
           /\ TripsLock(row) => LockedLast(events', a)
           /\ ~TripsLock(row) => (LockedLast(events', a) <=> LockedLast(events, a))
<1> DEFINE e == [type |-> type, acct |-> a, counted |-> TRUE]
           l == [type |-> "account_locked", acct |-> a, counted |-> FALSE]
           t == events \o <<e>>
<1>1. /\ e \in Event /\ e.type = type /\ e.acct = a /\ e.counted = TRUE
      /\ l \in Event /\ l.type = "account_locked" /\ l.acct = a
  BY DEF Event, EventTypes
<1>2. type \notin Breaks /\ type \notin Switches
      /\ "account_locked" \in Breaks /\ "account_locked" \notin Switches
  BY DEF Breaks, Switches
<1>3. TripsLock(row) => events' = events \o (<<e>> \o <<l>>)
  BY DEF Log, FailureEntries, Entry
<1>4. ~TripsLock(row) => events' = events \o (<<e>> \o << >>)
  BY DEF Log, FailureEntries
<1>5. <<e>> \in Seq(Event) /\ <<l>> \in Seq(Event)
  BY <1>1
<1>6. t \in Seq(Event)
  BY <1>1, OneMore
<1>7. events \o (<<e>> \o <<l>>) = t \o <<l>>
  <2> DEFINE one == <<e>>
             two == <<l>>
  <2>1. one \in Seq(Event) /\ two \in Seq(Event)
    BY <1>5
  <2> HIDE DEF one, two
  <2>2. events \o (one \o two) = (events \o one) \o two
    BY <2>1, ConcatAssociative
  <2> QED BY <2>2 DEF one, two
<1>8. <<e>> \o << >> = <<e>>
  BY <1>5, ConcatEmptySeq
<1> HIDE DEF e, l, t
<1>9. /\ \A b : b # a => Counted(t, b) = Counted(events, b)
      /\ Counted(t, a) = Counted(events, a) + 1
  <2>1. \A b : b # a => Counted(t, b) = Counted(events, b)
    BY <1>1, CountedAfter DEF t
  <2>2. e \in Event /\ e.acct = a /\ e.type \notin Breaks /\ e.counted = TRUE
    BY <1>1, <1>2
  <2>3. t = events \o <<e>>
    BY DEF t
  <2>4. Counted(t, a) = Counted(events, a) + 1
    BY <2>2, <2>3, CountedAfter
  <2> QED BY <2>1, <2>4
<1>10. \A b : On(t, b) <=> On(events, b)
  BY <1>1, <1>2, OnAfter DEF t
<1>13. \A b : LockedLast(t, b) <=> LockedLast(events, b)
  BY <1>1, <1>2, LockedLastAfter DEF t
<1>11. CASE TripsLock(row)
  <2>1. events' = t \o <<l>>
    BY <1>3, <1>7, <1>11
  <2>2. \A b : b # a => Counted(events', b) = Counted(t, b)
    <3> SUFFICES ASSUME NEW b, b # a PROVE Counted(events', b) = Counted(t, b)
      OBVIOUS
    <3>1. l \in Event /\ l.acct # b
      BY <1>1, <1>2
    <3> QED BY <1>6, <2>1, <3>1, CountedAfter
  <2>3. Counted(events', a) = 0
    <3>1. l \in Event /\ l.acct = a /\ l.type \in Breaks
      BY <1>1, <1>2
    <3> QED BY <1>6, <2>1, <3>1, CountedAfter
  <2>4. \A b : On(events', b) <=> On(t, b)
    BY <1>1, <1>2, <1>6, <2>1, OnAfter
  <2>5. \A b : b # a => (LockedLast(events', b) <=> LockedLast(t, b))
    BY <1>1, <1>6, <2>1, LockedLastAfter
  <2>6. LockedLast(events', a)
    BY <1>1, <1>6, <2>1, LockedLastAfter
  <2> QED BY <1>9, <1>10, <1>11, <1>13, <2>2, <2>3, <2>4, <2>5, <2>6
<1>12. CASE ~TripsLock(row)
  <2>1. events' = t
    BY <1>4, <1>8, <1>12 DEF t
  <2> QED BY <1>9, <1>10, <1>12, <1>13, <2>1
<1> QED BY <1>11, <1>12

(***************************************************************************)
(* Rows and trail move together                                            *)
(***************************************************************************)
SameTrail ==
    /\ \A a \in Accounts : Counted(events', a) = Counted(events, a)
    /\ \A a \in Accounts : On(events', a) <=> On(events, a)
    /\ \A a \in Accounts : LockedLast(events', a) <=> LockedLast(events, a)

LEMMA MaybeTold ==
    ASSUME events \in Seq(Event), NEW type \in EventTypes \ (Breaks \cup Switches),
           NEW a \in Accounts, MayLog(Entry(type, a)) \/ UNCHANGED events
    PROVE  SameTrail
<1>1. CASE Log(Entry(type, a))
  BY <1>1, EntryTold DEF SameTrail
<1>2. CASE UNCHANGED events
  BY <1>2 DEF SameTrail
<1> QED BY <1>1, <1>2 DEF MayLog

LEMMA RowTold ==
    ASSUME TypeOK, NEW a \in DOMAIN users, NEW row, UpdateUser(a, row)
    PROVE  /\ Fails(users', a) = row.failed
           /\ Switched(users', a) <=> row.enabled
           /\ \A b : b # a => Fails(users', b) = Fails(users, b)
           /\ \A b : b # a => (Switched(users', b) <=> Switched(users, b))
           /\ CarriesLock(users', a) <=> row.lockedUntil # Unset
           /\ \A b : b # a => (CarriesLock(users', b) <=> CarriesLock(users, b))
<1>1. /\ DOMAIN users' = DOMAIN users /\ users'[a] = row
      /\ \A b \in DOMAIN users : b # a => users'[b] = users[b]
  BY DEF UpdateUser, TypeOK
<1> QED BY <1>1 DEF Fails, Switched, CarriesLock

LEMMA RegisteredTold ==
    ASSUME TypeOK, NEW p, NEW a, Register(p, a)
    PROVE  /\ \A b : Fails(users', b) = Fails(users, b)
           /\ \A b : Switched(users', b) <=> Switched(users, b)
           /\ \A b : CarriesLock(users', b) <=> CarriesLock(users, b)
<1>1. /\ a \notin DOMAIN users /\ DOMAIN users' = DOMAIN users \cup {a}
      /\ users'[a] = NewUser(HashCost[p])
      /\ \A b \in DOMAIN users : users'[b] = users[b]
  BY DEF Register, Insert
<1>2. /\ NewUser(HashCost[p]).failed = 0 /\ ~NewUser(HashCost[p]).enabled
      /\ NewUser(HashCost[p]).lockedUntil = Unset
  BY DEF NewUser
<1> QED BY <1>1, <1>2 DEF Fails, Switched, CarriesLock

(***************************************************************************)
(* Steps that are not told in a transaction                                *)
(***************************************************************************)
LEMMA QuietTrail ==
    ASSUME TypeOK, events \in Seq(Event), NEW p \in Shells, BestEffort(p) \/ Unlogged(p)
    PROVE  SameTrail
<1> DEFINE quiet == EventTypes \ (Breaks \cup Switches)
<1>0. {"totp_challenged", "logout", "session_expired", "login_failed", "totp_failed"}
         \subseteq quiet
  BY DEF EventTypes, Breaks, Switches
<1> HIDE DEF quiet
<1>1. ASSUME NEW type \in quiet, NEW a \in Accounts, MayLog(Entry(type, a)) \/ UNCHANGED events
      PROVE SameTrail
  BY <1>1, MaybeTold DEF quiet
<1>2. ~Ready(p) => op[p].acct \in Accounts
  BY DEF TypeOK
<1>3. \A i \in DOMAIN sessions : sessions[i].owner \in Accounts
  BY DEF TypeOK, Session
<1>4. CASE \E id \in 1 .. MaxChallenges :
              Park(p, id) /\ MayLog(Entry("totp_challenged", op[p].acct))
  BY <1>0, <1>1, <1>2, <1>4 DEF Park, PasswordAccepted, Ready, Running
<1>5. CASE LogoutRevoke(p) /\ MayLog(Entry("logout", op[p].acct))
  BY <1>0, <1>1, <1>2, <1>5 DEF LogoutRevoke, Ready, Running
<1>6. CASE Touch(p) /\ (MayLog(Entry("session_expired", op[p].acct)) \/ UNCHANGED events)
  BY <1>0, <1>1, <1>2, <1>6 DEF Touch, Ready, Running
<1>7. CASE \E a \in Accounts : AuthenticateRefused(p, a)
  BY <1>0, <1>1, <1>7 DEF AuthenticateRefused
<1>8. CASE \E a \in Accounts, code \in Codes : EnrollmentCodeWrong(p, a, code)
  BY <1>0, <1>1, <1>8 DEF EnrollmentCodeWrong
<1>9. CASE \E i \in DOMAIN sessions : ResolveDead(p, i) \/ LogoutAgain(p, i)
  BY <1>0, <1>1, <1>3, <1>9 DEF ResolveDead, LogoutAgain
<1>10. CASE Unlogged(p)
  BY <1>10 DEF Unlogged, SameTrail
<1> QED BY <1>4, <1>5, <1>6, <1>7, <1>8, <1>9, <1>10 DEF BestEffort

\* They change no row, or write back a current copy: the lock that ran out
\* cleared, the hash upgraded, or an enrollment begun or cancelled.
LEMMA QuietRows ==
    ASSUME TypeOK, CopiesCurrent, NEW p \in Shells, BestEffort(p) \/ Unlogged(p)
    PROVE  \/ UNCHANGED users
           \/ /\ ~Ready(p)
              /\ \E row \in User :
                    /\ UpdateUser(op[p].acct, row)
                    /\ row.enabled <=> users[op[p].acct].enabled
                    /\ \/ SameLock(row, users[op[p].acct])
                       \/ Running(p, "clearLock") /\ row.failed = 0 /\ row.lockedUntil = Unset
<1> DEFINE me == op[p].acct
<1>1. /\ op[p].row \in User /\ CopyCurrent(p)
      /\ ~Ready(p) => me \in DOMAIN users /\ users[me] \in User
  BY DEF TypeOK, CopiesCurrent, Call
<1>2. CASE BestEffort(p)
  BY <1>2 DEF BestEffort, Park, LogoutRevoke, Touch, AuthenticateRefused,
              EnrollmentCodeWrong, ResolveDead, LogoutAgain, tables, vars
<1>3. CASE ClearLockSave(p)
  <2>1. ~Ready(p) /\ UpdateUser(me, op[p].row) /\ Running(p, "clearLock")
    BY <1>3 DEF ClearLockSave, Ready, Running
  <2>2. op[p].row = ClearLock(users[me])
    BY <1>1, <2>1 DEF CopyCurrent, Running
  <2>3. /\ op[p].row.failed = 0 /\ op[p].row.lockedUntil = Unset
        /\ op[p].row.enabled = users[me].enabled
    BY <1>1, <2>1, <2>2 DEF ClearLock, User
  <2> QED BY <1>1, <2>1, <2>3
<1>4. CASE Rehash(p)
  <2> DEFINE row == [op[p].row EXCEPT !.cost = HashCost[p]]
  <2>1. ~Ready(p) /\ UpdateUser(me, row) /\ op[p].row = users[me]
    BY <1>1, <1>4 DEF Rehash, Ready, Running, CopyCurrent
  <2>2. /\ row \in User
        /\ SameLock(row, users[me]) /\ row.enabled = users[me].enabled
    BY <1>1, <2>1, ServiceConstants DEF User, SameLock
  <2> QED BY <2>1, <2>2
<1>5. CASE SaveRow(p)
  <2>1. ~Ready(p) /\ UpdateUser(me, op[p].row) /\ Seen(op[p].row) = Seen(users[me])
    BY <1>1, <1>5 DEF SaveRow, Ready, Running, CopyCurrent
  <2>2. SameLock(op[p].row, users[me]) /\ op[p].row.enabled = users[me].enabled
    BY <2>1 DEF Seen, SameLock
  <2> QED BY <1>1, <2>1, <2>2
<1>6. CASE Unlogged(p) /\ ~ClearLockSave(p) /\ ~Rehash(p) /\ ~SaveRow(p)
  BY <1>6, AnswerQuiet
  DEF Unlogged, AuthenticateLoad, BeginLoad, CancelLoad, ConfirmLoad, DisableLoad,
      ResolveLoad, LogoutLoad, FailureStep, DBError, Restart, tables
<1> QED BY <1>2, <1>3, <1>4, <1>5, <1>6

(***************************************************************************)
(* Two factor                                                              *)
(***************************************************************************)
LEMMA SwitchWritten ==
    ASSUME TypeOK, CopiesCurrent, events \in Seq(Event), SwitchesTold(events, users),
           NEW p \in Shells, InTransaction(p)
    PROVE  SwitchesTold(events', users')
<1> DEFINE me == op[p].acct
<1>1. /\ op[p].row \in User /\ CopyCurrent(p)
      /\ ~Ready(p) => me \in DOMAIN users /\ me \in Accounts /\ users[me] \in User
  BY DEF TypeOK, CopiesCurrent, Call
<1>2. ASSUME \A b \in Accounts : On(events', b) <=> On(events, b),
             \A b \in Accounts : Switched(users', b) <=> Switched(users, b)
      PROVE SwitchesTold(events', users')
  BY <1>2 DEF SwitchesTold
<1>3. ASSUME NEW a \in Accounts, Register(p, a), Log(Entry("registered", a))
      PROVE SwitchesTold(events', users')
  <2>1. "registered" \in EventTypes /\ "registered" \notin Switches
    BY DEF EventTypes, Switches
  <2> QED BY <1>2, <1>3, <2>1, EntryTold, RegisteredTold
<1>4. ASSUME NEW row, UpdateUser(me, row), row.enabled <=> users[me].enabled, ~Ready(p),
             \A b \in Accounts : On(events', b) <=> On(events, b)
      PROVE SwitchesTold(events', users')
  <2>1. Switched(users', me) <=> Switched(users, me)
    BY <1>1, <1>4, RowTold DEF Switched
  <2>2. \A b : b # me => (Switched(users', b) <=> Switched(users, b))
    BY <1>1, <1>4, RowTold
  <2> QED BY <1>2, <1>4, <2>1, <2>2
<1>5. ASSUME NEW now, NEW type \in {"login_failed", "totp_failed"},
             Running(p, "verify") \/ Running(p, "codeFailed"),
             UpdateUser(me, RegisterFailure(op[p].row, now)),
             Log(FailureEntries(me, op[p].row, type))
      PROVE SwitchesTold(events', users')
  <2>1. ~Ready(p) /\ op[p].row = users[me]
    BY <1>1, <1>5 DEF CopyCurrent, Ready, Running
  <2>2. RegisterFailure(op[p].row, now).enabled = users[me].enabled
    BY <1>1, <2>1 DEF RegisterFailure, User
  <2> QED BY <1>1, <1>4, <1>5, <2>1, <2>2, FailureTold
<1>6. ASSUME Running(p, "verify") \/ Running(p, "codeLogin"),
             UpdateUser(me, ClearLock(op[p].row)), Log(Entry("login_succeeded", me))
      PROVE SwitchesTold(events', users')
  <2>1. ~Ready(p) /\ op[p].row = users[me]
    BY <1>1, <1>6 DEF CopyCurrent, Ready, Running
  <2>2. ClearLock(op[p].row).enabled = users[me].enabled
    BY <1>1, <2>1 DEF ClearLock, User
  <2>3. "login_succeeded" \in EventTypes /\ "login_succeeded" \notin Switches
    BY DEF EventTypes, Switches
  <2> QED BY <1>1, <1>4, <1>6, <2>1, <2>2, <2>3, EntryTold
<1>7. ASSUME NEW type \in Switches, NEW row, ~Ready(p), UpdateUser(me, row),
             row.enabled <=> type = "totp_enabled", Log(Entry(type, me))
      PROVE SwitchesTold(events', users')
  <2>1. type \in EventTypes
    BY DEF EventTypes, Switches
  <2>2. On(events', me) <=> Switched(users', me)
    BY <1>1, <1>7, <2>1, EntryTold, RowTold DEF Switches
  <2>3. \A b : b # me => (On(events', b) <=> On(events, b))
    BY <1>1, <1>7, <2>1, EntryTold
  <2>4. \A b : b # me => (Switched(users', b) <=> Switched(users, b))
    BY <1>1, <1>7, RowTold
  <2> QED BY <2>2, <2>3, <2>4 DEF SwitchesTold
<1>8. CASE ConfirmSave(p) /\ Log(Entry("totp_enabled", me))
  <2>1. ~Ready(p) /\ UpdateUser(me, op[p].row) /\ op[p].row.enabled
    BY <1>1, <1>8 DEF ConfirmSave, PostureSave, CopyCurrent, Ready, Running
  <2> QED BY <1>7, <1>8, <2>1 DEF Switches
<1>9. CASE DisableSave(p) /\ Log(Entry("totp_disabled", me))
  <2>1. ~Ready(p) /\ UpdateUser(me, op[p].row) /\ ~op[p].row.enabled
    BY <1>1, <1>9 DEF DisableSave, PostureSave, CopyCurrent, Ready, Running
  <2> QED BY <1>7, <1>9, <2>1 DEF Switches
<1>10. CASE PasswordFailed(p) /\ Log(FailureEntries(me, op[p].row, "login_failed"))
  BY <1>5, <1>10 DEF PasswordFailed, RecordFailure
<1>11. CASE (\E acked \in BOOLEAN : CodeFailed(p, acked))
              /\ Log(FailureEntries(me, op[p].row, "totp_failed"))
  BY <1>5, <1>11 DEF CodeFailed, RecordFailure
<1>12. CASE (PasswordLogin(p) \/ CodeLogin(p)) /\ Log(Entry("login_succeeded", me))
  BY <1>6, <1>12 DEF PasswordLogin, PasswordAccepted, CodeLogin, CompleteLogin
<1> QED BY <1>3, <1>8, <1>9, <1>10, <1>11, <1>12 DEF InTransaction

LEMMA SwitchStep ==
    ASSUME Alone
    PROVE  TypeOK /\ CopiesCurrent /\ CopiesExplained /\ SwitchesTold(events, users)
             /\ [AuditNext]_auditVars => SwitchesTold(events', users')
<1> SUFFICES ASSUME TypeOK, CopiesCurrent, CopiesExplained, SwitchesTold(events, users),
                    [AuditNext]_auditVars
             PROVE  SwitchesTold(events', users')
  OBVIOUS
<1>1. events \in Seq(Event)
  BY DEF CopiesExplained
<1>2. CASE UNCHANGED <<users, events>>
  BY <1>2
<1>3. ASSUME NEW p \in Shells, BestEffort(p) \/ Unlogged(p)
      PROVE SwitchesTold(events', users')
  <2>1. \A b \in Accounts : On(events', b) <=> On(events, b)
    BY <1>1, <1>3, QuietTrail DEF SameTrail
  <2>2. CASE UNCHANGED users
    BY <2>1, <2>2 DEF SwitchesTold
  <2>3. ASSUME ~Ready(p), NEW row, UpdateUser(op[p].acct, row),
               row.enabled <=> users[op[p].acct].enabled
        PROVE SwitchesTold(events', users')
    <3>1. op[p].acct \in DOMAIN users
      BY <2>3 DEF TypeOK
    <3>2. \A b : Switched(users', b) <=> Switched(users, b)
      BY <2>3, <3>1, RowTold DEF Switched
    <3> QED BY <2>1, <3>2 DEF SwitchesTold
  <2> QED BY <1>3, <2>2, <2>3, QuietRows
<1>4. CASE Tick /\ UNCHANGED events
  BY <1>2, <1>4 DEF Tick, tables
<1>5. CASE UNCHANGED auditVars
  BY <1>2, <1>5 DEF auditVars, vars
<1> QED BY <1>1, <1>3, <1>4, <1>5, SwitchWritten DEF AuditNext

LEMMA NothingTold ==
    ASSUME AuditInit
    PROVE  CountersTold(events, users) /\ SwitchesTold(events, users)
<1>1. events = <<>> /\ DOMAIN users = {}
  BY DEF AuditInit, Init, EmptyTable
<1>2. 1 .. Len(<<>>) = {}
  OBVIOUS
<1>3. \A a : Streak(events, a) = {} /\ ~On(events, a)
  BY <1>1, <1>2 DEF Streak, On, Stands
<1>4. \A a : /\ Counted(events, a) = 0 /\ Fails(users, a) = 0
             /\ ~Switched(users, a) /\ ~CarriesLock(users, a)
  BY <1>1, <1>3, FS_EmptySet DEF Counted, Fails, Switched, CarriesLock
<1> QED BY <1>3, <1>4 DEF CountersTold, SwitchesTold, Told

\* What the trail's proofs need of every reachable state with one shell.
LEMMA AuditBasics ==
    ASSUME Alone
    PROVE  AuditSpec => [](TypeOK /\ CopiesCurrent /\ CopiesExplained)
<1>1. AuditInit => CopiesExplained
  BY DEF AuditInit, Init, EmptyTable, CopiesExplained, Explained, Idle, NewUser
<1>2. AuditSpec => []TypeOK /\ []CopiesCurrent
  BY AuditImplementsService, TypeCorrect, CopiesAreCurrent, PTL
<1> QED BY <1>1, <1>2, ExplainedStep, PTL DEF AuditSpec

\* With one shell at a time the posture an account shows and the audit trail
\* never disagree: two factor is on exactly when the last entry about it says
\* so, whichever calls failed, were killed or took long.
THEOREM PostureIsTold == ASSUME Alone PROVE AuditSpec => []PostureMatchesTrail
<1>1. TypeOK /\ SwitchesTold(events, users) => PostureMatchesTrail
  <2> SUFFICES ASSUME TypeOK, SwitchesTold(events, users), NEW a \in DOMAIN users
               PROVE  users[a].enabled <=>
                         \E n \in Places(a, {"totp_enabled"}) :
                            \A m \in Places(a, {"totp_disabled"}) : m < n
    BY DEF PostureMatchesTrail
  <2>1. a \in Accounts
    BY DEF TypeOK
  <2>2. On(events, a) <=> \E n \in Places(a, {"totp_enabled"}) :
                             \A m \in Places(a, {"totp_disabled"}) : m < n
    BY DEF On, Stands, Said, Places
  <2> QED BY <2>1, <2>2 DEF SwitchesTold, Switched
<1>2. TypeOK /\ CopiesCurrent /\ CopiesExplained /\ SwitchesTold(events, users)
        /\ [AuditNext]_auditVars => SwitchesTold(events, users)'
  BY SwitchStep
<1>3. AuditInit => SwitchesTold(events, users)
  BY NothingTold
<1>4. AuditSpec => [](TypeOK /\ CopiesCurrent /\ CopiesExplained)
  BY AuditBasics
<1> QED BY <1>1, <1>2, <1>3, <1>4, PTL DEF AuditSpec

(***************************************************************************)
(* Locks and parked logins. A parked login is dead when the lock that came *)
(* up during it runs out. So one that is found alive while the row carries *)
(* the lock is found before the lock runs out, when the counter is 0: if   *)
(* it is judged later, one failure is counted on the old lock, and no      *)
(* second one can be.                                                      *)
(***************************************************************************)
RowFits(a, row, parked) ==
    row.lockedUntil # Unset =>
        /\ row.failed <= 1
        /\ \A c \in parked : c.acct = a => c.expires <= row.lockedUntil

CallFits(call, row, parked) ==
    /\ call.pc = "clearLock" => row.lockedUntil # Unset
    /\ call.pc = "verify" => row.lockedUntil = Unset
    /\ call.pc \in {"loadUser", "checkCode", "codeFailed"} =>
          (row.lockedUntil # Unset => row.failed = 0)
    /\ call.pc \in {"clearLock", "verify", "codeFailed"} =>
          \A c \in parked : c.expires <= call.at + ChallengeTTL

LocksFit ==
    \A p \in Shells :
        /\ \A a \in DOMAIN users : RowFits(a, users[a], challenges[p])
        /\ CallFits(op[p], users[op[p].acct], challenges[p])

LEMMA QuietCallFits ==
    ASSUME NEW call, NEW row, NEW parked,
           call.pc \in {"idle", "codeLogin", "save", "confirm", "disable", "touch", "revoke"}
    PROVE  CallFits(call, row, parked)
BY DEF CallFits

LEMMA RowsStillFit ==
    ASSUME NEW p, \A a \in DOMAIN users : RowFits(a, users[a], challenges[p]),
           UNCHANGED users, challenges'[p] \subseteq challenges[p]
    PROVE  \A a \in DOMAIN users' : RowFits(a, users'[a], challenges'[p])
BY DEF RowFits

LEMMA WrittenRowFits ==
    ASSUME TypeOK, NEW p, \A a \in DOMAIN users : RowFits(a, users[a], challenges[p]),
           challenges'[p] \subseteq challenges[p],
           NEW b \in DOMAIN users, NEW row, UpdateUser(b, row), RowFits(b, row, challenges'[p])
    PROVE  \A a \in DOMAIN users' : RowFits(a, users'[a], challenges'[p])
<1>1. /\ DOMAIN users' = DOMAIN users /\ users'[b] = row
      /\ \A a \in DOMAIN users : a # b => users'[a] = users[a]
  BY DEF UpdateUser, TypeOK
<1> QED BY <1>1 DEF RowFits

LEMMA RegisteredFits ==
    ASSUME TypeOK, NEW p, NEW b, NEW q, Register(q, b),
           \A a \in DOMAIN users : RowFits(a, users[a], challenges[p])
    PROVE  \A a \in DOMAIN users' : RowFits(a, users'[a], challenges'[p])
<1>1. /\ DOMAIN users' = DOMAIN users \cup {b} /\ b \notin DOMAIN users
      /\ users'[b] = NewUser(HashCost[q]) /\ challenges' = challenges
      /\ \A a \in DOMAIN users : users'[a] = users[a]
  BY DEF Register, Insert
<1>2. NewUser(HashCost[q]).lockedUntil = Unset
  BY DEF NewUser
<1> QED BY <1>1, <1>2 DEF RowFits

\* The steps that load a row.
LEMMA LoadedCallFits ==
    ASSUME TypeOK, LocksFit, DeadlinesBounded, NEW p \in Shells,
           NEW a, NEW good, AuthenticateLoad(p, a, good)
    PROVE  /\ UNCHANGED users /\ challenges'[p] \subseteq challenges[p]
           /\ CallFits(op'[p], users'[op'[p].acct], challenges'[p])
<1>1. /\ op \in [Shells -> Call] /\ clock \in Nat
      /\ \A b \in DOMAIN users : users[b] \in User /\ users[b].lockedUntil \in Nat
      /\ \A d \in challenges[p] : d.expires <= clock + ChallengeTTL
  BY DEF TypeOK, User, DeadlinesBounded
<1> DEFINE call == [Idle EXCEPT !.pc = IF LockRanOut(users[a], clock)
                                       THEN "clearLock" ELSE "verify",
                                !.acct = a,
                                !.row = ClearExpiredLock(users[a], clock),
                                !.at = clock,
                                !.good = good]
<1>2. /\ op'[p] = call /\ UNCHANGED <<users, challenges>>
      /\ a \in DOMAIN users /\ ~IsLocked(users[a], clock)
  BY <1>1 DEF AuthenticateLoad, tables
<1>3. /\ call.acct = a /\ call.at = clock
      /\ call.pc = IF LockRanOut(users[a], clock) THEN "clearLock" ELSE "verify"
  BY DEF Idle
<1> HIDE DEF call
<1>4. LockRanOut(users[a], clock) <=> users[a].lockedUntil # Unset
  BY <1>1, <1>2 DEF LockRanOut, IsLocked
<1>5. CallFits(call, users[a], challenges[p])
  BY <1>1, <1>3, <1>4 DEF CallFits
<1> QED BY <1>2, <1>3, <1>5

\* A parked login that is found alive, and the verdict on its code.
LEMMA AnsweredCallFits ==
    ASSUME TypeOK, DeadlinesBounded, LockRestartsCounter, LocksFit, NEW p \in Shells,
           AnswerStep(p)
    PROVE  /\ UNCHANGED users /\ challenges'[p] \subseteq challenges[p]
           /\ CallFits(op'[p], users'[op'[p].acct], challenges'[p])
<1>1. /\ op \in [Shells -> Call] /\ op[p] \in Call
      /\ challenges \in [Shells -> SUBSET Challenge]
      /\ clock \in Nat
      /\ \A b \in DOMAIN users : users[b] \in User /\ users[b].lockedUntil \in Nat
      /\ \A d \in challenges[p] : d.acct \in DOMAIN users /\ d.expires \in Nat
      /\ \A d \in challenges[p] : d.expires <= clock + ChallengeTTL
  BY DEF TypeOK, User, Challenge, DeadlinesBounded
<1>2. UNCHANGED users
  BY AnswerQuiet
<1>3. CallFits(op[p], users[op[p].acct], challenges[p])
  BY DEF LocksFit
<1>4. ASSUME NEW c \in challenges[p], FindChallenge(p, c)
      PROVE  /\ challenges'[p] \subseteq challenges[p]
             /\ CallFits(op'[p], users[op'[p].acct], challenges'[p])
  <2>1. /\ c.expires > clock /\ challenges' = challenges
        /\ op'[p].pc = "loadUser" /\ op'[p].acct = c.acct
    BY <1>1, <1>4 DEF FindChallenge, Unexpired, Proceed, Idle
  <2>2. users[c.acct].lockedUntil # Unset => c.expires <= users[c.acct].lockedUntil
    BY <1>1 DEF LocksFit, RowFits
  <2>3. users[c.acct].lockedUntil # Unset => IsLocked(users[c.acct], clock)
    BY <1>1, <2>1, <2>2 DEF IsLocked
  <2>4. users[c.acct].lockedUntil # Unset => users[c.acct].failed = 0
    BY <1>1, <2>3 DEF LockRestartsCounter
  <2> QED BY <2>1, <2>4 DEF CallFits
<1>5. ASSUME LoadUser(p)
      PROVE  /\ challenges'[p] \subseteq challenges[p]
             /\ CallFits(op'[p], users[op'[p].acct], challenges'[p])
  <2>1. /\ challenges' = challenges /\ op[p].pc = "loadUser"
        /\ op'[p].pc = "checkCode" /\ op'[p].acct = op[p].acct
    BY <1>1, <1>5 DEF LoadUser, Running, Proceed, Idle
  <2> QED BY <1>3, <2>1 DEF CallFits
<1>6. ASSUME NEW code, CodeWrong(p, code) \/ CodeRight(p, code)
      PROVE  /\ challenges'[p] \subseteq challenges[p]
             /\ CallFits(op'[p], users[op'[p].acct], challenges'[p])
  <2>1. /\ op[p].pc = "checkCode" /\ challenges'[p] \subseteq challenges[p]
        /\ \E pc \in {"codeFailed", "codeLogin"} : Decide(p, pc)
    BY <1>1, <1>6 DEF CodeWrong, CodeRight, Passes, Running, SaveChallenge, DeleteChallenge
  <2>2. /\ op'[p].pc \in {"codeFailed", "codeLogin"} /\ op'[p].at = clock
        /\ op'[p].acct = op[p].acct
    BY <1>1, <2>1 DEF Decide, Call
  <2> QED BY <1>1, <1>3, <2>1, <2>2 DEF CallFits
<1>7. ASSUME Discards(p)
      PROVE  /\ challenges'[p] \subseteq challenges[p]
             /\ CallFits(op'[p], users[op'[p].acct], challenges'[p])
  <2>1. op'[p].pc = "idle"
    BY <1>1, <1>7 DEF Discards, Return, Ready, Running, Idle
  <2>2. challenges'[p] \subseteq challenges[p]
    BY <1>1, <1>7 DEF Discards, DeleteChallenge
  <2> QED BY <2>1, <2>2, QuietCallFits
<1> QED BY <1>2, <1>4, <1>5, <1>6, <1>7, AnswerCases

\* The two transactions that end a login.
LEMMA FailureFits ==
    ASSUME TypeOK, CopiesCurrent, LocksFit, ChallengeTTL <= LockDuration,
           NEW p \in Shells, Running(p, "verify") \/ Running(p, "codeFailed"),
           NEW now \in Elapsed(p), challenges'[p] \subseteq challenges[p]
    PROVE  RowFits(op[p].acct, RegisterFailure(op[p].row, now), challenges'[p])
<1> DEFINE row == op[p].row
           until == now + LockDuration
<1>1. /\ op[p].acct \in DOMAIN users /\ row \in User /\ op[p].at \in Nat
      /\ row = users[op[p].acct]
      /\ \A c \in challenges[p] : c.expires \in Nat
  BY DEF TypeOK, Call, CopiesCurrent, CopyCurrent, Ready, Running, Challenge
<1>2. /\ row.lockedUntil # Unset => row.failed = 0
      /\ \A c \in challenges[p] : c.expires <= op[p].at + ChallengeTTL
  BY <1>1 DEF LocksFit, CallFits, Running
<1>3. now \in Nat /\ op[p].at <= now
  BY <1>1 DEF Elapsed, TypeOK
<1>4. \A c \in challenges[p] : c.expires <= until
  BY <1>1, <1>2, <1>3, ConfigValid
<1>5. CASE TripsLock(row)
  <2>1. /\ RegisterFailure(row, now).failed = 0
        /\ RegisterFailure(row, now).lockedUntil = until
    BY <1>1, <1>5 DEF RegisterFailure, User
  <2> QED BY <1>4, <2>1 DEF RowFits
<1>6. CASE ~TripsLock(row)
  <2>1. /\ RegisterFailure(row, now).lockedUntil = row.lockedUntil
        /\ RegisterFailure(row, now).failed = row.failed + 1
    BY <1>1, <1>6 DEF RegisterFailure, User
  <2>2. RowFits(op[p].acct, row, challenges[p])
    BY <1>1 DEF LocksFit
  <2> QED BY <1>2, <2>1, <2>2 DEF RowFits
<1> QED BY <1>5, <1>6

LEMMA ClearedFits == ASSUME NEW a, NEW row \in User, NEW parked PROVE RowFits(a, ClearLock(row), parked)
BY DEF RowFits, ClearLock, User

\* A copy written back with the lock fields of the row fits as the row did.
LEMMA SameLockFits ==
    ASSUME NEW a, NEW row, NEW user, NEW parked, RowFits(a, user, parked),
           row.failed = user.failed, row.lockedUntil = user.lockedUntil
    PROVE  RowFits(a, row, parked)
BY DEF RowFits

LEMMA LocksStep ==
    ASSUME Alone, ChallengeTTL <= LockDuration
    PROVE  TypeOK /\ CopiesCurrent /\ DeadlinesBounded /\ LockRestartsCounter /\ LocksFit
             /\ [Next]_vars => LocksFit'
<1> SUFFICES ASSUME TypeOK, CopiesCurrent, DeadlinesBounded, LockRestartsCounter, LocksFit,
                    [Next]_vars
             PROVE  LocksFit'
  OBVIOUS
<1>1. CASE UNCHANGED <<users, challenges, op>>
  BY <1>1 DEF LocksFit
<1>2. CASE Tick \/ UNCHANGED vars
  BY <1>1, <1>2 DEF Tick, tables, vars
<1>3. ASSUME NEW p \in Shells,
             LoginStep(p) \/ ChallengeStep(p) \/ EnrollmentStep(p) \/ SessionStep(p)
               \/ FailureStep(p)
      PROVE LocksFit'
  <2> DEFINE me == op[p].acct
             Rows == \A a \in DOMAIN users : RowFits(a, users[a], challenges[p])
             RowsNext == \A a \in DOMAIN users' : RowFits(a, users'[a], challenges'[p])
             CallNext == CallFits(op'[p], users'[op'[p].acct], challenges'[p])
  <2>1. Shells = {p}
    BY OnlyShell
  <2> SUFFICES RowsNext /\ CallNext
    BY <2>1 DEF LocksFit
  <2>2. /\ op \in [Shells -> Call] /\ op[p] \in Call /\ op[p].row \in User
        /\ challenges \in [Shells -> SUBSET Challenge]
        /\ ~Ready(p) => me \in DOMAIN users /\ users[me] \in User
        /\ CopyCurrent(p)
    BY DEF TypeOK, CopiesCurrent, Call
  <2>3. Rows /\ CallFits(op[p], users[me], challenges[p])
    BY DEF LocksFit
  <2>4. ASSUME op'[p].pc \in {"idle", "codeLogin", "save", "confirm", "disable", "touch", "revoke"}
        PROVE CallNext
    BY <2>4, QuietCallFits
  <2>5. ASSUME Return(p) PROVE CallNext
    <3>1. op'[p].pc = "idle"
      BY <2>2, <2>5 DEF Return, Idle
    <3> QED BY <2>4, <3>1
  <2>6. ASSUME Ready(p), op' = op PROVE CallNext
    BY <2>4, <2>6 DEF Ready, Running
  <2>7. ASSUME UNCHANGED users, challenges'[p] \subseteq challenges[p] PROVE RowsNext
    BY <2>3, <2>7, RowsStillFit
  <2>8. ASSUME NEW row, ~Ready(p), UpdateUser(me, row), RowFits(me, row, challenges'[p]),
               challenges'[p] \subseteq challenges[p]
        PROVE RowsNext
    BY <2>2, <2>3, <2>8, WrittenRowFits
  <2> HIDE DEF RowsNext, CallNext, Rows
  <2>10. ASSUME NEW a, Register(p, a) PROVE RowsNext /\ CallNext
    <3>1. RowsNext
      BY <2>3, <2>10, RegisteredFits DEF Rows, RowsNext
    <3> QED BY <2>6, <2>10, <3>1 DEF Register
  <2>11. ASSUME NEW a, NEW good, AuthenticateLoad(p, a, good) PROVE RowsNext /\ CallNext
    BY <2>7, <2>11, LoadedCallFits DEF CallNext
  <2>12. CASE ClearLockSave(p)
    <3>1. /\ ~Ready(p) /\ UpdateUser(me, op[p].row) /\ UNCHANGED challenges
          /\ op[p].row = ClearLock(users[me]) /\ op[p].pc = "clearLock"
          /\ op' = [op EXCEPT ![p].pc = "verify"]
      BY <2>2, <2>12 DEF ClearLockSave, Ready, Running, CopyCurrent
    <3>2. RowsNext
      BY <2>2, <2>8, <3>1, ClearedFits
    <3>3. op'[p].pc = "verify" /\ op'[p].acct = me /\ op'[p].at = op[p].at
      BY <2>2, <3>1 DEF Call
    <3>4. users'[me] = ClearLock(users[me])
      BY <2>2, <3>1 DEF UpdateUser, TypeOK
    <3>5. users'[me].lockedUntil = Unset
      BY <2>2, <3>1, <3>4 DEF ClearLock, User
    <3>6. \A c \in challenges[p] : c.expires <= op[p].at + ChallengeTTL
      BY <2>3, <3>1 DEF CallFits
    <3>7. CallNext
      BY <3>1, <3>3, <3>5, <3>6 DEF CallFits, CallNext
    <3> QED BY <3>2, <3>7
  <2>13. CASE Rehash(p)
    <3> DEFINE row == [op[p].row EXCEPT !.cost = HashCost[p]]
    <3>1. /\ ~Ready(p) /\ UpdateUser(me, row) /\ UNCHANGED challenges
          /\ op[p].row = users[me] /\ op[p].pc = "verify"
          /\ op' = [op EXCEPT ![p].row = row]
      BY <2>2, <2>13 DEF Rehash, Ready, Running, CopyCurrent
    <3>2. row.failed = users[me].failed /\ row.lockedUntil = users[me].lockedUntil
      BY <2>2, <3>1 DEF User
    <3> HIDE DEF row
    <3>3. RowFits(me, users[me], challenges[p])
      BY <2>2, <2>3, <3>1 DEF Rows
    <3>4. RowsNext
      BY <2>8, <3>1, <3>2, <3>3, SameLockFits
    <3>5. op'[p].pc = "verify" /\ op'[p].acct = me /\ op'[p].at = op[p].at
      BY <2>2, <3>1 DEF Call
    <3>6. users'[me] = row
      BY <2>2, <3>1 DEF UpdateUser, TypeOK
    <3>7. users[me].lockedUntil = Unset /\ \A c \in challenges[p] : c.expires <= op[p].at + ChallengeTTL
      BY <2>3, <3>1 DEF CallFits
    <3>8. CallNext
      BY <3>1, <3>2, <3>5, <3>6, <3>7 DEF CallFits, CallNext
    <3> QED BY <3>4, <3>8
  <2>14. ASSUME NEW now \in Elapsed(p), Running(p, "verify") \/ Running(p, "codeFailed"),
                RecordFailure(me, op[p].row, now), Return(p),
                challenges'[p] \subseteq challenges[p]
         PROVE RowsNext /\ CallNext
    <3>1. RowFits(me, RegisterFailure(op[p].row, now), challenges'[p])
      BY <2>14, FailureFits
    <3>2. ~Ready(p) /\ UpdateUser(me, RegisterFailure(op[p].row, now))
      BY <2>14 DEF RecordFailure, Ready, Running
    <3> QED BY <2>5, <2>8, <2>14, <3>1, <3>2
  <2>15. ASSUME NEW now, ~Ready(p), CompleteLogin(me, op[p].row, now), Return(p),
                UNCHANGED challenges
         PROVE RowsNext /\ CallNext
    BY <2>2, <2>5, <2>8, <2>15, ClearedFits DEF CompleteLogin
  <2>16. ASSUME NEW id, Park(p, id) PROVE RowsNext /\ CallNext
    <3> DEFINE new == [id |-> id, acct |-> me, expires |-> op[p].at + ChallengeTTL]
    <3>1. /\ UNCHANGED users /\ Return(p)
          /\ challenges'[p] \subseteq challenges[p] \cup {new}
      BY <2>2, <2>16 DEF Park, SaveChallenge, tables
    <3>2. users[me].lockedUntil = Unset /\ new.acct = me
      BY <2>3, <2>16 DEF Park, PasswordAccepted, Running, CallFits
    <3> HIDE DEF new
    <3>3. RowsNext
      BY <2>3, <3>1, <3>2 DEF Rows, RowsNext, RowFits
    <3> QED BY <2>5, <3>1, <3>3
  <2>17. CASE AnswerStep(p)
    BY <2>7, <2>17, AnsweredCallFits DEF CallNext
  <2>18. CASE PasswordFailed(p) \/ \E acked \in BOOLEAN : CodeFailed(p, acked)
    <3>1. challenges'[p] \subseteq challenges[p]
      BY <2>2, <2>18 DEF PasswordFailed, CodeFailed, DeleteChallenge
    <3> QED BY <2>14, <2>18, <3>1 DEF PasswordFailed, CodeFailed
  <2>19. CASE PasswordLogin(p) \/ CodeLogin(p)
    BY <2>15, <2>19 DEF PasswordLogin, PasswordAccepted, CodeLogin, Ready, Running
  <2>20. ASSUME NEW a, NEW pc \in {"save", "confirm", "disable"}, NEW row, NEW ref,
                Proceed(p, pc, a, row, ref), UNCHANGED <<tables, challenges>>
         PROVE RowsNext /\ CallNext
    <3>1. op'[p].pc = pc
      BY <2>2, <2>20 DEF Proceed, Idle
    <3> QED BY <2>4, <2>7, <2>20, <3>1 DEF tables
  <2>21. ASSUME NEW a, NEW code, NEW keep,
                BeginLoad(p, a) \/ CancelLoad(p, a)
                  \/ ConfirmLoad(p, a, code, keep) \/ DisableLoad(p, a, code, keep)
         PROVE RowsNext /\ CallNext
    BY <2>20, <2>21 DEF BeginLoad, CancelLoad, ConfirmLoad, DisableLoad
  <2>22. CASE SaveRow(p) \/ ConfirmSave(p) \/ DisableSave(p)
    <3>1. /\ ~Ready(p) /\ UpdateUser(me, op[p].row) /\ Return(p) /\ UNCHANGED challenges
      BY <2>22 DEF SaveRow, ConfirmSave, DisableSave, PostureSave, Ready, Running
    <3>2. op[p].row.failed = users[me].failed /\ op[p].row.lockedUntil = users[me].lockedUntil
      BY <2>2, <2>22 DEF SaveRow, ConfirmSave, DisableSave, Running, CopyCurrent, Seen, SameLock
    <3>3. RowFits(me, users[me], challenges[p])
      BY <2>2, <2>3, <3>1 DEF Rows
    <3> QED BY <2>5, <2>8, <3>1, <3>2, <3>3, SameLockFits
  <2>23. ASSUME NEW i, ResolveLoad(p, i) \/ LogoutLoad(p, i) PROVE RowsNext /\ CallNext
    <3>1. op'[p].pc \in {"touch", "revoke"}
      BY <2>2, <2>23 DEF ResolveLoad, LogoutLoad, Idle
    <3> QED BY <2>4, <2>7, <2>23, <3>1 DEF ResolveLoad, LogoutLoad, tables
  <2>24. CASE Touch(p) \/ LogoutRevoke(p) \/ FailureStep(p)
    <3>1. UNCHANGED users /\ Return(p) /\ challenges'[p] \subseteq challenges[p]
      BY <2>2, <2>24 DEF Touch, LogoutRevoke, FailureStep, DBError, Restart, Return, tables
    <3> QED BY <2>5, <2>7, <3>1
  <2>25. CASE LoginStep(p)
    BY <2>10, <2>11, <2>12, <2>13, <2>16, <2>18, <2>19, <2>25 DEF LoginStep
  <2>26. CASE ChallengeStep(p)
    BY <2>17, <2>18, <2>19, <2>26 DEF ChallengeStep
  <2>27. CASE EnrollmentStep(p)
    BY <2>21, <2>22, <2>27 DEF EnrollmentStep
  <2>28. CASE SessionStep(p)
    BY <2>23, <2>24, <2>28 DEF SessionStep
  <2> QED BY <1>3, <2>24, <2>25, <2>26, <2>27, <2>28
<1> QED BY <1>2, <1>3 DEF Next

\* With one shell, and parked logins that do not outlive a lock, at most one
\* failure is counted on a row that still carries a lock.
LEMMA LocksAlwaysFit == ASSUME Alone, ChallengeTTL <= LockDuration PROVE Spec => []LocksFit
<1>1. Init => LocksFit
  <2>1. Init => DOMAIN users = {} /\ \A p \in Shells : op[p].pc = "idle"
    BY DEF Init, EmptyTable, Idle
  <2> QED BY <2>1 DEF LocksFit, CallFits
<1>2. TypeOK /\ CopiesCurrent /\ DeadlinesBounded /\ LockRestartsCounter /\ LocksFit
        /\ [Next]_vars => LocksFit'
  BY LocksStep
<1>3. Spec => []CopiesCurrent
  BY CopiesAreCurrent
<1> QED BY <1>1, <1>2, <1>3, TypeCorrect, DeadlinesHold, LockStartsOver, PTL DEF Spec

(***************************************************************************)
(* The failure counter                                                     *)
(***************************************************************************)
LEMMA CounterWritten ==
    ASSUME TypeOK, CopiesCurrent, events \in Seq(Event), LocksFit,
           CountersTold(events, users), NEW p \in Shells, InTransaction(p)
    PROVE  CountersTold(events', users')
<1> DEFINE me == op[p].acct
           n == Counted(events, me)
           locked == LockedLast(events, me)
<1>1. /\ op[p].row \in User /\ CopyCurrent(p)
      /\ ~Ready(p) => me \in DOMAIN users /\ me \in Accounts /\ users[me] \in User
  BY DEF TypeOK, CopiesCurrent, Call
<1>2. ~Ready(p) => Told(n, locked, users[me].failed, users[me].lockedUntil # Unset)
  BY <1>1 DEF CountersTold, Fails, CarriesLock
<1> HIDE DEF n, locked
<1>3. ASSUME NEW row, ~Ready(p), UpdateUser(me, row),
             Told(Counted(events', me), LockedLast(events', me), row.failed,
                  row.lockedUntil # Unset),
             \A b : b # me => Counted(events', b) = Counted(events, b),
             \A b : b # me => (LockedLast(events', b) <=> LockedLast(events, b))
      PROVE CountersTold(events', users')
  <2>1. /\ Fails(users', me) = row.failed
        /\ CarriesLock(users', me) <=> row.lockedUntil # Unset
    BY <1>1, <1>3, RowTold
  <2>2. /\ \A b : b # me => Fails(users', b) = Fails(users, b)
        /\ \A b : b # me => (CarriesLock(users', b) <=> CarriesLock(users, b))
    BY <1>1, <1>3, RowTold
  <2> QED BY <1>3, <2>1, <2>2 DEF CountersTold, Told
<1>4. ASSUME NEW a \in Accounts, Register(p, a), Log(Entry("registered", a))
      PROVE CountersTold(events', users')
  <2>1. "registered" \in EventTypes /\ "registered" \notin Breaks
    BY DEF EventTypes, Breaks
  <2>2. /\ \A b : Counted(events', b) = Counted(events, b)
        /\ \A b : LockedLast(events', b) <=> LockedLast(events, b)
    BY <1>4, <2>1, EntryTold
  <2>3. /\ \A b : Fails(users', b) = Fails(users, b)
        /\ \A b : CarriesLock(users', b) <=> CarriesLock(users, b)
    BY <1>4, RegisteredTold
  <2> QED BY <2>2, <2>3 DEF CountersTold, Told
<1>5. ASSUME NEW now, NEW type \in {"login_failed", "totp_failed"},
             Running(p, "verify") \/ Running(p, "codeFailed"),
             UpdateUser(me, RegisterFailure(op[p].row, now)),
             Log(FailureEntries(me, op[p].row, type))
      PROVE CountersTold(events', users')
  <2> DEFINE row == RegisterFailure(op[p].row, now)
  <2>1. ~Ready(p) /\ op[p].row = users[me]
    BY <1>1, <1>5 DEF CopyCurrent, Ready, Running
  <2>2. TripsLock(op[p].row) => row.failed = 0
    BY <1>1 DEF RegisterFailure, User
  <2>3. ~TripsLock(op[p].row) => /\ row.failed = users[me].failed + 1
                                 /\ row.lockedUntil = users[me].lockedUntil
    BY <1>1, <2>1 DEF RegisterFailure, User
  <2>4. /\ \A b : b # me => Counted(events', b) = Counted(events, b)
        /\ TripsLock(op[p].row) => Counted(events', me) = 0
        /\ ~TripsLock(op[p].row) => Counted(events', me) = n + 1
    BY <1>1, <1>5, <2>1, FailureTold DEF n
  <2>5. /\ \A b : b # me => (LockedLast(events', b) <=> LockedLast(events, b))
        /\ TripsLock(op[p].row) => LockedLast(events', me)
        /\ ~TripsLock(op[p].row) => (LockedLast(events', me) <=> locked)
    BY <1>1, <1>5, <2>1, FailureTold DEF locked
  <2>6. users[me].failed \in Nat
    BY <1>1, <2>1 DEF User
  <2> HIDE DEF row
  <2>7. Told(Counted(events', me), LockedLast(events', me), row.failed,
             row.lockedUntil # Unset)
    <3>1. CASE TripsLock(op[p].row)
      BY <2>2, <2>4, <2>5, <3>1 DEF Told
    <3>2. CASE ~TripsLock(op[p].row)
      BY <1>2, <2>1, <2>3, <2>4, <2>5, <2>6, <3>2 DEF Told
    <3> QED BY <3>1, <3>2
  <2> QED BY <1>3, <1>5, <2>1, <2>4, <2>5, <2>7 DEF row
<1>6. ASSUME Running(p, "verify") \/ Running(p, "codeLogin"),
             UpdateUser(me, ClearLock(op[p].row)), Log(Entry("login_succeeded", me))
      PROVE CountersTold(events', users')
  <2>1. ~Ready(p)
    BY <1>6 DEF Ready, Running
  <2>2. ClearLock(op[p].row).failed = 0 /\ ClearLock(op[p].row).lockedUntil = Unset
    BY <1>1 DEF ClearLock, User
  <2>3. "login_succeeded" \in EventTypes /\ "login_succeeded" \in Breaks
    BY DEF EventTypes, Breaks
  <2>4. /\ Counted(events', me) = 0
        /\ \A b : b # me => Counted(events', b) = Counted(events, b)
        /\ \A b : b # me => (LockedLast(events', b) <=> LockedLast(events, b))
    BY <1>1, <1>6, <2>1, <2>3, EntryTold
  <2>5. Told(Counted(events', me), LockedLast(events', me), ClearLock(op[p].row).failed,
             ClearLock(op[p].row).lockedUntil # Unset)
    BY <2>2, <2>4 DEF Told
  <2> QED BY <1>3, <1>6, <2>1, <2>4, <2>5
<1>7. ASSUME NEW type \in Switches, Log(Entry(type, me)), ~Ready(p),
             UpdateUser(me, op[p].row), SameLock(op[p].row, users[me])
      PROVE CountersTold(events', users')
  <2>1. type \in EventTypes /\ type \notin Breaks
    BY DEF EventTypes, Breaks, Switches
  <2>2. /\ \A b : Counted(events', b) = Counted(events, b)
        /\ \A b : LockedLast(events', b) <=> LockedLast(events, b)
    BY <1>1, <1>7, <2>1, EntryTold
  <2>3. Told(Counted(events', me), LockedLast(events', me), op[p].row.failed,
             op[p].row.lockedUntil # Unset)
    BY <1>2, <1>7, <2>2 DEF SameLock, Told, n, locked
  <2> QED BY <1>3, <1>7, <2>2, <2>3
<1>8. CASE ConfirmSave(p) /\ Log(Entry("totp_enabled", me))
  <2>1. ~Ready(p) /\ UpdateUser(me, op[p].row) /\ SameLock(op[p].row, users[me])
    BY <1>1, <1>8 DEF ConfirmSave, PostureSave, CopyCurrent, Ready, Running
  <2> QED BY <1>7, <1>8, <2>1 DEF Switches
<1>9. CASE DisableSave(p) /\ Log(Entry("totp_disabled", me))
  <2>1. ~Ready(p) /\ UpdateUser(me, op[p].row) /\ SameLock(op[p].row, users[me])
    BY <1>1, <1>9 DEF DisableSave, PostureSave, CopyCurrent, Ready, Running
  <2> QED BY <1>7, <1>9, <2>1 DEF Switches
<1>10. CASE PasswordFailed(p) /\ Log(FailureEntries(me, op[p].row, "login_failed"))
  BY <1>5, <1>10 DEF PasswordFailed, RecordFailure
<1>11. CASE (\E acked \in BOOLEAN : CodeFailed(p, acked))
              /\ Log(FailureEntries(me, op[p].row, "totp_failed"))
  BY <1>5, <1>11 DEF CodeFailed, RecordFailure
<1>12. CASE (PasswordLogin(p) \/ CodeLogin(p)) /\ Log(Entry("login_succeeded", me))
  BY <1>6, <1>12 DEF PasswordLogin, PasswordAccepted, CodeLogin, CompleteLogin
<1> QED BY <1>4, <1>8, <1>9, <1>10, <1>11, <1>12 DEF InTransaction

LEMMA CounterTold ==
    ASSUME Alone
    PROVE  TypeOK /\ CopiesCurrent /\ CopiesExplained /\ LocksFit
             /\ CountersTold(events, users) /\ [AuditNext]_auditVars
                => CountersTold(events', users')
<1> SUFFICES ASSUME TypeOK, CopiesCurrent, CopiesExplained, LocksFit,
                    CountersTold(events, users), [AuditNext]_auditVars
             PROVE  CountersTold(events', users')
  OBVIOUS
<1>1. events \in Seq(Event)
  BY DEF CopiesExplained
<1>2. CASE UNCHANGED <<users, events>>
  BY <1>2
<1>3. ASSUME NEW p \in Shells, BestEffort(p) \/ Unlogged(p)
      PROVE CountersTold(events', users')
  <2> DEFINE me == op[p].acct
  <2>1. /\ \A b \in Accounts : Counted(events', b) = Counted(events, b)
        /\ \A b \in Accounts : LockedLast(events', b) <=> LockedLast(events, b)
    BY <1>1, <1>3, QuietTrail DEF SameTrail
  <2>2. CASE UNCHANGED users
    <3>1. \A b : /\ Fails(users', b) = Fails(users, b)
                 /\ CarriesLock(users', b) <=> CarriesLock(users, b)
      BY <2>2
    <3> QED BY <2>1, <3>1 DEF CountersTold, Told
  <2>3. ASSUME ~Ready(p), NEW row, UpdateUser(me, row),
               \/ SameLock(row, users[me])
               \/ Running(p, "clearLock") /\ row.failed = 0 /\ row.lockedUntil = Unset
        PROVE CountersTold(events', users')
    <3>1. me \in DOMAIN users /\ me \in Accounts /\ users[me].failed \in Nat
      BY <2>3 DEF TypeOK, User
    <3>2. \A b : b # me => /\ Fails(users', b) = Fails(users, b)
                           /\ CarriesLock(users', b) <=> CarriesLock(users, b)
      BY <2>3, <3>1, RowTold
    <3>3. /\ Fails(users', me) = row.failed
          /\ CarriesLock(users', me) <=> row.lockedUntil # Unset
      BY <2>3, <3>1, RowTold
    <3>4. Told(Counted(events, me), LockedLast(events, me), users[me].failed,
               users[me].lockedUntil # Unset)
      BY <3>1 DEF CountersTold, Fails, CarriesLock
    <3>5. Told(Counted(events', me), LockedLast(events', me), row.failed,
               row.lockedUntil # Unset)
      <4>1. CASE SameLock(row, users[me])
        BY <2>1, <3>1, <3>4, <4>1 DEF SameLock, Told
      <4>2. CASE Running(p, "clearLock") /\ row.failed = 0 /\ row.lockedUntil = Unset
        <5>1. users[me].lockedUntil # Unset /\ users[me].failed <= 1
          BY <3>1, <4>2 DEF LocksFit, CallFits, RowFits, Running
        <5>2. users[me].failed = 0 \/ users[me].failed = 1
          BY <3>1, <5>1
        <5> QED BY <2>1, <3>1, <3>4, <4>2, <5>1, <5>2 DEF Told
      <4> QED BY <2>3, <4>1, <4>2
    <3> QED BY <2>1, <3>2, <3>3, <3>5 DEF CountersTold, Told
  <2> QED BY <1>3, <2>2, <2>3, QuietRows
<1>4. CASE Tick /\ UNCHANGED events
  BY <1>2, <1>4 DEF Tick, tables
<1>5. CASE UNCHANGED auditVars
  BY <1>2, <1>5 DEF auditVars, vars
<1> QED BY <1>1, <1>3, <1>4, <1>5, CounterWritten DEF AuditNext

LEMMA StreakIsFailureStreak == \A a : Streak(events, a) = FailureStreak(a)
BY DEF Streak, FailureStreak, Said, Places, Breaks

\* With one shell at a time and ChallengeTTL at most LockDuration (2m and 15m by
\* default) the counter in every row is the number of counted failures the trail
\* shows since the last login or lock, or, when that was a lock, possibly one
\* less: a parked login found alive just before the lock runs out and refused
\* just after it is counted on the old lock, which ClearExpiredLock wipes out.
\* Without the bound it could be several less.
THEOREM CounterIsTold ==
    ASSUME Alone, ChallengeTTL <= LockDuration
    PROVE  AuditSpec => []CounterMatchesTrail
<1>1. TypeOK /\ CountersTold(events, users) => CounterMatchesTrail
  <2> SUFFICES ASSUME TypeOK, CountersTold(events, users), NEW a \in DOMAIN users
               PROVE  \/ users[a].failed = Cardinality(FailureStreak(a))
                      \/ /\ LockedSinceLogin(a)
                         /\ users[a].failed + 1 = Cardinality(FailureStreak(a))
    BY DEF CounterMatchesTrail
  <2>1. a \in Accounts
    BY DEF TypeOK
  <2>2. LockedLast(events, a) <=> LockedSinceLogin(a)
    BY DEF LockedLast, Stands, Said, LockedSinceLogin, Places
  <2>3. Told(Cardinality(FailureStreak(a)), LockedLast(events, a), users[a].failed,
             users[a].lockedUntil # Unset)
    BY <2>1, StreakIsFailureStreak DEF CountersTold, Counted, Fails, CarriesLock
  <2> QED BY <2>2, <2>3 DEF Told
<1>2. TypeOK /\ CopiesCurrent /\ CopiesExplained /\ LocksFit /\ CountersTold(events, users)
        /\ [AuditNext]_auditVars => CountersTold(events, users)'
  BY CounterTold
<1>3. AuditInit => CountersTold(events, users)
  BY NothingTold
<1>4. AuditSpec => [](TypeOK /\ CopiesCurrent /\ CopiesExplained)
  BY AuditBasics
<1>5. Spec => []LocksFit
  BY LocksAlwaysFit
<1> QED BY <1>1, <1>2, <1>3, <1>4, <1>5, AuditImplementsService, PTL DEF AuditSpec

\* At most MaxAttempts counted failures in a row without the lock, and so many
\* only if the account was locked since its last login.
LockAtMostOneLate ==
    \A a \in DOMAIN users :
        LET shown == Cardinality(FailureStreak(a))
        IN  shown < MaxAttempts \/ (LockedSinceLogin(a) /\ shown = MaxAttempts)

\* "Failed attempts (password or TOTP) lock the account": under the same
\* conditions the first lock comes with the failure that reaches MaxAttempts,
\* and a later one at most one failure late. With two shells it may come later
\* still, see the run lost_failure.
THEOREM LockComesInTime ==
    ASSUME Alone, ChallengeTTL <= LockDuration
    PROVE  AuditSpec => []LockAtMostOneLate
<1>1. TypeOK /\ CounterMatchesTrail /\ UserRowsCoherent => LockAtMostOneLate
  <2> SUFFICES ASSUME TypeOK, CounterMatchesTrail, UserRowsCoherent, NEW a \in DOMAIN users
               PROVE  \/ Cardinality(FailureStreak(a)) < MaxAttempts
                      \/ /\ LockedSinceLogin(a)
                         /\ Cardinality(FailureStreak(a)) = MaxAttempts
    BY DEF LockAtMostOneLate
  <2> DEFINE shown == Cardinality(FailureStreak(a))
  <2>1. users[a].failed < MaxAttempts /\ users[a].failed \in Nat /\ MaxAttempts \in Nat
    BY ConfigValid DEF UserRowsCoherent, RowCoherent, TypeOK, User
  <2>2. users[a].failed = shown \/ (LockedSinceLogin(a) /\ users[a].failed + 1 = shown)
    BY DEF CounterMatchesTrail
  <2> HIDE DEF shown
  <2>3. shown < MaxAttempts \/ (LockedSinceLogin(a) /\ shown = MaxAttempts)
    BY <2>1, <2>2
  <2> QED BY <2>3 DEF shown
<1>2. AuditSpec => []CounterMatchesTrail
  BY CounterIsTold
<1> QED BY <1>1, <1>2, AuditImplementsService, TypeCorrect, RowsCoherent, PTL

\* An audited shell that has the database to itself keeps LoginPromise too:
\* writing the trail, or losing entries of it, breaks none of it.
THEOREM AuditedShellKeepsPromise == ASSUME Alone PROVE AuditSpec => KeepsPromise
<1>1. Spec => KeepsPromise
  BY OneShellKeepsPromise
<1> QED BY <1>1, AuditImplementsService, PTL
=============================================================================
