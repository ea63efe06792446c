--------------------------- MODULE SessionsProofs ---------------------------
(***************************************************************************)
(* Theorems about Sessions, for every number of users, session ids and     *)
(* tasks and every bound.                                                  *)
(***************************************************************************)
EXTENDS Sessions, TLAPS

\* A purge has seen no password that is still to come.
PurgesPast == \A u \in Users : purged[u] <= password[u]

\* A login holds a password version and a number of bans from the past, and
\* one that passed the lookup of a user banned by now was overtaken by a ban.
LoginsPast ==
    \A t \in Tasks : pc[t] = "store" =>
        /\ req[t].verified <= password[req[t].user]
        /\ req[t].checked <= bans[req[t].user]
        /\ req[t].user \in banned => req[t].checked < bans[req[t].user]

\* The same for a login that has yet to look up the ban.
VerifiedPast ==
    \A t \in Tasks : pc[t] = "ban_check" => req[t].verified <= password[req[t].user]

\* A ban that is about to look up its target has a mod for its caller.
CallersKnown ==
    \A t \in Tasks : pc[t] = "target_role" => req[t].user \in mods \/ req[t].turned

IInv == /\ TypeOK
        /\ PurgesPast
        /\ LoginsPast
        /\ VerifiedPast
        /\ CallersKnown
        /\ BanEntitled
        /\ BannedOnlyByRace
        /\ StaleOnlyByRace
-----------------------------------------------------------------------------
\* A request that begins is one of the four kinds that take several steps.
LEMMA ReceiveFact ==
  ASSUME NEW t \in Tasks, Receive(t)
  PROVE  \/ \E u \in Users : Login(t, u)
         \/ \E s \in sessions : RefreshSession(t, s)
         \/ \E u \in Users : ChangePassword(t, u)
         \/ \E me, u \in Users : BanUser(t, me, u)
BY DEF Receive

\* A request that begins has the fields of one.
LEMMA AskFact ==
  ASSUME NEW u \in Users
  PROVE  /\ Ask(u) \in Request
         /\ \A n \in Nat : [Ask(u) EXCEPT !.verified = n] \in Request
         /\ \A i \in SessionIds : [Ask(u) EXCEPT !.id = i] \in Request
         /\ \A v \in Users : [Ask(u) EXCEPT !.target = v] \in Request
BY DEF Ask, Request

\* A change of role marks a request and changes nothing else of it.
LEMMA TurnedFact ==
  ASSUME NEW r \in Request
  PROVE  LET q == [r EXCEPT !.turned = TRUE] IN
         q \in Request /\ q.user = r.user /\ q.target = r.target /\ q.turned
BY DEF Request

\* The clock and the longest life of a session bound every expiry.
LEMMA ExpiryFact ==
  ASSUME TypeOK
  PROVE  /\ 0 \in Times /\ now + LoginLife \in Times /\ now + RefreshLife \in Times
BY SessionsAssumption DEF TypeOK, Times

\* An extension changes the expiry of one session and nothing else.
LEMMA ExtendedFact ==
  ASSUME TypeOK, NEW t \in Tasks
  PROVE  /\ Extended(t) \subseteq Session
         /\ \A s \in Extended(t) : \E r \in sessions : r.id = s.id /\ r.user = s.user
         /\ \A s, r \in Extended(t) : s.id = r.id => s = r
         /\ \A r \in sessions : \E s \in Extended(t) : r.id = s.id
<1>1. \A s \in sessions : s \in Session /\ [s EXCEPT !.expires = stamp[t]] \in Session
  BY DEF TypeOK, Session
<1>2. \A s \in sessions : /\ [s EXCEPT !.expires = stamp[t]].id = s.id
                          /\ [s EXCEPT !.expires = stamp[t]].user = s.user
  BY <1>1 DEF Session
<1>3. \A s \in Extended(t) : \E r \in sessions :
          /\ s = IF r.id = req[t].id THEN [r EXCEPT !.expires = stamp[t]] ELSE r
          /\ s.id = r.id /\ s.user = r.user
  BY <1>2 DEF Extended
<1>4. Extended(t) \subseteq Session
  BY <1>1 DEF Extended
<1>5. \A s, r \in Extended(t) : s.id = r.id => s = r
  BY <1>3 DEF TypeOK
<1>6. \A r \in sessions : \E s \in Extended(t) : r.id = s.id
  BY <1>2 DEF Extended
<1> QED BY <1>3, <1>4, <1>5, <1>6

\* Every step keeps the types: an expiry stays within the clock and the lives,
\* and a session id names one session.
LEMMA TypeStep ==
  ASSUME TypeOK, [Next]_vars
  PROVE  TypeOK'
<1> USE SessionsAssumption, NoTaskAssumption
    DEF TypeOK, LocksTypeOK, Idle, Goto, Accept, Finish, DbSteps, accounts, tasks, history, locks,
        Lock, CommitWrites, Autocommit, Rollback, RollbackAll
<1>1. ASSUME NEW t \in Tasks, Receive(t) PROVE TypeOK'
  <2>1. ASSUME NEW u \in Users, Login(t, u) PROVE TypeOK'
    BY <2>1, AskFact DEF Login
  <2>2. ASSUME NEW s \in sessions, RefreshSession(t, s) PROVE TypeOK'
    <3>1. s.user \in Users /\ s.id \in SessionIds
      BY DEF Session
    <3> QED BY <2>2, <3>1, AskFact, ExpiryFact DEF RefreshSession
  <2>3. ASSUME NEW u \in Users, ChangePassword(t, u) PROVE TypeOK'
    BY <2>3, AskFact DEF ChangePassword
  <2>4. ASSUME NEW me \in Users, NEW u \in Users, BanUser(t, me, u) PROVE TypeOK'
    BY <2>4, AskFact DEF BanUser
  <2> QED BY <1>1, <2>1, <2>2, <2>3, <2>4, ReceiveFact
<1>2. ASSUME NEW t \in Tasks, BanCheck(t) PROVE TypeOK'
  <2>1. CASE Finish(t)
    BY <1>2, <2>1, ExpiryFact DEF BanCheck
  <2>2. CASE req[t].user \notin banned
    <3>1. bans[req[t].user] \in Nat /\ req[t] \in Request
      BY <1>2 DEF BanCheck, Request
    <3>2. [req[t] EXCEPT !.checked = bans[req[t].user]] \in Request
      BY <3>1 DEF Request
    <3>3. /\ req' = [req EXCEPT ![t] = [req[t] EXCEPT !.checked = bans[req[t].user]]]
          /\ stamp' = [stamp EXCEPT ![t] = now + LoginLife]
          /\ pc' = [pc EXCEPT ![t] = "store"]
          /\ UNCHANGED <<accounts, sessions, online, now, locks, history>>
      BY <1>2, <2>2 DEF BanCheck
    <3> QED BY <3>2, <3>3, ExpiryFact
  <2> QED BY <1>2, <2>1, <2>2 DEF BanCheck
<1>3. ASSUME NEW t \in Tasks, NEW i \in SessionIds, StoreSession(t, i) PROVE TypeOK'
  <2> DEFINE u == req[t].user
             s == [id |-> i, user |-> u, expires |-> stamp[t]]
             o == [verified |-> req[t].verified, checked |-> req[t].checked,
                   storedAt |-> password[u], storedUnder |-> bans[u]]
  <2>1. req[t] \in Request
    BY <1>3 DEF StoreSession
  <2>2. s \in Session /\ o \in Origin
    BY <2>1 DEF Request, Session, Origin
  <2>3. \A r \in sessions : r.id # i
    BY <1>3 DEF StoreSession, Origin
  <2>4. /\ sessions' = sessions \cup {s}
        /\ origin' = [origin EXCEPT ![i] = o]
        /\ UNCHANGED <<accounts, online, now, bans, purged>>
    BY <1>3 DEF StoreSession
  <2>5. s.id = i
    OBVIOUS
  <2>6. LocksTypeOK' /\ pc' \in [Tasks -> DbSteps \cup {"idle"}]
        /\ req' \in [Tasks -> Request \cup {NoRequest}]
        /\ (\A p \in Tasks : pc'[p] # "idle" => req'[p] \in Request)
        /\ stamp' \in [Tasks -> Times]
    BY <1>3, ExpiryFact DEF StoreSession
  <2> HIDE DEF s, o, u
  <2>7. /\ sessions' \subseteq Session
        /\ \A p, r \in sessions' : p.id = r.id => p = r
        /\ origin' \in [SessionIds -> Origin \cup {NoOrigin}]
        /\ \A p \in sessions' : origin'[p.id] \in Origin
    BY <2>2, <2>3, <2>4, <2>5
  <2> QED BY <2>4, <2>6, <2>7
<1>4. ASSUME NEW t \in Tasks, ExtendSession(t) PROVE TypeOK'
  <2>1. sessions' = Extended(t) /\ UNCHANGED <<accounts, online, now, history>>
    BY <1>4 DEF ExtendSession
  <2>2. LocksTypeOK' /\ pc' \in [Tasks -> DbSteps \cup {"idle"}]
        /\ req' \in [Tasks -> Request \cup {NoRequest}]
        /\ (\A p \in Tasks : pc'[p] # "idle" => req'[p] \in Request)
        /\ stamp' \in [Tasks -> Times]
    BY <1>4, ExpiryFact DEF ExtendSession
  <2>3. /\ sessions' \subseteq Session
        /\ \A p, r \in sessions' : p.id = r.id => p = r
        /\ \A p \in sessions' : origin'[p.id] \in Origin
    BY <2>1, ExtendedFact
  <2> QED BY <2>1, <2>2, <2>3
<1>5. ASSUME NEW t \in Tasks, SetPassword(t) PROVE TypeOK'
  <2>1. req[t].user \in Users
    BY <1>5 DEF SetPassword, Request
  <2> QED BY <1>5, <2>1 DEF SetPassword
<1>6. ASSUME NEW t \in Tasks, PurgeSessions(t) PROVE TypeOK'
  <2>1. req[t].user \in Users
    BY <1>6 DEF PurgeSessions, Request
  <2> QED BY <1>6, <2>1, ExpiryFact DEF PurgeSessions
<1>7. ASSUME NEW t \in Tasks, CallerRole(t) \/ TargetRole(t) PROVE TypeOK'
  <2>1. UNCHANGED <<accounts, sessions, online, now, locks, history>>
    BY <1>7 DEF CallerRole, TargetRole, CheckRole
  <2>2. CASE Finish(t)
    BY <2>1, <2>2, ExpiryFact
  <2>3. CASE pc[t] # "idle" /\ UNCHANGED <<req, stamp>>
             /\ \E step \in DbSteps : pc' = [pc EXCEPT ![t] = step]
    BY <2>1, <2>3
  <2>4. CASE ~Finish(t)
    <3>1. CASE CallerRole(t)
      BY <2>3, <2>4, <3>1 DEF CallerRole, CheckRole
    <3>2. CASE TargetRole(t)
      BY <2>3, <2>4, <3>2 DEF TargetRole, CheckRole
    <3> QED BY <1>7, <3>1, <3>2
  <2> QED BY <2>2, <2>4
<1>8. ASSUME NEW t \in Tasks, BanInsert(t) PROVE TypeOK'
  BY <1>8 DEF BanInsert
<1>9. ASSUME NEW t \in Tasks, BanCommit(t) PROVE TypeOK'
  <2>1. req[t].target \in Users
    BY <1>9 DEF BanCommit, Request
  <2> QED BY <1>9, <2>1, ExpiryFact DEF BanCommit
<1>10. ASSUME NEW t \in Tasks, Fail(t) PROVE TypeOK'
  BY <1>10, ExpiryFact DEF Fail
<1>11. ASSUME NEW s \in sessions, Connect(s) PROVE TypeOK'
  BY <1>11 DEF Connect, Session
<1>12. ASSUME NEW u \in Users, Disconnect(u) \/ UnbanUser(u) PROVE TypeOK'
  BY <1>12 DEF Disconnect, UnbanUser
<1>17. ASSUME NEW u \in Users, SetMod(u) PROVE TypeOK'
  <2>1. \A t \in Tasks : KnowsRole(t, u) => req[t] \in Request
    BY DEF KnowsRole
  <2>2. \A t \in Tasks : req'[t] = req[t] \/ (req[t] \in Request /\ req'[t] \in Request)
    <3>1. \A t \in Tasks : req'[t] = IF KnowsRole(t, u) THEN [req[t] EXCEPT !.turned = TRUE]
                                                      ELSE req[t]
      BY <1>17 DEF SetMod
    <3> HIDE DEF TypeOK
    <3> QED BY <2>1, <3>1, TurnedFact
  <2>3. req' = [t \in Tasks |-> req'[t]] /\ UNCHANGED pc
    BY <1>17 DEF SetMod
  <2>4. /\ req' \in [Tasks -> Request \cup {NoRequest}]
        /\ \A t \in Tasks : pc'[t] # "idle" => req'[t] \in Request
    BY <2>2, <2>3
  <2> QED BY <1>17, <2>4 DEF SetMod
<1>13. CASE Tick
  BY <1>13 DEF Tick
<1>14. CASE CleanSessions
  BY <1>14 DEF CleanSessions
<1>15. CASE Crash
  BY <1>15, ExpiryFact DEF Crash
<1>16. CASE UNCHANGED vars
  BY <1>16 DEF vars
<1> HIDE DEF TypeOK
<1> QED BY <1>1, <1>2, <1>3, <1>4, <1>5, <1>6, <1>7, <1>8, <1>9, <1>10, <1>11, <1>12,
           <1>13, <1>14, <1>15, <1>16, <1>17 DEF Next, Step
-----------------------------------------------------------------------------
\* The server starts with no session, no ban and no login under way.
LEMMA InitInv == Init => IInv
<1> SUFFICES ASSUME Init PROVE IInv
  OBVIOUS
<1> USE SessionsAssumption, NoTaskAssumption DEF Init, LocksInit
<1>1. TypeOK
  BY DEF TypeOK, LocksTypeOK, Times, Session, Idle
<1>2. PurgesPast /\ LoginsPast /\ VerifiedPast /\ BannedOnlyByRace /\ StaleOnlyByRace
  BY DEF PurgesPast, LoginsPast, VerifiedPast, BannedOnlyByRace, StaleOnlyByRace
<1>3. CallersKnown /\ BanEntitled
  BY DEF CallersKnown, BanEntitled
<1> QED BY <1>1, <1>2, <1>3 DEF IInv

\* A step that is not part of an operation on the sessions table leaves what
\* the two race properties speak of alone, or lets some sessions or bans go.
LEMMA SessionSteps ==
  ASSUME [Next]_vars
  PROVE  \/ \E t \in Tasks, i \in SessionIds : StoreSession(t, i)
         \/ \E t \in Tasks : ExtendSession(t) \/ PurgeSessions(t) \/ BanCommit(t)
         \/ /\ sessions' \subseteq sessions
            /\ banned' \subseteq banned
            /\ UNCHANGED <<origin, purged>>
<1> USE DEF accounts, history
<1>1. ASSUME NEW t \in Tasks, Receive(t) PROVE UNCHANGED <<sessions, banned, origin, purged>>
  BY <1>1, ReceiveFact DEF Login, RefreshSession, ChangePassword, BanUser
<1>2. ASSUME NEW t \in Tasks, Step(t),
             ~ \E i \in SessionIds : StoreSession(t, i),
             ~ (ExtendSession(t) \/ PurgeSessions(t) \/ BanCommit(t))
      PROVE  UNCHANGED <<sessions, banned, origin, purged>>
  BY <1>2 DEF Step, BanCheck, SetPassword, CallerRole, TargetRole, CheckRole, BanInsert
<1>3. ASSUME NEW t \in Tasks, Fail(t) PROVE UNCHANGED <<sessions, banned, origin, purged>>
  BY <1>3 DEF Fail
<1>4. ASSUME NEW s \in sessions, Connect(s) PROVE UNCHANGED <<sessions, banned, origin, purged>>
  BY <1>4 DEF Connect
<1>5. ASSUME NEW u \in Users, Disconnect(u) \/ UnbanUser(u) \/ SetMod(u)
      PROVE  UNCHANGED <<sessions, origin, purged>> /\ banned' \subseteq banned
  BY <1>5 DEF Disconnect, UnbanUser, SetMod
<1>6. ASSUME Tick \/ CleanSessions \/ Crash \/ UNCHANGED vars
      PROVE  /\ UNCHANGED <<banned, origin, purged>>
             /\ sessions' \subseteq sessions
  BY <1>6 DEF Tick, CleanSessions, Crash, vars
<1> QED BY <1>1, <1>2, <1>3, <1>4, <1>5, <1>6 DEF Next

\* Only four steps concern a login under way: those that move it on to the
\* lookup of the ban and past it, and those that overtake it.
LEMMA LoginSteps ==
  ASSUME TypeOK, [Next]_vars
  PROVE  \/ \E t \in Tasks, u \in Users : Login(t, u)
         \/ \E t \in Tasks : BanCheck(t) \/ SetPassword(t) \/ BanCommit(t)
         \/ /\ UNCHANGED <<password, bans>>
            /\ banned' \subseteq banned
            /\ \A p \in Tasks : pc'[p] \in {"ban_check", "store"} =>
                   pc'[p] = pc[p] /\ req'[p] = req[p]
<1> USE DEF accounts, history, tasks, Goto, Finish, Accept, TypeOK
<1> DEFINE Quiet == /\ UNCHANGED <<password, bans>>
                    /\ banned' \subseteq banned
                    /\ \A p \in Tasks : pc'[p] \in {"ban_check", "store"} =>
                           pc'[p] = pc[p] /\ req'[p] = req[p]
<1>1. ASSUME NEW t \in Tasks, Receive(t), ~ \E u \in Users : Login(t, u) PROVE Quiet
  BY <1>1, ReceiveFact DEF RefreshSession, ChangePassword, BanUser
<1>2. ASSUME NEW t \in Tasks, NEW i \in SessionIds, StoreSession(t, i) PROVE Quiet
  BY <1>2 DEF StoreSession
<1>3. ASSUME NEW t \in Tasks, ExtendSession(t) PROVE Quiet
  BY <1>3 DEF ExtendSession
<1>4. ASSUME NEW t \in Tasks, PurgeSessions(t) PROVE Quiet
  BY <1>4 DEF PurgeSessions
<1>5. ASSUME NEW t \in Tasks, CallerRole(t) \/ TargetRole(t) PROVE Quiet
  <2>1. UNCHANGED <<accounts, history>>
    BY <1>5 DEF CallerRole, TargetRole, CheckRole
  <2>2. CASE Finish(t)
    BY <2>1, <2>2
  <2>3. CASE UNCHANGED req /\ \E step \in {"target_role", "ban_insert"} :
               pc' = [pc EXCEPT ![t] = step]
    BY <2>1, <2>3
  <2>4. CASE ~Finish(t)
    <3>1. CASE CallerRole(t)
      BY <2>3, <2>4, <3>1 DEF CallerRole, CheckRole
    <3>2. CASE TargetRole(t)
      BY <2>3, <2>4, <3>2 DEF TargetRole, CheckRole
    <3> QED BY <1>5, <3>1, <3>2
  <2> QED BY <2>2, <2>4
<1>6. ASSUME NEW t \in Tasks, BanInsert(t) PROVE Quiet
  BY <1>6 DEF BanInsert
<1>7. ASSUME NEW t \in Tasks, Fail(t) PROVE Quiet
  BY <1>7 DEF Fail
<1>8. ASSUME NEW s \in sessions, Connect(s) PROVE Quiet
  BY <1>8 DEF Connect
<1>9. ASSUME NEW u \in Users, Disconnect(u) \/ UnbanUser(u) \/ SetMod(u) PROVE Quiet
  BY <1>9 DEF Disconnect, UnbanUser, SetMod, KnowsRole
<1>10. ASSUME Tick \/ CleanSessions \/ Crash \/ UNCHANGED vars PROVE Quiet
  BY <1>10 DEF Tick, CleanSessions, Crash, vars
<1> HIDE DEF Quiet
<1>11. Quiet \/ (\E t \in Tasks, u \in Users : Login(t, u))
             \/ (\E t \in Tasks : BanCheck(t) \/ SetPassword(t) \/ BanCommit(t))
  BY <1>1, <1>2, <1>3, <1>4, <1>5, <1>6, <1>7, <1>8, <1>9, <1>10 DEF Next, Step
<1> QED BY <1>11 DEF Quiet
-----------------------------------------------------------------------------
\* A purge records the password it saw, and a password version only grows.
LEMMA PurgesStep == ASSUME IInv, [Next]_vars PROVE PurgesPast'
<1> USE DEF IInv, TypeOK, PurgesPast
<1>1. ASSUME NEW t \in Tasks, SetPassword(t) PROVE PurgesPast'
  <2>1. /\ password' = [password EXCEPT ![req[t].user] = @ + 1]
        /\ purged' = purged
    BY <1>1 DEF SetPassword, history
  <2>2. \A u \in Users : password[u] <= password'[u]
    BY <2>1
  <2> QED BY <2>1, <2>2, TypeStep
<1>2. ASSUME NEW t \in Tasks, PurgeSessions(t) PROVE PurgesPast'
  <2>1. /\ purged' = [purged EXCEPT ![req[t].user] = password[req[t].user]]
        /\ password' = password
    BY <1>2 DEF PurgeSessions, accounts
  <2> QED BY <2>1
<1>3. CASE UNCHANGED <<password, purged>>
  BY <1>3
<1>4. \/ UNCHANGED <<password, purged>>
      \/ \E t \in Tasks : SetPassword(t) \/ PurgeSessions(t)
  <2> USE DEF accounts, history
  <2>1. ASSUME NEW t \in Tasks, Receive(t) PROVE UNCHANGED <<password, purged>>
    BY <2>1, ReceiveFact DEF Login, RefreshSession, ChangePassword, BanUser
  <2>2. ASSUME NEW t \in Tasks, Step(t), ~ (SetPassword(t) \/ PurgeSessions(t))
        PROVE  UNCHANGED <<password, purged>>
    BY <2>2 DEF Step, BanCheck, StoreSession, ExtendSession, CallerRole, TargetRole,
                CheckRole, BanInsert, BanCommit
  <2>3. ASSUME NEW t \in Tasks, Fail(t) PROVE UNCHANGED <<password, purged>>
    BY <2>3 DEF Fail
  <2>4. ASSUME NEW s \in sessions, Connect(s) PROVE UNCHANGED <<password, purged>>
    BY <2>4 DEF Connect
  <2>5. ASSUME NEW u \in Users, Disconnect(u) \/ UnbanUser(u) \/ SetMod(u)
        PROVE  UNCHANGED <<password, purged>>
    BY <2>5 DEF Disconnect, UnbanUser, SetMod
  <2>6. ASSUME Tick \/ CleanSessions \/ Crash \/ UNCHANGED vars
        PROVE  UNCHANGED <<password, purged>>
    BY <2>6 DEF Tick, CleanSessions, Crash, vars
  <2> QED BY <2>1, <2>2, <2>3, <2>4, <2>5, <2>6 DEF Next
<1> QED BY <1>1, <1>2, <1>3, <1>4

\* What a login under way holds stays in the past: the lookup of the ban sees
\* the bans committed so far, and a later ban only adds to them.
LEMMA LoginsStep == ASSUME IInv, [Next]_vars PROVE LoginsPast' /\ VerifiedPast'
<1> USE DEF LoginsPast, VerifiedPast
<1>0. TypeOK /\ TypeOK' /\ LoginsPast /\ VerifiedPast
  BY TypeStep DEF IInv
<1>1. ASSUME NEW t \in Tasks, NEW u \in Users, Login(t, u) PROVE LoginsPast' /\ VerifiedPast'
  <2>1. /\ pc' = [pc EXCEPT ![t] = "ban_check"]
        /\ req' = [req EXCEPT ![t] = [Ask(u) EXCEPT !.verified = password[u]]]
        /\ UNCHANGED <<password, banned, bans>>
    BY <1>1 DEF Login, Accept, Goto, accounts, history
  <2>2. /\ [Ask(u) EXCEPT !.verified = password[u]].user = u
        /\ [Ask(u) EXCEPT !.verified = password[u]].verified = password[u]
    BY DEF Ask
  <2> QED BY <1>0, <2>1, <2>2 DEF TypeOK
<1>2. ASSUME NEW t \in Tasks, BanCheck(t) PROVE LoginsPast' /\ VerifiedPast'
  <2>1. UNCHANGED <<password, banned, bans>> /\ pc[t] = "ban_check"
    BY <1>2 DEF BanCheck, accounts, history
  <2>2. CASE Finish(t)
    BY <1>0, <2>1, <2>2 DEF Finish, Goto, TypeOK
  <2>3. CASE req[t].user \notin banned
    <3> DEFINE r == [req[t] EXCEPT !.checked = bans[req[t].user]]
    <3>1. req[t] \in Request
      BY <1>0, <2>1 DEF TypeOK, Idle
    <3>2. r.user = req[t].user /\ r.verified = req[t].verified
          /\ r.checked = bans[req[t].user]
      BY <3>1 DEF Request
    <3>3. /\ req' = [req EXCEPT ![t] = r]
          /\ pc' = [pc EXCEPT ![t] = "store"]
      BY <1>2, <2>3 DEF BanCheck, Finish, Goto
    <3>4. bans[req[t].user] \in Nat
      BY <1>0, <3>1 DEF TypeOK, Request
    <3> HIDE DEF r
    <3> QED BY <1>0, <2>1, <2>3, <3>2, <3>3, <3>4 DEF TypeOK
  <2> QED BY <1>2, <2>2, <2>3 DEF BanCheck
<1>3. ASSUME NEW t \in Tasks, SetPassword(t) PROVE LoginsPast' /\ VerifiedPast'
  <2>1. /\ password' = [password EXCEPT ![req[t].user] = @ + 1]
        /\ pc' = [pc EXCEPT ![t] = "purge"]
        /\ UNCHANGED <<banned, bans, req>>
    BY <1>3 DEF SetPassword, Goto, history
  <2>2. \A u \in Users : password[u] \in Nat /\ password'[u] \in Nat /\ password[u] <= password'[u]
    BY <1>0, <2>1 DEF TypeOK
  <2>3. \A p \in Tasks : pc'[p] \in {"ban_check", "store"} =>
            pc[p] = pc'[p] /\ req[p].user \in Users /\ req[p].verified \in Nat
    BY <1>0, <2>1 DEF TypeOK, Idle, Request
  <2> QED BY <1>0, <2>1, <2>2, <2>3
<1>4. ASSUME NEW t \in Tasks, BanCommit(t) PROVE LoginsPast' /\ VerifiedPast'
  <2>1. /\ banned' = banned \cup {req[t].target}
        /\ bans' = [bans EXCEPT ![req[t].target] = @ + 1]
        /\ pc' = [pc EXCEPT ![t] = "idle"]
        /\ req' = [req EXCEPT ![t] = NoRequest]
        /\ UNCHANGED password
    BY <1>4 DEF BanCommit, Finish, Goto
  <2>2. \A p \in Tasks : pc'[p] \in {"ban_check", "store"} =>
            /\ pc[p] = pc'[p] /\ req'[p] = req[p]
            /\ req[p].user \in Users /\ req[p].checked \in Nat
    BY <1>0, <2>1 DEF TypeOK, Idle, Request
  <2>3. \A u \in Users : bans[u] \in Nat /\ bans[u] <= bans'[u]
    BY <1>0, <2>1 DEF TypeOK
  <2>4. bans'[req[t].target] = bans[req[t].target] + 1 \/ req[t].target \notin Users
    BY <1>0, <2>1 DEF TypeOK
  <2>5. \A u \in Users : bans'[u] \in Nat
    BY <1>0 DEF TypeOK
  <2> QED BY <1>0, <2>1, <2>2, <2>3, <2>4, <2>5
<1>5. CASE /\ UNCHANGED <<password, bans>>
           /\ banned' \subseteq banned
           /\ \A p \in Tasks : pc'[p] \in {"ban_check", "store"} =>
                  pc'[p] = pc[p] /\ req'[p] = req[p]
  BY <1>0, <1>5
<1> QED BY <1>0, <1>1, <1>2, <1>3, <1>4, <1>5, LoginSteps

\* Every step keeps both race properties: a session is stored only with what
\* its login saw, a ban or a purge deletes all of the user's sessions, and an
\* extension keeps the id and the user of a session.
LEMMA RacesStep == ASSUME IInv, [Next]_vars PROVE BannedOnlyByRace' /\ StaleOnlyByRace'
<1> USE DEF BannedOnlyByRace, StaleOnlyByRace
<1>0. /\ TypeOK /\ LoginsPast /\ PurgesPast /\ BannedOnlyByRace /\ StaleOnlyByRace
      /\ \A s \in sessions : s.id \in SessionIds /\ s.user \in Users
  BY DEF IInv, TypeOK, Session
<1>1. ASSUME NEW t \in Tasks, NEW i \in SessionIds, StoreSession(t, i)
      PROVE  BannedOnlyByRace' /\ StaleOnlyByRace'
  <2> DEFINE u == req[t].user
             s == [id |-> i, user |-> u, expires |-> stamp[t]]
             o == [verified |-> req[t].verified, checked |-> req[t].checked,
                   storedAt |-> password[u], storedUnder |-> bans[u]]
  <2>1. /\ sessions' = sessions \cup {s}
        /\ origin' = [origin EXCEPT ![i] = o]
        /\ UNCHANGED <<banned, purged>>
        /\ pc[t] = "store" /\ origin[i] = NoOrigin
    BY <1>1 DEF StoreSession, accounts
  <2>2. \A r \in sessions : r.id # i
    BY <1>0, <2>1, SessionsAssumption DEF TypeOK, Origin
  <2>3. req[t] \in Request
    BY <1>0, <2>1 DEF TypeOK, Idle
  <2>4. /\ u \in Users /\ password[u] \in Nat /\ bans[u] \in Nat /\ purged[u] \in Nat
        /\ req[t].verified \in Nat /\ req[t].checked \in Nat
    BY <1>0, <2>3 DEF TypeOK, Request
  <2>5. u \in banned => o.checked < o.storedUnder
    BY <1>0, <2>1 DEF LoginsPast
  <2>6. o.verified < purged[u] => o.verified < o.storedAt
    BY <1>0, <2>4 DEF PurgesPast
  <2>7. s.id = i /\ s.user = u
    OBVIOUS
  <2>8. origin'[i] = o /\ \A r \in sessions : origin'[r.id] = origin[r.id]
    BY <1>0, <2>1, <2>2 DEF TypeOK
  <2> HIDE DEF s, o, u
  <2> QED BY <1>0, <2>1, <2>5, <2>6, <2>7, <2>8
<1>2. ASSUME NEW t \in Tasks, ExtendSession(t) PROVE BannedOnlyByRace' /\ StaleOnlyByRace'
  <2>1. sessions' = Extended(t) /\ UNCHANGED <<banned, origin, purged>>
    BY <1>2 DEF ExtendSession, accounts, history
  <2>2. \A s \in sessions' : \E r \in sessions : r.id = s.id /\ r.user = s.user
    BY <1>0, <2>1, ExtendedFact
  <2> QED BY <1>0, <2>1, <2>2
<1>3. ASSUME NEW t \in Tasks, PurgeSessions(t) PROVE BannedOnlyByRace' /\ StaleOnlyByRace'
  <2>1. /\ sessions' = sessions \ Revoked(req[t].user)
        /\ purged' = [purged EXCEPT ![req[t].user] = password[req[t].user]]
        /\ UNCHANGED <<banned, origin>>
    BY <1>3 DEF PurgeSessions, accounts
  <2>2. \A s \in sessions' : s \in sessions /\ s.user # req[t].user
    BY <2>1 DEF Revoked, SessionsOf
  <2>3. \A s \in sessions' : purged'[s.user] = purged[s.user]
    BY <1>0, <2>1, <2>2 DEF TypeOK
  <2> QED BY <1>0, <2>1, <2>2, <2>3
<1>4. ASSUME NEW t \in Tasks, BanCommit(t) PROVE BannedOnlyByRace' /\ StaleOnlyByRace'
  <2>1. /\ sessions' = sessions \ Revoked(req[t].target)
        /\ banned' = banned \cup {req[t].target}
        /\ UNCHANGED <<origin, purged>>
    BY <1>4 DEF BanCommit
  <2>2. \A s \in sessions' : s \in sessions /\ s.user # req[t].target
    BY <2>1 DEF Revoked, SessionsOf
  <2> QED BY <1>0, <2>1, <2>2
<1>5. CASE /\ sessions' \subseteq sessions
           /\ banned' \subseteq banned
           /\ UNCHANGED <<origin, purged>>
  BY <1>0, <1>5
<1> QED BY <1>1, <1>2, <1>3, <1>4, <1>5, SessionSteps

\* A step that is neither part of a ban before its commit nor set_mod leaves
\* the roles and the bans under way as they are, or ends some of them.
LEMMA BanSteps ==
  ASSUME TypeOK, [Next]_vars
  PROVE  \/ \E t \in Tasks, me, u \in Users : BanUser(t, me, u)
         \/ \E t \in Tasks : CallerRole(t) \/ TargetRole(t) \/ BanInsert(t)
         \/ \E u \in Users : SetMod(u)
         \/ /\ UNCHANGED mods
            /\ \A p \in Tasks : pc'[p] \in {"target_role", "ban_insert", "ban_commit"} =>
                   pc'[p] = pc[p] /\ req'[p] = req[p]
<1> USE DEF accounts, tasks, Goto, Finish, Accept, TypeOK
<1> DEFINE Quiet == /\ UNCHANGED mods
                    /\ \A p \in Tasks :
                           pc'[p] \in {"target_role", "ban_insert", "ban_commit"} =>
                           pc'[p] = pc[p] /\ req'[p] = req[p]
<1>1. ASSUME NEW t \in Tasks, Receive(t), ~ \E me, u \in Users : BanUser(t, me, u) PROVE Quiet
  BY <1>1, ReceiveFact DEF Login, RefreshSession, ChangePassword
<1>2. ASSUME NEW t \in Tasks, BanCheck(t) PROVE Quiet
  <2>1. UNCHANGED mods
    BY <1>2 DEF BanCheck
  <2>2. CASE Finish(t)
    BY <2>1, <2>2
  <2>3. CASE pc' = [pc EXCEPT ![t] = "store"]
             /\ req' = [req EXCEPT ![t].checked = bans[req[t].user]]
    BY <2>1, <2>3
  <2> QED BY <1>2, <2>2, <2>3 DEF BanCheck
<1>3. ASSUME NEW t \in Tasks, NEW i \in SessionIds, StoreSession(t, i) PROVE Quiet
  BY <1>3 DEF StoreSession
<1>4. ASSUME NEW t \in Tasks, ExtendSession(t) PROVE Quiet
  BY <1>4 DEF ExtendSession
<1>5. ASSUME NEW t \in Tasks, SetPassword(t) PROVE Quiet
  BY <1>5 DEF SetPassword
<1>6. ASSUME NEW t \in Tasks, PurgeSessions(t) PROVE Quiet
  BY <1>6 DEF PurgeSessions
<1>7. ASSUME NEW t \in Tasks, BanCommit(t) PROVE Quiet
  BY <1>7 DEF BanCommit
<1>8. ASSUME NEW t \in Tasks, Fail(t) PROVE Quiet
  BY <1>8 DEF Fail
<1>9. ASSUME NEW s \in sessions, Connect(s) PROVE Quiet
  BY <1>9 DEF Connect
<1>10. ASSUME NEW u \in Users, Disconnect(u) \/ UnbanUser(u) PROVE Quiet
  BY <1>10 DEF Disconnect, UnbanUser
<1>11. ASSUME Tick \/ CleanSessions \/ Crash \/ UNCHANGED vars PROVE Quiet
  BY <1>11 DEF Tick, CleanSessions, Crash, vars
<1> HIDE DEF Quiet
<1>12. \/ Quiet
       \/ \E t \in Tasks, me, u \in Users : BanUser(t, me, u)
       \/ \E t \in Tasks : CallerRole(t) \/ TargetRole(t) \/ BanInsert(t)
       \/ \E u \in Users : SetMod(u)
  BY <1>1, <1>2, <1>3, <1>4, <1>5, <1>6, <1>7, <1>8, <1>9, <1>10, <1>11 DEF Next, Step
<1> QED BY <1>12 DEF Quiet

\* A ban goes on from each lookup only with the role it needs, and a change of
\* role marks every ban that has looked the role up.
LEMMA BansStep == ASSUME IInv, [Next]_vars PROVE CallersKnown' /\ BanEntitled'
<1> USE DEF CallersKnown, BanEntitled
<1>0. TypeOK /\ CallersKnown /\ BanEntitled
  BY DEF IInv
<1>1. ASSUME NEW t \in Tasks, NEW me \in Users, NEW u \in Users, BanUser(t, me, u)
      PROVE  CallersKnown' /\ BanEntitled'
  <2>1. /\ UNCHANGED mods
        /\ pc' = [pc EXCEPT ![t] = IF me = Admin THEN "ban_insert" ELSE "caller_role"]
        /\ req' = [req EXCEPT ![t] = [Ask(me) EXCEPT !.target = u]]
    BY <1>1 DEF BanUser, Accept, Goto, accounts
  <2>2. [Ask(me) EXCEPT !.target = u].user = me
    BY DEF Ask
  <2> QED BY <1>0, <2>1, <2>2 DEF TypeOK
<1>2. ASSUME NEW t \in Tasks, CallerRole(t) PROVE CallersKnown' /\ BanEntitled'
  <2>1. CASE Finish(t)
    BY <1>0, <1>2, <2>1 DEF CallerRole, CheckRole, Finish, Goto, TypeOK, accounts
  <2>2. CASE req[t].user \in mods /\ Goto(t, "target_role") /\ UNCHANGED req
    BY <1>0, <1>2, <2>2 DEF CallerRole, CheckRole, Goto, TypeOK, accounts
  <2> QED BY <1>2, <2>1, <2>2 DEF CallerRole, CheckRole
<1>3. ASSUME NEW t \in Tasks, TargetRole(t) PROVE CallersKnown' /\ BanEntitled'
  <2>1. CASE Finish(t)
    BY <1>0, <1>3, <2>1 DEF TargetRole, CheckRole, Finish, Goto, TypeOK, accounts
  <2>2. CASE req[t].target \notin mods /\ Goto(t, "ban_insert") /\ UNCHANGED req
    BY <1>0, <1>3, <2>2 DEF TargetRole, CheckRole, Goto, TypeOK, accounts
  <2> QED BY <1>3, <2>1, <2>2 DEF TargetRole, CheckRole
<1>4. ASSUME NEW t \in Tasks, BanInsert(t) PROVE CallersKnown' /\ BanEntitled'
  BY <1>0, <1>4 DEF BanInsert, Goto, TypeOK, accounts
<1>5. ASSUME NEW u \in Users, SetMod(u) PROVE CallersKnown' /\ BanEntitled'
  <2>1. /\ UNCHANGED pc
        /\ \A t \in Tasks : req'[t] = IF KnowsRole(t, u) THEN [req[t] EXCEPT !.turned = TRUE]
                                                        ELSE req[t]
        /\ \A v \in Users \ {u} : v \in mods' <=> v \in mods
    BY <1>5 DEF SetMod
  <2>2. ASSUME NEW t \in Tasks, pc[t] \in {"target_role", "ban_insert", "ban_commit"}
        PROVE  /\ req[t].user \in Users /\ req[t].target \in Users
               /\ req'[t].user = req[t].user /\ req'[t].target = req[t].target
               /\ req[t].turned => req'[t].turned
               /\ KnowsRole(t, u) => req'[t].turned
    <3>1. req[t] \in Request
      BY <1>0, <2>2 DEF TypeOK, Idle
    <3> QED BY <2>1, <3>1, TurnedFact DEF Request
  <2> QED BY <1>0, <2>1, <2>2 DEF KnowsRole
<1>6. CASE /\ UNCHANGED mods
           /\ \A p \in Tasks : pc'[p] \in {"target_role", "ban_insert", "ban_commit"} =>
                  pc'[p] = pc[p] /\ req'[p] = req[p]
  BY <1>0, <1>6
<1> QED BY <1>0, <1>1, <1>2, <1>3, <1>4, <1>5, <1>6, BanSteps

\* The strengthening is inductive.
THEOREM Invariance == Spec => []IInv
<1>1. Init => IInv
  BY InitInv
<1>2. IInv /\ [Next]_vars => IInv'
  <2> SUFFICES ASSUME IInv, [Next]_vars PROVE IInv'
    OBVIOUS
  <2>1. TypeOK
    BY DEF IInv
  <2> QED BY <2>1, TypeStep, PurgesStep, LoginsStep, RacesStep, BansStep DEF IInv
<1> QED BY <1>1, <1>2, PTL DEF Spec
-----------------------------------------------------------------------------
(* Theorems *)

\* Every variable keeps its type; in particular no two rows of the sessions
\* table share an id.
THEOREM TypeCorrect == Spec => []TypeOK
<1>1. IInv => TypeOK
  BY DEF IInv
<1> QED BY <1>1, Invariance, PTL

\* A ban leaves no session of the user but that of a login it overtook.
THEOREM BanRevokes == Spec => []BannedOnlyByRace
<1>1. IInv => BannedOnlyByRace
  BY DEF IInv
<1> QED BY <1>1, Invariance, PTL

\* A change of password leaves no older session but that of a login it
\* overtook.
THEOREM ChangeRevokes == Spec => []StaleOnlyByRace
<1>1. IInv => StaleOnlyByRace
  BY DEF IInv
<1> QED BY <1>1, Invariance, PTL
\* A mod is banned by the admin only, unless a role changed in the middle.
THEOREM BansEntitled == Spec => []BanEntitled
<1>1. IInv => BanEntitled
  BY DEF IInv
<1> QED BY <1>1, Invariance, PTL
-----------------------------------------------------------------------------
(* Action properties *)

\* The rows of the table change id by id: a step stores a session under an id
\* that was never issued, or it adds no id.
LEMMA IdsStep ==
  ASSUME IInv, [Next]_vars
  PROVE  \/ IdsOf(sessions') \subseteq IdsOf(sessions)
         \/ \E i \in SessionIds : /\ origin[i] = NoOrigin
                                  /\ IdsOf(sessions') = IdsOf(sessions) \cup {i}
<1>1. ASSUME NEW t \in Tasks, NEW i \in SessionIds, StoreSession(t, i)
      PROVE  origin[i] = NoOrigin /\ IdsOf(sessions') = IdsOf(sessions) \cup {i}
  <2> DEFINE s == [id |-> i, user |-> req[t].user, expires |-> stamp[t]]
  <2>1. sessions' = sessions \cup {s} /\ origin[i] = NoOrigin
    BY <1>1 DEF StoreSession
  <2>2. s.id = i
    OBVIOUS
  <2> HIDE DEF s
  <2> QED BY <2>1, <2>2 DEF IdsOf
<1>2. ASSUME NEW t \in Tasks, ExtendSession(t)
      PROVE  IdsOf(sessions') \subseteq IdsOf(sessions)
  <2>1. \A s \in sessions' : \E r \in sessions : r.id = s.id
    BY <1>2, ExtendedFact DEF ExtendSession, IInv
  <2> QED BY <2>1 DEF IdsOf
<1>3. ASSUME NEW t \in Tasks, PurgeSessions(t) \/ BanCommit(t)
      PROVE  sessions' \subseteq sessions
  BY <1>3 DEF PurgeSessions, BanCommit
<1>4. sessions' \subseteq sessions => IdsOf(sessions') \subseteq IdsOf(sessions)
  BY DEF IdsOf
<1> QED BY <1>1, <1>2, <1>3, <1>4, SessionSteps

\* An extension that was under way when its session was deleted cannot bring
\* it back, nor can anything else.
THEOREM NeverRestored == Spec => RevokedStaysRevoked
<1>1. IInv /\ [Next]_vars => [\A i \in SessionIds :
          origin[i] # NoOrigin /\ i \notin IdsOf(sessions) => i \notin IdsOf(sessions')]_vars
  BY IdsStep
<1> QED BY <1>1, Invariance, PTL DEF Spec, RevokedStaysRevoked

\* Only the purge of a change of password and the commit of a ban delete a
\* session that has not expired: the ticker and the middleware agree on when
\* it has, and an extension does not replace it.
THEOREM LiveKept == Spec => LiveSessionKept
<1> DEFINE Live == \A s \in sessions : now <= s.expires /\ s.id \notin IdsOf(sessions') =>
                     \E t \in Tasks : \/ pc[t] = "purge" /\ req[t].user = s.user
                                      \/ pc[t] = "ban_commit" /\ req[t].target = s.user
<1>1. ASSUME IInv, [Next]_vars PROVE Live
  <2> SUFFICES ASSUME NEW s \in sessions, now <= s.expires, s.id \notin IdsOf(sessions')
               PROVE  \E t \in Tasks : \/ pc[t] = "purge" /\ req[t].user = s.user
                                       \/ pc[t] = "ban_commit" /\ req[t].target = s.user
    OBVIOUS
  <2>1. s \notin sessions'
    BY DEF IdsOf
  <2>2. ASSUME NEW t \in Tasks, NEW i \in SessionIds, StoreSession(t, i) PROVE FALSE
    BY <2>1, <2>2 DEF StoreSession
  <2>3. ASSUME NEW t \in Tasks, ExtendSession(t) PROVE FALSE
    <3>1. \E r \in sessions' : s.id = r.id
      BY <1>1, <2>3, ExtendedFact DEF ExtendSession, IInv
    <3> QED BY <3>1 DEF IdsOf
  <2>4. ASSUME NEW t \in Tasks, PurgeSessions(t)
        PROVE  pc[t] = "purge" /\ req[t].user = s.user
    BY <2>1, <2>4 DEF PurgeSessions, Revoked, SessionsOf
  <2>5. ASSUME NEW t \in Tasks, BanCommit(t)
        PROVE  pc[t] = "ban_commit" /\ req[t].target = s.user
    BY <2>1, <2>5 DEF BanCommit, Revoked, SessionsOf
  <2>6. ASSUME CleanSessions PROVE FALSE
    <3>1. s.expires \in Int /\ now \in Int
      BY <1>1, SessionsAssumption DEF IInv, TypeOK, Session, Times
    <3> QED BY <2>1, <2>6, <3>1 DEF CleanSessions, Expired
  <2>7. UNCHANGED sessions \/ CleanSessions
        \/ (\E t \in Tasks, i \in SessionIds : StoreSession(t, i))
        \/ (\E t \in Tasks : ExtendSession(t) \/ PurgeSessions(t) \/ BanCommit(t))
    <3>1. ASSUME NEW t \in Tasks, Receive(t) PROVE UNCHANGED sessions
      BY <3>1, ReceiveFact DEF Login, RefreshSession, ChangePassword, BanUser
    <3>2. ASSUME NEW t \in Tasks, BanCheck(t) \/ SetPassword(t) \/ CallerRole(t)
                                   \/ TargetRole(t) \/ BanInsert(t) \/ Fail(t)
          PROVE  UNCHANGED sessions
      BY <3>2 DEF BanCheck, SetPassword, CallerRole, TargetRole, CheckRole, BanInsert, Fail
    <3>3. ASSUME NEW r \in sessions, Connect(r) PROVE UNCHANGED sessions
      BY <3>3 DEF Connect
    <3>4. ASSUME NEW u \in Users, Disconnect(u) \/ UnbanUser(u) \/ SetMod(u)
          PROVE  UNCHANGED sessions
      BY <3>4 DEF Disconnect, UnbanUser, SetMod
    <3>5. ASSUME Tick \/ Crash \/ UNCHANGED vars PROVE UNCHANGED sessions
      BY <3>5 DEF Tick, Crash, vars
    <3> QED BY <1>1, <3>1, <3>2, <3>3, <3>4, <3>5 DEF Next, Step
  <2> QED BY <2>1, <2>2, <2>3, <2>4, <2>5, <2>6, <2>7
<1>2. IInv /\ [Next]_vars => [Live]_vars
  BY <1>1
<1> QED BY <1>2, Invariance, PTL DEF Spec, LiveSessionKept
=============================================================================
