------------------------------ MODULE Sessions ------------------------------
(***************************************************************************)
(* Who may connect: logging in (login.rs), the middleware that admits a    *)
(* socket with a session cookie (auth_middlewear.rs), extending a session  *)
(* (auth.rs), the ticker that deletes expired sessions (main.rs), and the  *)
(* operations of the admin namespace that revoke sessions or roles         *)
(* (change_password, ban_user, unban_user and set_mod of admin.rs).        *)
(*                                                                         *)
(* A password is its version, a cookie its session id: the signature only  *)
(* says that the server made the id up.                                    *)
(***************************************************************************)
EXTENDS Integers, Database

CONSTANTS
    Users, Admin,
    SessionIds,
    LoginLife, RefreshLife,   \* one hour after a login, seven days after a refresh
    MaxTime, MaxChanges, MaxBans,   \* bounds: the clock, and for each user the changes of
                                    \* password and the bans
    NoId, NoRequest, NoOrigin

ASSUME SessionsAssumption ==
    /\ Admin \in Users
    /\ LoginLife \in Nat /\ RefreshLife \in Nat
    /\ MaxTime \in Nat
    /\ MaxChanges \in [Users -> Nat] /\ MaxBans \in [Users -> Nat]
    /\ NoId \notin SessionIds
    /\ NoOrigin \notin [verified: Nat, checked: Nat, storedAt: Nat, storedUnder: Nat]

VARIABLES
    password,   \* users.hashed_pw: the version of each user's password
    mods,       \* users.is_mod
    banned,     \* table banned_users
    sessions,   \* table sessions: expires_at of each session id, and its user
    online,     \* the users with a socket that the middleware let in
    now,        \* the clock
    pc,         \* what each task does next
    req,        \* the request it serves
    stamp,      \* the expires_at it has computed
    origin,     \* history: for each session id ever issued, what its login saw
    bans,       \* history: how often each user was banned
    purged      \* history: the password version of the last completed purge

accounts == <<password, mods, banned>>
tasks == <<pc, req, stamp>>
history == <<origin, bans, purged>>
vars == <<accounts, sessions, online, now, locks, tasks, history>>

Times == 0..(MaxTime + LoginLife + RefreshLife)
Session == [id: SessionIds, user: Users, expires: Times]
Origin == [verified: Nat, checked: Nat, storedAt: Nat, storedUnder: Nat]
Request == [user: Users, target: Users, id: SessionIds \cup {NoId},
            verified: Nat, checked: Nat,
            turned: BOOLEAN]   \* history: a role changed after the request looked it up

DbSteps == {"ban_check", "store", "extend", "set_password", "purge",
            "caller_role", "target_role", "ban_insert", "ban_commit"}
-----------------------------------------------------------------------------
SessionsOf(u) == {s \in sessions : s.user = u}
IdsOf(rows) == {s.id : s \in rows}

Idle(t) == pc[t] = "idle"
Goto(t, step) == pc' = [pc EXCEPT ![t] = step]

Ask(u) == [user |-> u, target |-> u, id |-> NoId, verified |-> 0, checked |-> 0,
           turned |-> FALSE]

Accept(t, step, r) == /\ Idle(t)
                      /\ Goto(t, step)
                      /\ req' = [req EXCEPT ![t] = r]

Finish(t) == /\ Goto(t, "idle")
             /\ req' = [req EXCEPT ![t] = NoRequest]
             /\ stamp' = [stamp EXCEPT ![t] = 0]

Init == /\ password = [u \in Users |-> 0]
        /\ mods = {}
        /\ banned = {}
        /\ sessions = {}
        /\ online = {}
        /\ now = 0
        /\ LocksInit
        /\ pc = [t \in Tasks |-> "idle"]
        /\ req = [t \in Tasks |-> NoRequest]
        /\ stamp = [t \in Tasks |-> 0]
        /\ origin = [i \in SessionIds |-> NoOrigin]
        /\ bans = [u \in Users |-> 0]
        /\ purged = [u \in Users |-> 0]
-----------------------------------------------------------------------------
(* login *)

\* SELECT of the user and verification of the password against the hash it
\* returned.  A wrong password ends the request and changes nothing.
Login(t, u) ==
    /\ Accept(t, "ban_check", [Ask(u) EXCEPT !.verified = password[u]])
    /\ UNCHANGED <<accounts, sessions, online, now, locks, stamp, history>>

\* Slip: the ban is not looked up.
BanCheckSkipped(t) ==
    /\ pc[t] = "ban_check"
    /\ req' = [req EXCEPT ![t].checked = bans[req[t].user]]
    /\ stamp' = [stamp EXCEPT ![t] = now + LoginLife]
    /\ Goto(t, "store")
    /\ UNCHANGED <<accounts, sessions, online, now, locks, history>>

\* SELECT FROM banned_users, then Session::new and the cookie.
BanCheck(t) ==
    /\ pc[t] = "ban_check"
    /\ \/ /\ req[t].user \in banned
          /\ Finish(t)
       \/ /\ req[t].user \notin banned
          /\ req' = [req EXCEPT ![t].checked = bans[req[t].user]]
          /\ stamp' = [stamp EXCEPT ![t] = now + LoginLife]
          /\ Goto(t, "store")
    /\ UNCHANGED <<accounts, sessions, online, now, locks, history>>

\* INSERT INTO sessions, under 16 random bytes that no session had before.
StoreSession(t, i) ==
    LET u == req[t].user IN
    /\ pc[t] = "store"
    /\ origin[i] = NoOrigin
    /\ sessions' = sessions \cup {[id |-> i, user |-> u, expires |-> stamp[t]]}
    /\ origin' = [origin EXCEPT ![i] = [verified |-> req[t].verified,
                                        checked |-> req[t].checked,
                                        storedAt |-> password[u],
                                        storedUnder |-> bans[u]]]
    /\ Autocommit(TRUE)
    /\ Finish(t)
    /\ UNCHANGED <<accounts, online, now, bans, purged>>
-----------------------------------------------------------------------------
(* auth_middlewear, disconnection, request_new_session *)

\* One SELECT decides; a client opens its namespaces together, and each socket
\* keeps its UserID for as long as it lives.
Connect(s) ==
    /\ s \in sessions
    /\ now <= s.expires
    /\ online' = online \cup {s.user}
    /\ UNCHANGED <<accounts, sessions, now, locks, tasks, history>>

Disconnect(u) ==
    /\ u \in online
    /\ online' = online \ {u}
    /\ UNCHANGED <<accounts, sessions, now, locks, tasks, history>>

\* SELECT of a session with expires_at > now, for a client whose socket in
\* /auth was let in.  The UserID put on that socket is read by no handler.
RefreshSession(t, s) ==
    /\ online # {}
    /\ s \in sessions
    /\ s.expires > now
    /\ Accept(t, "extend", [Ask(s.user) EXCEPT !.id = s.id])
    /\ stamp' = [stamp EXCEPT ![t] = now + RefreshLife]
    /\ UNCHANGED <<accounts, sessions, online, now, locks, history>>

\* Slip: INSERT OR REPLACE INTO sessions.
ExtendedOrInserted(t) ==
    {s \in sessions : s.id # req[t].id}
        \cup {[id |-> req[t].id, user |-> req[t].user, expires |-> stamp[t]]}

\* Slip: seven days are added to what was left.
ExtendedFurther(t) ==
    {IF s.id = req[t].id THEN [s EXCEPT !.expires = @ + RefreshLife] ELSE s :
       s \in sessions}

\* UPDATE sessions SET expires_at WHERE session_id
Extended(t) == {IF s.id = req[t].id THEN [s EXCEPT !.expires = stamp[t]] ELSE s :
                  s \in sessions}

\* Its errors are ignored.
ExtendSession(t) ==
    /\ pc[t] = "extend"
    /\ sessions' = Extended(t)
    /\ Autocommit(req[t].id \in IdsOf(sessions))
    /\ Finish(t)
    /\ UNCHANGED <<accounts, online, now, history>>
-----------------------------------------------------------------------------
(* The clock and spawn_ticker *)

Tick == /\ now < MaxTime
        /\ now' = now + 1
        /\ UNCHANGED <<accounts, sessions, online, locks, tasks, history>>

\* Slip: <= for <.
ExpiredAt(s) == s.expires <= now

\* DELETE FROM sessions WHERE expires_at < now
Expired(s) == s.expires < now

CleanSessions ==
    /\ \E s \in sessions : Expired(s)
    /\ sessions' = {s \in sessions : ~Expired(s)}
    /\ Autocommit(TRUE)
    /\ UNCHANGED <<accounts, online, now, tasks, history>>
-----------------------------------------------------------------------------
(* change_password *)

\* SELECT of the hash and verification of the old password, then the new hash.
ChangePassword(t, u) ==
    /\ u \in online
    /\ password[u] < MaxChanges[u]
    /\ Accept(t, "set_password", Ask(u))
    /\ UNCHANGED <<accounts, sessions, online, now, locks, stamp, history>>

\* UPDATE users SET hashed_pw
SetPassword(t) ==
    /\ pc[t] = "set_password"
    /\ password[req[t].user] < MaxChanges[req[t].user]
    /\ password' = [password EXCEPT ![req[t].user] = @ + 1]
    /\ Autocommit(TRUE)
    /\ Goto(t, "purge")
    /\ UNCHANGED <<mods, banned, sessions, online, now, req, stamp, history>>

\* Slip: only expired sessions are deleted.
RevokedExpired(u) == {s \in SessionsOf(u) : s.expires < now}

\* DELETE FROM sessions WHERE user_id, for a new password and for a ban
Revoked(u) == SessionsOf(u)

\* Whoever changed the password last, this deletes the sessions of its user.
PurgeSessions(t) ==
    /\ pc[t] = "purge"
    /\ sessions' = sessions \ Revoked(req[t].user)
    /\ purged' = [purged EXCEPT ![req[t].user] = password[req[t].user]]
    /\ Autocommit(SessionsOf(req[t].user) # {})
    /\ Finish(t)
    /\ UNCHANGED <<accounts, online, now, origin, bans>>
-----------------------------------------------------------------------------
(* ban_user, unban_user, set_mod *)

\* The checks that need no query: not the admin, not oneself.
BanUser(t, me, u) ==
    /\ me \in online
    /\ bans[u] < MaxBans[u]
    /\ u # Admin /\ u # me
    /\ Accept(t, IF me = Admin THEN "ban_insert" ELSE "caller_role",
              [Ask(me) EXCEPT !.target = u])
    /\ UNCHANGED <<accounts, sessions, online, now, locks, stamp, history>>

\* is_mod of the caller, who must be one, and of the target, who must not.
CheckRole(t, who, allowed, step) ==
    /\ \/ /\ (who \in mods) = allowed
          /\ Goto(t, step)
          /\ UNCHANGED <<req, stamp>>
       \/ /\ (who \in mods) # allowed
          /\ Finish(t)
    /\ UNCHANGED <<accounts, sessions, online, now, locks, history>>

CallerRole(t) == /\ pc[t] = "caller_role"
                 /\ CheckRole(t, req[t].user, TRUE, "target_role")

\* Slip: mods may ban mods.
TargetRoleIgnored(t) == /\ pc[t] = "target_role"
                        /\ Goto(t, "ban_insert")
                        /\ UNCHANGED <<accounts, sessions, online, now, locks, req, stamp, history>>

TargetRole(t) == /\ pc[t] = "target_role"
                 /\ CheckRole(t, req[t].target, FALSE, "ban_insert")

\* BEGIN and INSERT OR REPLACE INTO banned_users
BanInsert(t) ==
    /\ pc[t] = "ban_insert"
    /\ bans[req[t].target] < MaxBans[req[t].target]
    /\ writer = NoTask
    /\ Lock(t)
    /\ Goto(t, "ban_commit")
    /\ UNCHANGED <<accounts, sessions, online, now, req, stamp, history>>

\* DELETE FROM sessions in the same transaction, and COMMIT.
BanCommit(t) ==
    LET u == req[t].target IN
    /\ pc[t] = "ban_commit"
    /\ banned' = banned \cup {u}
    /\ sessions' = sessions \ Revoked(u)
    /\ bans' = [bans EXCEPT ![u] = @ + 1]
    /\ CommitWrites
    /\ Finish(t)
    /\ UNCHANGED <<password, mods, online, now, origin, purged>>

UnbanUser(u) ==
    /\ Admin \in online
    /\ u \in banned
    /\ banned' = banned \ {u}
    /\ Autocommit(TRUE)
    /\ UNCHANGED <<password, mods, sessions, online, now, tasks, history>>

\* A ban under way that has looked up the role of u, its caller or its target.
KnowsRole(t, u) ==
    \/ pc[t] \in {"target_role", "ban_insert", "ban_commit"} /\ req[t].user = u
    \/ pc[t] \in {"ban_insert", "ban_commit"} /\ req[t].target = u

SetMod(u) ==
    /\ Admin \in online
    /\ u # Admin
    /\ mods' = IF u \in mods THEN mods \ {u} ELSE mods \cup {u}
    /\ req' = [t \in Tasks |-> IF KnowsRole(t, u) THEN [req[t] EXCEPT !.turned = TRUE]
                                                 ELSE req[t]]
    /\ Autocommit(TRUE)
    /\ UNCHANGED <<password, banned, sessions, online, now, pc, stamp, history>>
-----------------------------------------------------------------------------
\* A statement fails.  change_password and request_new_session answer with
\* success all the same when their last statement is the one that fails.
Fail(t) == /\ pc[t] \in DbSteps
           /\ Rollback(t)
           /\ Finish(t)
           /\ UNCHANGED <<accounts, sessions, online, now, history>>

\* The process dies: sockets and tasks are gone, the tables stay.
Crash == /\ online # {} \/ \E t \in Tasks : ~Idle(t)
         /\ online' = {}
         /\ pc' = [t \in Tasks |-> "idle"]
         /\ req' = [t \in Tasks |-> NoRequest]
         /\ stamp' = [t \in Tasks |-> 0]
         /\ RollbackAll
         /\ UNCHANGED <<accounts, sessions, now, history>>

Receive(t) == \/ \E u \in Users : Login(t, u)
              \/ \E s \in sessions : RefreshSession(t, s)
              \/ \E u \in Users : ChangePassword(t, u)
              \/ \E me, u \in Users : BanUser(t, me, u)

Step(t) == \/ BanCheck(t)
           \/ \E i \in SessionIds : StoreSession(t, i)
           \/ ExtendSession(t)
           \/ SetPassword(t)
           \/ PurgeSessions(t)
           \/ CallerRole(t)
           \/ TargetRole(t)
           \/ BanInsert(t)
           \/ BanCommit(t)

Next == \/ \E t \in Tasks : Receive(t) \/ Step(t) \/ Fail(t)
        \/ \E s \in sessions : Connect(s)
        \/ \E u \in Users : Disconnect(u) \/ UnbanUser(u) \/ SetMod(u)
        \/ Tick
        \/ CleanSessions
        \/ Crash

Spec == Init /\ [][Next]_vars
-----------------------------------------------------------------------------
(* Properties *)

\* Every variable has its type, and a session id names one session.
TypeOK ==
    /\ password \in [Users -> Nat]
    /\ mods \subseteq Users
    /\ banned \subseteq Users
    /\ sessions \subseteq Session
    /\ \A s, r \in sessions : s.id = r.id => s = r
    /\ online \subseteq Users
    /\ now \in 0..MaxTime
    /\ LocksTypeOK
    /\ pc \in [Tasks -> DbSteps \cup {"idle"}]
    /\ req \in [Tasks -> Request \cup {NoRequest}]
    /\ \A t \in Tasks : ~Idle(t) => req[t] \in Request
    /\ stamp \in [Tasks -> Times]
    /\ origin \in [SessionIds -> Origin \cup {NoOrigin}]
    /\ \A s \in sessions : origin[s.id] \in Origin
    /\ bans \in [Users -> Nat]
    /\ purged \in [Users -> Nat]

\* A banned user has a session only where a login had looked up the ban before
\* it was committed and stored its session after: every other session is
\* deleted with the ban, and no later login, extension or unban brings it back.
BannedOnlyByRace ==
    \A s \in sessions : s.user \in banned =>
        origin[s.id].checked < origin[s.id].storedUnder

\* A session from before a completed change of password is one whose login had
\* verified the old password and stored its session after the change.
StaleOnlyByRace ==
    \A s \in sessions : origin[s.id].verified < purged[s.user] =>
        origin[s.id].verified < origin[s.id].storedAt

\* A deleted session never comes back: an extension that was under way when a
\* ban, a new password or the ticker deleted it changes nothing.
RevokedStaysRevoked ==
    [][\A i \in SessionIds : origin[i] # NoOrigin /\ i \notin IdsOf(sessions)
         => i \notin IdsOf(sessions')]_vars

\* A session the middleware would let in is deleted by a ban or a change of
\* password of its user only, never by the ticker.
LiveSessionKept ==
    [][\A s \in sessions : now <= s.expires /\ s.id \notin IdsOf(sessions') =>
         \E t \in Tasks : \/ pc[t] = "purge" /\ req[t].user = s.user
                          \/ pc[t] = "ban_commit" /\ req[t].target = s.user]_vars

\* Only the admin bans a mod, and only mods and the admin ban at all: a ban that
\* is about to be written is entitled by the roles of this moment, or one of them
\* changed after the request had looked it up.
BanEntitled ==
    \A t \in Tasks : pc[t] \in {"ban_insert", "ban_commit"} =>
        \/ req[t].user = Admin
        \/ req[t].user \in mods /\ req[t].target \notin mods
        \/ req[t].turned

\* No session belongs to a banned user: whoever is on the list cannot log in.
BannedCannotLogIn == \A s \in sessions : s.user \notin banned

\* Once change_password has deleted a user's sessions, every session of the
\* user comes from a login with the new password.
NewPasswordOnly == \A s \in sessions : origin[s.id].verified >= purged[s.user]
=============================================================================
