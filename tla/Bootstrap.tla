----------------------------- MODULE Bootstrap -----------------------------
(***************************************************************************)
(* How a server comes to have an admin and a message key, and keeps them   *)
(* over restarts: registration (register.rs), AdminId (permissions.rs),    *)
(* the ADMIN_USER_ID line of .env (admin.rs), the start of main.rs and the *)
(* key file (message_crypto.rs).  Registrations run on the threads of one  *)
(* tokio runtime: is_unset and set take the lock of AdminId one after the  *)
(* other, and writeln! appends the line to .env in three writes, so two    *)
(* first registrations may interleave in either place.                     *)
(***************************************************************************)
EXTENDS Integers, Sequences

CONSTANTS
    Users, Names,     \* the ids and the usernames of registrations
    Tasks,            \* the registrations that may run at once
    Keys,             \* the keys generate_key may return
    EnvFiles,         \* what .env may hold of ADMIN_USER_ID at first
    Key, NewLine,     \* the pieces "ADMIN_USER_ID=" and "\n"
    NoUser, NoKey, Torn, NoRequest,
    MaxBoots          \* bound: how often the server is started

ASSUME BootstrapAssumption ==
    /\ Key # NewLine
    /\ {Key, NewLine, NoUser} \cap Users = {}
    /\ {NoKey, Torn} \cap Keys = {}
    /\ NoKey # Torn
    /\ EnvFiles \subseteq Seq({Key, NewLine})
    /\ MaxBoots \in Nat

VARIABLES
    users,      \* table users: id and username of each row
    env,        \* the ADMIN_USER_ID part of .env
    keyFile,    \* data/message.key: NoKey, Torn or a whole key
    sealed,     \* the keys the stored messages are encrypted with
    phase,      \* how far main has come
    admin,      \* AdminId
    cipher,     \* the key MessageCrypto holds
    pc, req,    \* the registrations
    first,      \* history: the first user committed
    disturbed,  \* history: another user came before the promotion of the
                \* first, or it was cut short
    raced,      \* history: two tasks found AdminId unset at once
    boots

disk == <<users, env, keyFile, sealed>>
server == <<phase, admin, cipher>>
tasks == <<pc, req>>
history == <<first, disturbed, raced>>
vars == <<disk, server, tasks, history, boots>>

Piece == Users \cup {Key, NewLine}
Ids == {r.id : r \in users}
UserNames == {r.name : r \in users}
-----------------------------------------------------------------------------
(* What dotenv makes of the file *)

LineStart(f, i) == i = 1 \/ f[i - 1] = NewLine

\* A line is empty or has a key and an `=`; a bare id is an error.
Parses(f) == \A i \in DOMAIN f : LineStart(f, i) => f[i] \in {Key, NewLine}

AdminLines(f) == {i \in DOMAIN f : LineStart(f, i) /\ f[i] = Key}

\* A variable that is set already keeps its value: the first line counts.
Counts(f, i) == i \in AdminLines(f) /\ \A j \in AdminLines(f) : i <= j

\* Slip: the value up to the length of an id.
ValuePrefix(f, i) == IF i + 1 \in DOMAIN f THEN f[i + 1] ELSE NoUser

\* The rest of the line is one id, or Uuid::parse_str refuses it.
Value(f, i) == IF /\ i + 1 \in DOMAIN f
                  /\ f[i + 1] \in Users
                  /\ i + 2 \in DOMAIN f => f[i + 2] = NewLine
               THEN f[i + 1] ELSE NoUser

\* load_admin_from_env
Loaded(f) == IF AdminLines(f) = {} THEN NoUser
             ELSE Value(f, CHOOSE i \in DOMAIN f : Counts(f, i))
-----------------------------------------------------------------------------
Init == /\ users = {}
        /\ env \in EnvFiles
        /\ keyFile = NoKey
        /\ sealed = {}
        /\ phase = "down"
        /\ admin = NoUser
        /\ cipher = NoKey
        /\ pc = [t \in Tasks |-> "idle"]
        /\ req = [t \in Tasks |-> NoRequest]
        /\ first = NoUser
        /\ disturbed = (env # <<>>)
        /\ raced = FALSE
        /\ boots = 0
-----------------------------------------------------------------------------
(* main: dotenv, load_admin_from_env, then load_or_create *)

\* With a line it cannot parse in .env, main returns the error of dotenv.
Start == /\ phase = "down"
         /\ boots < MaxBoots
         /\ Parses(env)
         /\ phase' = "key"
         /\ admin' = Loaded(env)
         /\ boots' = boots + 1
         /\ UNCHANGED <<disk, cipher, tasks, history>>

LoadKey == /\ phase = "key"
           /\ keyFile \in Keys
           /\ cipher' = keyFile
           /\ phase' = "serving"
           /\ UNCHANGED <<disk, admin, tasks, history, boots>>

\* KeyfileSize: main returns, and so does every later start.
RefuseKey == /\ phase = "key"
             /\ keyFile = Torn
             /\ phase' = "down"
             /\ admin' = NoUser
             /\ UNCHANGED <<disk, cipher, tasks, history, boots>>

\* Slip: the existence of the file not asked.
CreateKeyAlways == /\ phase = "key"
                   /\ cipher' \in Keys \ sealed
                   /\ keyFile' = Torn
                   /\ phase' = "write_key"
                   /\ UNCHANGED <<users, env, sealed, admin, tasks, history, boots>>

\* generate_key, and fs::write opens and truncates the file.
CreateKey == /\ phase = "key"
             /\ keyFile = NoKey
             /\ cipher' \in Keys \ sealed
             /\ keyFile' = Torn
             /\ phase' = "write_key"
             /\ UNCHANGED <<users, env, sealed, admin, tasks, history, boots>>

WriteKey == /\ phase = "write_key"
            /\ keyFile' = cipher
            /\ phase' = "serving"
            /\ UNCHANGED <<users, env, sealed, admin, cipher, tasks, history, boots>>

\* A text message is stored: encrypt.
SealMessage == /\ phase = "serving"
               /\ sealed' = sealed \cup {cipher}
               /\ UNCHANGED <<users, env, keyFile, server, tasks, history, boots>>
-----------------------------------------------------------------------------
(* register *)

Goto(t, step) == pc' = [pc EXCEPT ![t] = step]
Finish(t) == Goto(t, "idle") /\ req' = [req EXCEPT ![t] = NoRequest]

\* Uuid::new_v4 is taken to be new.
Register(t, u, n) ==
    /\ phase = "serving"
    /\ pc[t] = "idle"
    /\ u \notin Ids
    /\ \A s \in Tasks : pc[s] # "idle" => req[s].id # u
    /\ Goto(t, "insert")
    /\ req' = [req EXCEPT ![t] = [id |-> u, name |-> n]]
    /\ UNCHANGED <<disk, server, history, boots>>

Persisting == {"put_key", "put_id", "put_newline"}

\* The first user is committed and not yet the admin, or not yet in .env.
Unpromoted == \E t \in Tasks : pc[t] \in {"check", "set"} /\ req[t].id = first
Unpersisted(t) == /\ pc[t] \in {"check", "set", "put_key", "put_id"}
                  /\ req[t].id = first

\* Slip: the promotion before the answer of the INSERT.
InsertIgnored(t) ==
    /\ pc[t] = "insert"
    /\ users' = IF req[t].name \in UserNames THEN users ELSE users \cup {req[t]}
    /\ first' = IF first = NoUser THEN req[t].id ELSE first
    /\ disturbed' = (disturbed \/ Unpromoted)
    /\ Goto(t, "check")
    /\ UNCHANGED <<env, keyFile, sealed, server, req, raced, boots>>

\* The INSERT, which a taken username or a database error refuses.
InsertUser(t) ==
    /\ pc[t] = "insert"
    /\ \/ /\ req[t].name \notin UserNames
          /\ users' = users \cup {req[t]}
          /\ first' = IF first = NoUser THEN req[t].id ELSE first
          /\ disturbed' = (disturbed \/ Unpromoted)
          /\ Goto(t, "check")
          /\ UNCHANGED req
       \/ /\ Finish(t)
          /\ UNCHANGED <<users, first, disturbed>>
    /\ UNCHANGED <<env, keyFile, sealed, server, raced, boots>>

\* Slip: every new user promoted.
CheckNothing(t) ==
    /\ pc[t] = "check"
    /\ Goto(t, "set")
    /\ UNCHANGED <<disk, server, req, history, boots>>

\* admin.is_unset()
CheckUnset(t) ==
    /\ pc[t] = "check"
    /\ \/ /\ admin = NoUser
          /\ Goto(t, "set")
          /\ raced' = (raced \/ \E s \in Tasks : pc[s] = "set")
          /\ UNCHANGED req
       \/ /\ admin # NoUser
          /\ Finish(t)
          /\ UNCHANGED raced
    /\ UNCHANGED <<disk, server, first, disturbed, boots>>

\* Slip: the id written to .env and not to AdminId.
SetNothing(t) ==
    /\ pc[t] = "set"
    /\ Goto(t, "put_key")
    /\ UNCHANGED <<disk, server, req, history, boots>>

\* admin.set(user_uuid)
SetAdmin(t) ==
    /\ pc[t] = "set"
    /\ admin' = req[t].id
    /\ Goto(t, "put_key")
    /\ UNCHANGED <<disk, phase, cipher, req, history, boots>>

\* One write of writeln! on a file opened for appending.
Put(t, from, piece) ==
    /\ pc[t] = from
    /\ env' = Append(env, piece)
    /\ UNCHANGED <<users, keyFile, sealed, server, history, boots>>

PutKey(t) == Put(t, "put_key", Key) /\ Goto(t, "put_id") /\ UNCHANGED req
PutId(t) == Put(t, "put_id", req[t].id) /\ Goto(t, "put_newline") /\ UNCHANGED req
PutNewLine(t) == Put(t, "put_newline", NewLine) /\ Finish(t)

\* .env cannot be opened or written: that is logged, and no more.
PersistFails(t) ==
    /\ pc[t] \in Persisting
    /\ disturbed' = (disturbed \/ Unpersisted(t))
    /\ Finish(t)
    /\ UNCHANGED <<disk, server, first, raced, boots>>
-----------------------------------------------------------------------------
\* The process ends, at the will of its operator or not.
Stop == /\ phase # "down"
        /\ phase' = "down"
        /\ admin' = NoUser
        /\ cipher' = NoKey
        /\ disturbed' = (disturbed \/ \E t \in Tasks : Unpersisted(t))
        /\ pc' = [t \in Tasks |-> "idle"]
        /\ req' = [t \in Tasks |-> NoRequest]
        /\ UNCHANGED <<disk, first, raced, boots>>

\* The operator removes a key file no server will start with.
RemoveTornKey == /\ phase = "down"
                 /\ keyFile = Torn
                 /\ keyFile' = NoKey
                 /\ UNCHANGED <<users, env, sealed, server, tasks, history, boots>>
-----------------------------------------------------------------------------
Boot == Start \/ LoadKey \/ RefuseKey \/ CreateKey \/ WriteKey

Step(t) == \/ InsertUser(t)
           \/ CheckUnset(t)
           \/ SetAdmin(t)
           \/ PutKey(t)
           \/ PutId(t)
           \/ PutNewLine(t)
           \/ PersistFails(t)

Next == \/ Boot
        \/ SealMessage
        \/ \E t \in Tasks : \/ \E u \in Users, n \in Names : Register(t, u, n)
                            \/ Step(t)
        \/ Stop
        \/ RemoveTornKey

Spec == Init /\ [][Next]_vars
-----------------------------------------------------------------------------
(* Properties *)

Request == [id: Users, name: Names]

\* Every variable has its type.
TypeOK ==
    /\ users \subseteq Request
    /\ env \in Seq(Piece)
    /\ keyFile \in Keys \cup {NoKey, Torn}
    /\ sealed \subseteq Keys
    /\ phase \in {"down", "key", "write_key", "serving"}
    /\ admin \in Users \cup {NoUser}
    /\ cipher \in Keys \cup {NoKey}
    /\ pc \in [Tasks -> {"idle", "insert", "check", "set"} \cup Persisting]
    /\ req \in [Tasks -> Request \cup {NoRequest}]
    /\ \A t \in Tasks : pc[t] # "idle" => req[t] \in Request
    /\ first \in Users \cup {NoUser}
    /\ disturbed \in BOOLEAN
    /\ raced \in BOOLEAN
    /\ boots \in 0..MaxBoots

\* Whoever the server takes for its admin has an account, whatever the races
\* of registrations and the cuts of .env, in this run and after a restart.
AdminHasAccount == admin # NoUser => admin \in Ids

\* No task is on its way from the INSERT of the first user to its promotion.
Settled == phase = "serving" /\ first # NoUser /\ ~Unpromoted

\* The first user is the admin of every run of the server, unless .env had a
\* blank line for it, a second user was committed before the promotion, or
\* the promotion was cut short before the id was in .env.
FirstStaysAdmin == Settled /\ ~disturbed => admin = first

\* .env can be loaded again whatever was cut short, unless two tasks found
\* AdminId unset at once.
EnvStaysLoadable == ~raced => Parses(env)

\* The messages on disk are all of the key on disk, and a serving server
\* holds that key: a start never replaces the key of a message.
MessagesReadable ==
    /\ sealed \subseteq {keyFile}
    /\ phase = "serving" => cipher = keyFile

\* What readme.md says: the first user that is created is the admin.
FirstUserIsAdmin == Settled => admin = first
=============================================================================
