-------------------------- MODULE BootstrapProofs --------------------------
(***************************************************************************)
(* Theorems about Bootstrap, for every number of users, names, tasks and   *)
(* keys and every number of starts.                                        *)
(***************************************************************************)
EXTENDS Bootstrap, SequenceTheorems, TLAPS

\* Whose id a task or .env holds after the INSERT has an account.
IdsHaveAccounts ==
    /\ \A t \in Tasks : pc[t] \in {"check", "set"} \cup Persisting => req[t] \in users
    /\ \A i \in DOMAIN env : env[i] \in Users => env[i] \in Ids

\* What the phases say of the key: no message is stored before its key is.
KeyPhases ==
    /\ phase \in {"write_key", "serving"} => cipher \in Keys
    /\ phase = "write_key" => keyFile = Torn
    /\ phase = "serving" => keyFile \in Keys

\* Only a serving server has registrations under way.
Working == \A t \in Tasks : pc[t] # "idle" => phase = "serving"

Writing == {"set"} \cup Persisting

\* One task writes .env, after it became the admin of this run.
OneWriter ==
    /\ \A s, t \in Tasks : pc[s] \in Writing /\ pc[t] \in Writing => s = t
    /\ \A t \in Tasks : pc[t] \in Persisting => admin # NoUser
    /\ \A t \in Tasks : pc[t] = "put_id" =>
          env # <<>> /\ env[Len(env)] = Key

\* An id is of one registration, and has no account before its INSERT.
IdsAreNew ==
    /\ \A s, t \in Tasks :
          (pc[s] # "idle" /\ pc[t] # "idle" /\ req[s].id = req[t].id) => s = t
    /\ \A t \in Tasks : pc[t] = "insert" => req[t].id \notin Ids
    /\ first # NoUser => first \in Ids

\* Nobody has registered, and nothing has begun.
Before == /\ users = {} /\ env = <<>> /\ admin = NoUser
          /\ \A t \in Tasks : pc[t] \in {"idle", "insert"}

\* The promotion of the first user, step by step.
Promotion ==
    /\ \A t \in Tasks :
         /\ pc[t] \in Writing => req[t].id = first
         /\ pc[t] = "check" /\ req[t].id # first => admin = first
         /\ pc[t] = "put_key" => env = <<>>
         /\ pc[t] = "put_id" => env = <<Key>>
         /\ pc[t] = "put_newline" => env = <<Key, first>>
    /\ Unpromoted => admin = NoUser /\ env = <<>>
    /\ ~Unpromoted /\ phase # "down" => admin = first
    /\ (\A t \in Tasks : ~Unpersisted(t)) =>
          env \in {<<Key, first>>, <<Key, first, NewLine>>}

Undisturbed == ~disturbed => IF first = NoUser THEN Before ELSE Promotion

IInv == /\ TypeOK
        /\ AdminHasAccount
        /\ IdsHaveAccounts
        /\ MessagesReadable
        /\ KeyPhases
        /\ Working
-----------------------------------------------------------------------------
\* What the assumptions on the constants say of their members.
LEMMA ConstantFact ==
  /\ Key # NewLine /\ Key \notin Users /\ NewLine \notin Users /\ NoUser \notin Users
  /\ NoKey \notin Keys /\ Torn \notin Keys /\ NoKey # Torn
BY BootstrapAssumption

\* One piece more at the end of .env.
LEMMA AppendFact ==
  ASSUME NEW f \in Seq(Piece), NEW p \in Piece
  PROVE  /\ Append(f, p) \in Seq(Piece)
         /\ Len(Append(f, p)) = Len(f) + 1
         /\ DOMAIN Append(f, p) = 1..(Len(f) + 1)
         /\ DOMAIN f = 1..Len(f) /\ Len(f) \in Nat
         /\ \A i \in 1..Len(f) : Append(f, p)[i] = f[i]
         /\ Append(f, p)[Len(f) + 1] = p
BY AppendProperties

\* The pieces of the line one after the other.
LEMMA LineFact ==
  ASSUME NEW a \in Piece, NEW b \in Piece, NEW c \in Piece
  PROVE  Append(<<a>>, b) = <<a, b>> /\ Append(<<a, b>>, c) = <<a, b, c>>
<1>1. Append(<<a>>, b) = <<a, b>>
  <2>1. /\ <<a>> \in Seq(Piece) /\ Len(<<a>>) = 1 /\ <<a>>[1] = a
        /\ <<a, b>> \in Seq(Piece) /\ Len(<<a, b>>) = 2 /\ <<a, b>>[1] = a /\ <<a, b>>[2] = b
    OBVIOUS
  <2>2. /\ Append(<<a>>, b) \in Seq(Piece) /\ Len(Append(<<a>>, b)) = 2
        /\ Append(<<a>>, b)[1] = a /\ Append(<<a>>, b)[2] = b
    BY <2>1, AppendProperties
  <2> DEFINE s == Append(<<a>>, b)
             r == <<a, b>>
  <2>3. s \in Seq(Piece) /\ r \in Seq(Piece) /\ Len(s) = Len(r)
    BY <2>1, <2>2
  <2>4. \A i \in 1..Len(s) : s[i] = r[i]
    BY <2>1, <2>2
  <2> HIDE DEF s, r
  <2>5. s = r
    BY <2>3, <2>4, SeqEqual
  <2> QED BY <2>5 DEF s, r
<1>2. Append(<<a, b>>, c) = <<a, b, c>>
  <2>1. /\ <<a, b>> \in Seq(Piece) /\ Len(<<a, b>>) = 2 /\ <<a, b>>[1] = a /\ <<a, b>>[2] = b
        /\ <<a, b, c>> \in Seq(Piece) /\ Len(<<a, b, c>>) = 3
        /\ <<a, b, c>>[1] = a /\ <<a, b, c>>[2] = b /\ <<a, b, c>>[3] = c
    OBVIOUS
  <2>2. /\ Append(<<a, b>>, c) \in Seq(Piece) /\ Len(Append(<<a, b>>, c)) = 3
        /\ Append(<<a, b>>, c)[1] = a /\ Append(<<a, b>>, c)[2] = b
        /\ Append(<<a, b>>, c)[3] = c
    BY <2>1, AppendProperties
  <2> DEFINE s == Append(<<a, b>>, c)
             r == <<a, b, c>>
  <2>3. s \in Seq(Piece) /\ r \in Seq(Piece) /\ Len(s) = Len(r)
    BY <2>1, <2>2
  <2>4. \A i \in 1..Len(s) : s[i] = r[i]
    BY <2>1, <2>2
  <2> HIDE DEF s, r
  <2>5. s = r
    BY <2>3, <2>4, SeqEqual
  <2> QED BY <2>5 DEF s, r
<1> QED BY <1>1, <1>2

\* The admin that is read from .env is one of the ids in it.
LEMMA LoadedFact ==
  ASSUME NEW f
  PROVE  Loaded(f) = NoUser \/ \E i \in DOMAIN f : Loaded(f) = f[i] /\ f[i] \in Users
<1> DEFINE i == CHOOSE i \in DOMAIN f : Counts(f, i)
<1>1. CASE AdminLines(f) = {}
  BY <1>1 DEF Loaded
<1>2. CASE AdminLines(f) # {}
  <2>1. Loaded(f) = Value(f, i)
    BY <1>2 DEF Loaded
  <2>2. Value(f, i) = NoUser \/ (i + 1 \in DOMAIN f /\ Value(f, i) = f[i + 1] /\ f[i + 1] \in Users)
    BY DEF Value
  <2> QED BY <2>1, <2>2
<1> QED BY <1>1, <1>2

\* One write to .env adds one piece and moves its task on.
LEMMA PutFact ==
  ASSUME NEW t \in Tasks, Step(t)
  PROVE  \/ InsertUser(t) \/ CheckUnset(t) \/ SetAdmin(t)
         \/ PutKey(t) \/ PutId(t) \/ PutNewLine(t) \/ PersistFails(t)
BY DEF Step

\* A step is one of the start, of a registration or of the operator.
LEMMA NextFact ==
  ASSUME Next
  PROVE  \/ Boot \/ SealMessage \/ Stop \/ RemoveTornKey
         \/ \E t \in Tasks, u \in Users, n \in Names : Register(t, u, n)
         \/ \E t \in Tasks : Step(t)
BY DEF Next

\* Every step keeps the types; a message is stored under a whole key.
LEMMA TypeStep ==
  ASSUME TypeOK, KeyPhases, [Next]_vars
  PROVE  TypeOK'
<1> USE BootstrapAssumption
    DEF TypeOK, Goto, Finish, Persisting, disk, server, tasks, history
<1>1. CASE Boot
  <2>1. Loaded(env) \in Users \cup {NoUser}
    BY LoadedFact
  <2>2. CASE Start
    BY <2>1, <2>2 DEF Start
  <2>3. CASE LoadKey
    BY <2>3 DEF LoadKey
  <2>4. CASE RefuseKey
    BY <2>4 DEF RefuseKey
  <2>5. CASE CreateKey
    BY <2>5 DEF CreateKey
  <2>6. CASE WriteKey
    BY <2>6 DEF WriteKey
  <2> QED BY <1>1, <2>2, <2>3, <2>4, <2>5, <2>6 DEF Boot
<1>2. CASE SealMessage
  BY <1>2 DEF SealMessage, KeyPhases
<1>3. ASSUME NEW t \in Tasks, NEW u \in Users, NEW n \in Names, Register(t, u, n)
      PROVE  TypeOK'
  BY <1>3 DEF Register, Request
<1>4. ASSUME NEW t \in Tasks, Step(t)
      PROVE  TypeOK'
  <2>1. CASE InsertUser(t)
    <3>1. req[t] \in Request /\ req[t].id \in Users
      BY <2>1 DEF InsertUser, Request
    <3> QED BY <2>1, <3>1 DEF InsertUser
  <2>2. CASE CheckUnset(t)
    BY <2>2 DEF CheckUnset
  <2>3. CASE SetAdmin(t)
    <3>1. req[t] \in Request /\ req[t].id \in Users
      BY <2>3 DEF SetAdmin, Request
    <3> QED BY <2>3, <3>1 DEF SetAdmin
  <2>4. CASE PutKey(t)
    <3>1. Append(env, Key) \in Seq(Piece)
      BY AppendFact DEF Piece
    <3> QED BY <2>4, <3>1 DEF PutKey, Put
  <2>5. CASE PutId(t)
    <3>1. req[t].id \in Piece
      BY <2>5 DEF PutId, Put, Request, Piece
    <3>2. Append(env, req[t].id) \in Seq(Piece)
      BY <3>1, AppendFact
    <3> QED BY <2>5, <3>2 DEF PutId, Put
  <2>6. CASE PutNewLine(t)
    <3>1. Append(env, NewLine) \in Seq(Piece)
      BY AppendFact DEF Piece
    <3> QED BY <2>6, <3>1 DEF PutNewLine, Put
  <2>7. CASE PersistFails(t)
    BY <2>7 DEF PersistFails
  <2> QED BY <1>4, <2>1, <2>2, <2>3, <2>4, <2>5, <2>6, <2>7, PutFact
<1>5. CASE Stop
  BY <1>5 DEF Stop
<1>6. CASE RemoveTornKey
  BY <1>6 DEF RemoveTornKey
<1>7. CASE UNCHANGED vars
  BY <1>7 DEF vars
<1> QED BY <1>1, <1>2, <1>3, <1>4, <1>5, <1>6, <1>7, NextFact

\* The key on disk and the key of the messages stay one.
LEMMA KeyStep ==
  ASSUME TypeOK, MessagesReadable, KeyPhases, [Next]_vars
  PROVE  MessagesReadable' /\ KeyPhases'
<1> USE ConstantFact DEF TypeOK, MessagesReadable, KeyPhases, disk, server, tasks, history
<1>1. CASE Boot
  <2>1. CASE Start
    BY <2>1 DEF Start
  <2>2. CASE LoadKey
    BY <2>2 DEF LoadKey
  <2>3. CASE RefuseKey
    BY <2>3 DEF RefuseKey
  <2>4. CASE CreateKey
    <3>1. sealed = {}
      BY <2>4 DEF CreateKey
    <3> QED BY <2>4, <3>1 DEF CreateKey
  <2>5. CASE WriteKey
    <3>1. sealed = {}
      BY <2>5 DEF WriteKey
    <3> QED BY <2>5, <3>1 DEF WriteKey
  <2> QED BY <1>1, <2>1, <2>2, <2>3, <2>4, <2>5 DEF Boot
<1>2. CASE SealMessage
  BY <1>2 DEF SealMessage
<1>3. ASSUME NEW t \in Tasks, NEW u \in Users, NEW n \in Names, Register(t, u, n)
      PROVE  MessagesReadable' /\ KeyPhases'
  BY <1>3 DEF Register
<1>4. ASSUME NEW t \in Tasks, Step(t)
      PROVE  MessagesReadable' /\ KeyPhases'
  <2>1. UNCHANGED <<keyFile, sealed, phase, cipher>>
    <3>1. CASE InsertUser(t)
      BY <3>1 DEF InsertUser
    <3>2. CASE CheckUnset(t)
      BY <3>2 DEF CheckUnset
    <3>3. CASE SetAdmin(t)
      BY <3>3 DEF SetAdmin
    <3>4. CASE PutKey(t) \/ PutId(t) \/ PutNewLine(t)
      BY <3>4 DEF PutKey, PutId, PutNewLine, Put
    <3>5. CASE PersistFails(t)
      BY <3>5 DEF PersistFails
    <3> QED BY <1>4, <3>1, <3>2, <3>3, <3>4, <3>5, PutFact
  <2> QED BY <2>1
<1>5. CASE Stop
  BY <1>5 DEF Stop
<1>6. CASE RemoveTornKey
  <2>1. sealed = {}
    BY <1>6 DEF RemoveTornKey
  <2> QED BY <1>6, <2>1 DEF RemoveTornKey
<1>7. CASE UNCHANGED vars
  BY <1>7 DEF vars
<1> QED BY <1>1, <1>2, <1>3, <1>4, <1>5, <1>6, <1>7, NextFact

\* Ids reach AdminId and .env from committed rows only, and rows stay.
LEMMA AccountStep ==
  ASSUME TypeOK, AdminHasAccount, IdsHaveAccounts, [Next]_vars
  PROVE  AdminHasAccount' /\ IdsHaveAccounts'
<1> USE ConstantFact DEF TypeOK, AdminHasAccount, IdsHaveAccounts, Ids, Persisting,
      Goto, Finish, disk, server, tasks, history
<1>1. CASE Boot
  <2>1. CASE Start
    BY <2>1, LoadedFact DEF Start
  <2>2. CASE LoadKey
    BY <2>2 DEF LoadKey
  <2>3. CASE RefuseKey
    BY <2>3 DEF RefuseKey
  <2>4. CASE CreateKey
    BY <2>4 DEF CreateKey
  <2>5. CASE WriteKey
    BY <2>5 DEF WriteKey
  <2> QED BY <1>1, <2>1, <2>2, <2>3, <2>4, <2>5 DEF Boot
<1>2. CASE SealMessage
  BY <1>2 DEF SealMessage
<1>3. ASSUME NEW t \in Tasks, NEW u \in Users, NEW n \in Names, Register(t, u, n)
      PROVE  AdminHasAccount' /\ IdsHaveAccounts'
  BY <1>3 DEF Register
<1>4. ASSUME NEW t \in Tasks, Step(t)
      PROVE  AdminHasAccount' /\ IdsHaveAccounts'
  <2>1. CASE InsertUser(t)
    <3>1. CASE users' = users /\ Finish(t) /\ UNCHANGED <<env, admin>>
      BY <3>1
    <3>2. CASE /\ users' = users \cup {req[t]} /\ Goto(t, "check")
               /\ UNCHANGED <<env, admin, req>>
      BY <3>2
    <3> QED BY <2>1, <3>1, <3>2 DEF InsertUser
  <2>2. CASE CheckUnset(t)
    BY <2>2 DEF CheckUnset
  <2>3. CASE SetAdmin(t)
    BY <2>3 DEF SetAdmin
  <2>4. CASE PutKey(t)
    <3>1. /\ DOMAIN env' = 1..(Len(env) + 1) /\ DOMAIN env = 1..Len(env)
          /\ \A i \in 1..Len(env) : env'[i] = env[i]
          /\ env'[Len(env) + 1] = Key /\ Len(env) \in Nat
      BY <2>4, AppendFact DEF PutKey, Put, Piece
    <3>2. /\ pc' = [pc EXCEPT ![t] = "put_id"] /\ pc[t] = "put_key"
          /\ UNCHANGED <<users, req, admin>>
      BY <2>4 DEF PutKey, Put
    <3>3. \A i \in DOMAIN env' : env'[i] \in Users => i \in DOMAIN env /\ env'[i] = env[i]
      BY <3>1
    <3> QED BY <3>2, <3>3
  <2>5. CASE PutId(t)
    <3>1. req[t] \in users /\ req[t].id \in Users
      BY <2>5 DEF PutId, Put, Request
    <3>2. /\ DOMAIN env' = 1..(Len(env) + 1) /\ DOMAIN env = 1..Len(env)
          /\ \A i \in 1..Len(env) : env'[i] = env[i]
          /\ env'[Len(env) + 1] = req[t].id /\ Len(env) \in Nat
      BY <2>5, <3>1, AppendFact DEF PutId, Put, Piece
    <3>3. /\ pc' = [pc EXCEPT ![t] = "put_newline"] /\ pc[t] = "put_id"
          /\ UNCHANGED <<users, req, admin>>
      BY <2>5 DEF PutId, Put
    <3>4. \A i \in DOMAIN env' : env'[i] = req[t].id \/ (i \in DOMAIN env /\ env'[i] = env[i])
      BY <3>2
    <3> QED BY <3>1, <3>3, <3>4
  <2>6. CASE PutNewLine(t)
    <3>1. /\ DOMAIN env' = 1..(Len(env) + 1) /\ DOMAIN env = 1..Len(env)
          /\ \A i \in 1..Len(env) : env'[i] = env[i]
          /\ env'[Len(env) + 1] = NewLine /\ Len(env) \in Nat
      BY <2>6, AppendFact DEF PutNewLine, Put, Piece
    <3>2. /\ Finish(t) /\ UNCHANGED <<users, admin>>
      BY <2>6 DEF PutNewLine, Put
    <3>3. \A i \in DOMAIN env' : env'[i] \in Users => i \in DOMAIN env /\ env'[i] = env[i]
      BY <3>1
    <3> QED BY <3>2, <3>3
  <2>7. CASE PersistFails(t)
    BY <2>7 DEF PersistFails
  <2> QED BY <1>4, <2>1, <2>2, <2>3, <2>4, <2>5, <2>6, <2>7, PutFact
<1>5. CASE Stop
  BY <1>5 DEF Stop
<1>6. CASE RemoveTornKey
  BY <1>6 DEF RemoveTornKey
<1>7. CASE UNCHANGED vars
  BY <1>7 DEF vars
<1> QED BY <1>1, <1>2, <1>3, <1>4, <1>5, <1>6, <1>7, NextFact

\* A piece more leaves the lines there are; it starts one after a newline only.
LEMMA ParsesFact ==
  ASSUME NEW f \in Seq(Piece), NEW p \in Piece, Parses(f),
         p \in {Key, NewLine} \/ (f # <<>> /\ f[Len(f)] # NewLine)
  PROVE  Parses(Append(f, p))
<1> DEFINE g == Append(f, p)
<1>1. /\ DOMAIN g = 1..(Len(f) + 1) /\ DOMAIN f = 1..Len(f) /\ Len(f) \in Nat
      /\ \A i \in 1..Len(f) : g[i] = f[i]
      /\ g[Len(f) + 1] = p
  BY AppendFact
<1>2. f # <<>> => Len(f) > 0
  BY <1>1, EmptySeq
<1> HIDE DEF g
<1> SUFFICES ASSUME NEW i \in DOMAIN g, LineStart(g, i)
             PROVE  g[i] \in {Key, NewLine}
  BY DEF Parses, g
<1>3. CASE i \in 1..Len(f)
  <2>1. g[i] = f[i] /\ (i # 1 => g[i - 1] = f[i - 1])
    BY <1>1, <1>3
  <2>2. LineStart(f, i)
    BY <2>1 DEF LineStart
  <2> QED BY <1>1, <1>3, <2>1, <2>2 DEF Parses
<1>4. CASE i = Len(f) + 1
  <2>1. CASE p \in {Key, NewLine}
    BY <1>1, <1>4, <2>1
  <2>2. CASE f # <<>> /\ f[Len(f)] # NewLine
    <3>1. i # 1 /\ g[i - 1] = f[Len(f)]
      BY <1>1, <1>2, <1>4, <2>2
    <3> QED BY <2>2, <3>1 DEF LineStart
  <2> QED BY <2>1, <2>2
<1> QED BY <1>1, <1>3, <1>4

\* Registrations begin when the server serves, and end with it.
LEMMA WorkingStep ==
  ASSUME TypeOK, Working, [Next]_vars
  PROVE  Working'
<1> USE DEF TypeOK, Working, Goto, Finish, disk, server, tasks, history
<1>1. CASE Boot
  BY <1>1 DEF Boot, Start, LoadKey, RefuseKey, CreateKey, WriteKey
<1>2. CASE SealMessage
  BY <1>2 DEF SealMessage
<1>3. ASSUME NEW t \in Tasks, NEW u \in Users, NEW n \in Names, Register(t, u, n)
      PROVE  Working'
  BY <1>3 DEF Register
<1>4. ASSUME NEW t \in Tasks, Step(t)
      PROVE  Working'
  <2>1. pc[t] # "idle" /\ phase' = phase /\ \A s \in Tasks \ {t} : pc'[s] = pc[s]
    <3>1. CASE InsertUser(t)
      BY <3>1 DEF InsertUser
    <3>2. CASE CheckUnset(t)
      BY <3>2 DEF CheckUnset
    <3>3. CASE SetAdmin(t)
      BY <3>3 DEF SetAdmin
    <3>4. CASE PutKey(t) \/ PutId(t) \/ PutNewLine(t)
      BY <3>4 DEF PutKey, PutId, PutNewLine, Put
    <3>5. CASE PersistFails(t)
      BY <3>5 DEF PersistFails, Persisting
    <3> QED BY <1>4, <3>1, <3>2, <3>3, <3>4, <3>5, PutFact
  <2> QED BY <2>1
<1>5. CASE Stop
  BY <1>5 DEF Stop
<1>6. CASE RemoveTornKey
  BY <1>6 DEF RemoveTornKey
<1>7. CASE UNCHANGED vars
  BY <1>7 DEF vars
<1> QED BY <1>1, <1>2, <1>3, <1>4, <1>5, <1>6, <1>7, NextFact

LoadInv == ~raced => Parses(env) /\ OneWriter

\* Unless two tasks found AdminId unset at once, one task at a time appends to
\* .env, and the id it appends follows the key.
LEMMA LoadableStep ==
  ASSUME TypeOK, Working, LoadInv, [Next]_vars
  PROVE  LoadInv'
<1> USE ConstantFact DEF TypeOK, LoadInv, OneWriter, Writing, Persisting,
      Goto, Finish, disk, server, tasks, history
<1>1. CASE Boot
  <2>1. phase # "serving" /\ UNCHANGED <<env, pc, raced>>
    BY <1>1 DEF Boot, Start, LoadKey, RefuseKey, CreateKey, WriteKey
  <2>2. \A t \in Tasks : pc'[t] = "idle"
    BY <2>1 DEF Working
  <2> QED BY <2>1, <2>2
<1>2. CASE SealMessage
  BY <1>2 DEF SealMessage
<1>3. ASSUME NEW t \in Tasks, NEW u \in Users, NEW n \in Names, Register(t, u, n)
      PROVE  LoadInv'
  BY <1>3 DEF Register
<1>4. ASSUME NEW t \in Tasks, Step(t)
      PROVE  LoadInv'
  <2>1. CASE InsertUser(t)
    BY <2>1 DEF InsertUser
  <2>2. CASE CheckUnset(t)
    <3>1. CASE Finish(t) /\ UNCHANGED raced
      BY <2>2, <3>1 DEF CheckUnset
    <3>2. CASE /\ admin = NoUser /\ pc' = [pc EXCEPT ![t] = "set"]
               /\ raced' = (raced \/ \E s \in Tasks : pc[s] = "set")
      <4> SUFFICES ASSUME ~raced' PROVE LoadInv'
        OBVIOUS
      <4>1. ~raced /\ \A s \in Tasks : pc[s] \notin Writing
        BY <3>2
      <4>2. UNCHANGED <<env, admin>>
        BY <2>2 DEF CheckUnset
      <4> QED BY <3>2, <4>1, <4>2
    <3> QED BY <2>2, <3>1, <3>2 DEF CheckUnset
  <2>3. CASE SetAdmin(t)
    <3>1. req[t].id \in Users
      BY <2>3 DEF SetAdmin, Request
    <3> QED BY <2>3, <3>1 DEF SetAdmin
  <2>4. CASE PutKey(t)
    <3>1. env' = Append(env, Key) /\ Key \in Piece
      BY <2>4 DEF PutKey, Put, Piece
    <3>2. Parses(env) => Parses(env')
      BY <3>1, ParsesFact
    <3>3. env' # <<>> /\ env'[Len(env')] = Key
      BY <3>1, AppendFact
    <3> QED BY <2>4, <3>2, <3>3 DEF PutKey, Put
  <2>5. CASE PutId(t)
    <3>1. env' = Append(env, req[t].id) /\ req[t].id \in Piece
      BY <2>5 DEF PutId, Put, Piece, Request
    <3>2. pc' = [pc EXCEPT ![t] = "put_newline"] /\ pc[t] = "put_id"
          /\ UNCHANGED <<admin, raced>>
      BY <2>5 DEF PutId, Put
    <3> SUFFICES ASSUME ~raced' PROVE LoadInv'
      OBVIOUS
    <3>3. env # <<>> /\ env[Len(env)] # NewLine
      BY <3>2
    <3>4. Parses(env')
      BY <3>1, <3>2, <3>3, ParsesFact
    <3>5. \A s \in Tasks : pc'[s] # "put_id"
      BY <3>2
    <3>6. \A s \in Tasks : pc'[s] \in Persisting => pc[s] \in Persisting
      BY <3>2
    <3>7. \A s, r \in Tasks : pc'[s] \in Writing /\ pc'[r] \in Writing => s = r
      BY <3>2
    <3> QED BY <3>2, <3>4, <3>5, <3>6, <3>7
  <2>6. CASE PutNewLine(t)
    <3>1. env' = Append(env, NewLine) /\ NewLine \in Piece
      BY <2>6 DEF PutNewLine, Put, Piece
    <3>2. Parses(env) => Parses(env')
      BY <3>1, ParsesFact
    <3> QED BY <2>6, <3>2 DEF PutNewLine, Put
  <2>7. CASE PersistFails(t)
    BY <2>7 DEF PersistFails
  <2> QED BY <1>4, <2>1, <2>2, <2>3, <2>4, <2>5, <2>6, <2>7, PutFact
<1>5. CASE Stop
  BY <1>5 DEF Stop
<1>6. CASE RemoveTornKey
  BY <1>6 DEF RemoveTornKey
<1>7. CASE UNCHANGED vars
  BY <1>7 DEF vars
<1> QED BY <1>1, <1>2, <1>3, <1>4, <1>5, <1>6, <1>7, NextFact

\* Two registrations under way have two ids, new until they are inserted.
LEMMA NewStep ==
  ASSUME TypeOK, IdsAreNew, [Next]_vars
  PROVE  IdsAreNew'
<1> USE ConstantFact DEF TypeOK, IdsAreNew, Ids, Goto, Finish, disk, server, tasks, history
<1>1. CASE Boot
  BY <1>1 DEF Boot, Start, LoadKey, RefuseKey, CreateKey, WriteKey
<1>2. CASE SealMessage
  BY <1>2 DEF SealMessage
<1>3. ASSUME NEW t \in Tasks, NEW u \in Users, NEW n \in Names, Register(t, u, n)
      PROVE  IdsAreNew'
  BY <1>3 DEF Register
<1>4. ASSUME NEW t \in Tasks, Step(t)
      PROVE  IdsAreNew'
  <2>1. CASE InsertUser(t)
    <3>1. CASE Finish(t) /\ UNCHANGED <<users, first>>
      BY <3>1
    <3>2. CASE /\ users' = users \cup {req[t]}
               /\ first' = IF first = NoUser THEN req[t].id ELSE first
               /\ pc' = [pc EXCEPT ![t] = "check"]
               /\ UNCHANGED req
      <4>1. pc[t] = "insert" /\ req[t].id \in Users
        BY <2>1 DEF InsertUser, Request
      <4>2. \A s \in Tasks : pc'[s] = "insert" => s # t /\ pc[s] = "insert"
        BY <3>2
      <4>3. \A s \in Tasks : pc'[s] = "insert" => req[s].id \notin {r.id : r \in users'}
        BY <3>2, <4>1, <4>2
      <4> QED BY <3>2, <4>1, <4>3
    <3> QED BY <2>1, <3>1, <3>2 DEF InsertUser
  <2>2. CASE ~InsertUser(t)
    <3>1. /\ UNCHANGED <<users, first>>
          /\ pc[t] # "insert" /\ pc[t] # "idle" /\ pc'[t] # "insert"
          /\ \A s \in Tasks \ {t} : pc'[s] = pc[s] /\ req'[s] = req[s]
          /\ pc'[t] = "idle" \/ req'[t] = req[t]
      <4>1. CASE CheckUnset(t)
        BY <4>1 DEF CheckUnset
      <4>2. CASE SetAdmin(t)
        BY <4>2 DEF SetAdmin
      <4>3. CASE PutKey(t) \/ PutId(t) \/ PutNewLine(t)
        BY <4>3 DEF PutKey, PutId, PutNewLine, Put
      <4>4. CASE PersistFails(t)
        BY <4>4 DEF PersistFails, Persisting
      <4> QED BY <1>4, <2>2, <4>1, <4>2, <4>3, <4>4, PutFact
    <3>2. \A s \in Tasks : pc'[s] # "idle" => pc[s] # "idle" /\ req'[s] = req[s]
      BY <3>1
    <3>3. ASSUME NEW s \in Tasks, pc'[s] = "insert" PROVE req'[s].id \notin Ids'
      <4>1. s # t /\ pc[s] = "insert" /\ req'[s] = req[s]
        BY <3>1, <3>3
      <4> QED BY <3>1, <4>1
    <3> QED BY <3>1, <3>2, <3>3
  <2> QED BY <2>1, <2>2
<1>5. CASE Stop
  BY <1>5 DEF Stop
<1>6. CASE RemoveTornKey
  BY <1>6 DEF RemoveTornKey
<1>7. CASE UNCHANGED vars
  BY <1>7 DEF vars
<1> QED BY <1>1, <1>2, <1>3, <1>4, <1>5, <1>6, <1>7, NextFact

\* What a start reads back from the files an undisturbed promotion leaves.
LEMMA ReloadFact ==
  /\ Loaded(<<>>) = NoUser
  /\ \A u \in Users : Loaded(<<Key, u>>) = u /\ Loaded(<<Key, u, NewLine>>) = u
<1>1. Loaded(<<>>) = NoUser
  BY DEF Loaded, AdminLines
<1>2. ASSUME NEW u \in Users PROVE Loaded(<<Key, u>>) = u
  <2> DEFINE f == <<Key, u>>
  <2>1. DOMAIN f = 1..2 /\ f[1] = Key /\ f[2] = u
    OBVIOUS
  <2>2. u # Key /\ u # NewLine
    BY ConstantFact
  <2> HIDE DEF f
  <2>3. AdminLines(f) = {1}
    BY <2>1, <2>2, ConstantFact DEF AdminLines, LineStart
  <2>4. (CHOOSE i \in DOMAIN f : Counts(f, i)) = 1
    <3>1. Counts(f, 1) /\ \A i \in DOMAIN f : Counts(f, i) => i = 1
      BY <2>1, <2>3 DEF Counts
    <3> QED BY <2>1, <3>1
  <2>5. Value(f, 1) = u
    BY <2>1 DEF Value
  <2> QED BY <2>3, <2>4, <2>5 DEF Loaded, f
<1>3. ASSUME NEW u \in Users PROVE Loaded(<<Key, u, NewLine>>) = u
  <2> DEFINE f == <<Key, u, NewLine>>
  <2>1. DOMAIN f = 1..3 /\ f[1] = Key /\ f[2] = u /\ f[3] = NewLine
    OBVIOUS
  <2>2. u # Key /\ u # NewLine
    BY ConstantFact
  <2> HIDE DEF f
  <2>3. AdminLines(f) = {1}
    BY <2>1, <2>2, ConstantFact DEF AdminLines, LineStart
  <2>4. (CHOOSE i \in DOMAIN f : Counts(f, i)) = 1
    <3>1. Counts(f, 1) /\ \A i \in DOMAIN f : Counts(f, i) => i = 1
      BY <2>1, <2>3 DEF Counts
    <3> QED BY <2>1, <3>1
  <2>5. Value(f, 1) = u
    BY <2>1 DEF Value
  <2> QED BY <2>3, <2>4, <2>5 DEF Loaded, f
<1> QED BY <1>1, <1>2, <1>3

\* An undisturbed promotion goes from one stage to the next, and survives a
\* stop once the id is in .env.
LEMMA PromotionStep ==
  ASSUME IInv, IdsAreNew, Undisturbed, [Next]_vars
  PROVE  Undisturbed'
<1> USE ConstantFact DEF IInv, TypeOK, Undisturbed, Unpersisted, Unpromoted, Writing, Persisting,
      Goto, Finish, disk, server, tasks, history
<1> SUFFICES ASSUME ~disturbed' PROVE IF first' = NoUser THEN Before' ELSE Promotion'
  OBVIOUS
<1>1. CASE Boot
  <2>1. phase # "serving" /\ UNCHANGED <<users, env, pc, req, first, disturbed>>
    BY <1>1 DEF Boot, Start, LoadKey, RefuseKey, CreateKey, WriteKey
  <2>2. \A t \in Tasks : pc[t] = "idle"
    BY <2>1 DEF Working
  <2>3. CASE first = NoUser
    <3>1. env = <<>> /\ admin = NoUser
      BY <2>1, <2>3 DEF Before
    <3>2. admin' = NoUser
      BY <1>1, <3>1, ReloadFact DEF Boot, Start, LoadKey, RefuseKey, CreateKey, WriteKey
    <3> QED BY <2>1, <2>2, <2>3, <3>2 DEF Before
  <2>4. CASE first # NoUser
    <3>1. env \in {<<Key, first>>, <<Key, first, NewLine>>}
      BY <2>1, <2>2, <2>4 DEF Promotion
    <3>2. phase # "down" => admin = first
      BY <2>1, <2>2, <2>4 DEF Promotion
    <3>3. Loaded(env) = first
      BY <2>4, <3>1, ReloadFact
    <3>4. phase' # "down" => admin' = first
      BY <1>1, <3>2, <3>3 DEF Boot, Start, LoadKey, RefuseKey, CreateKey, WriteKey
    <3> QED BY <2>1, <2>2, <2>4, <3>1, <3>4 DEF Promotion
  <2> QED BY <2>3, <2>4
<1>2. CASE SealMessage
  BY <1>2 DEF SealMessage, Before, Promotion
<1>3. ASSUME NEW t \in Tasks, NEW u \in Users, NEW n \in Names, Register(t, u, n)
      PROVE  IF first' = NoUser THEN Before' ELSE Promotion'
  <2>1. /\ UNCHANGED <<users, env, admin, phase, first, disturbed>>
        /\ pc' = [pc EXCEPT ![t] = "insert"] /\ pc[t] = "idle"
        /\ \A s \in Tasks \ {t} : req'[s] = req[s]
    BY <1>3 DEF Register
  <2>2. CASE first = NoUser
    BY <2>1, <2>2 DEF Before
  <2>3. CASE first # NoUser
    <3>1. /\ Unpromoted' <=> Unpromoted
          /\ \A s \in Tasks : Unpersisted(s)' <=> Unpersisted(s)
      BY <2>1
    <3> QED BY <2>1, <2>3, <3>1 DEF Promotion
  <2> QED BY <2>2, <2>3
<1>4. ASSUME NEW t \in Tasks, Step(t)
      PROVE  IF first' = NoUser THEN Before' ELSE Promotion'
  <2>1. CASE InsertUser(t)
    <3>1. CASE Finish(t) /\ UNCHANGED <<users, first, env, admin, phase, disturbed>>
      <4>1. CASE first = NoUser
        BY <3>1, <4>1 DEF Before
      <4>2. CASE first # NoUser
        <5>1. pc[t] = "insert"
          BY <2>1 DEF InsertUser
        <5>2. (Unpromoted' <=> Unpromoted) /\ \A s \in Tasks : Unpersisted(s)' <=> Unpersisted(s)
          BY <3>1, <5>1
        <5> QED BY <3>1, <4>2, <5>1, <5>2 DEF Promotion
      <4> QED BY <4>1, <4>2
    <3>2. CASE /\ users' = users \cup {req[t]}
               /\ first' = IF first = NoUser THEN req[t].id ELSE first
               /\ ~Unpromoted /\ ~disturbed
               /\ pc' = [pc EXCEPT ![t] = "check"] /\ pc[t] = "insert"
               /\ UNCHANGED <<req, env, admin, phase>>
      <4>1. req[t].id \in Users /\ req[t].id \notin Ids
        BY <3>2 DEF IdsAreNew, Request
      <4>2. CASE first = NoUser
        <5>1. first' = req[t].id /\ first' # NoUser
          BY <3>2, <4>1, <4>2
        <5>2. env = <<>> /\ admin = NoUser /\ \A s \in Tasks : pc[s] \in {"idle", "insert"}
          BY <3>2, <4>2 DEF Before
        <5>3. Unpromoted' /\ Unpersisted(t)'
          BY <3>2, <5>1
        <5>4. \A s \in Tasks : s # t => pc'[s] \in {"idle", "insert"}
          BY <3>2, <5>2
        <5> QED BY <3>2, <5>1, <5>2, <5>3, <5>4 DEF Promotion
      <4>3. CASE first # NoUser
        <5>1. first' = first /\ req[t].id # first
          BY <3>2, <4>1, <4>3 DEF IdsAreNew
        <5>2. phase = "serving" /\ admin = first
          BY <3>2, <4>3 DEF Promotion, Working
        <5>3. (Unpromoted' <=> Unpromoted) /\ \A s \in Tasks : Unpersisted(s)' <=> Unpersisted(s)
          BY <3>2, <5>1
        <5> QED BY <3>2, <4>3, <5>1, <5>2, <5>3 DEF Promotion
      <4> QED BY <4>2, <4>3
    <3> QED BY <2>1, <3>1, <3>2 DEF InsertUser
  <2>2. ASSUME ~InsertUser(t) PROVE Promotion /\ first' = first /\ first # NoUser
    <3>1. first' = first /\ pc[t] \notin {"idle", "insert"} /\ ~disturbed
      BY <1>4, <2>2, PutFact
         DEF CheckUnset, SetAdmin, PutKey, PutId, PutNewLine, Put, PersistFails
    <3> QED BY <3>1 DEF Before
  <2>3. CASE CheckUnset(t)
    <3>1. Promotion /\ first # NoUser
      BY <2>2, <2>3 DEF CheckUnset, InsertUser
    <3>2. pc[t] = "check" /\ UNCHANGED <<env, admin, phase, first>>
      BY <2>3 DEF CheckUnset
    <3>3. CASE admin = NoUser
      <4>1. req[t].id = first
        BY <3>1, <3>2, <3>3 DEF Promotion
      <4>2. pc' = [pc EXCEPT ![t] = "set"] /\ UNCHANGED req
        BY <2>3, <3>3 DEF CheckUnset
      <4>3. Unpromoted /\ Unpromoted' /\ Unpersisted(t) /\ Unpersisted(t)'
        BY <3>2, <4>1, <4>2
      <4> QED BY <3>1, <3>2, <4>1, <4>2, <4>3 DEF Promotion
    <3>4. CASE admin # NoUser
      <4>1. ~Unpromoted /\ req[t].id # first
        BY <3>1, <3>2, <3>4 DEF Promotion
      <4>2. Finish(t)
        BY <2>3, <3>4 DEF CheckUnset
      <4>3. ~Unpromoted' /\ \A s \in Tasks : Unpersisted(s)' <=> Unpersisted(s)
        BY <3>2, <4>1, <4>2
      <4> QED BY <3>1, <3>2, <4>1, <4>2, <4>3 DEF Promotion
    <3> QED BY <3>3, <3>4
  <2>4. ASSUME pc[t] \in Writing, first' = first, first # NoUser
        PROVE  /\ req[t].id = first
               /\ \A s \in Tasks : s # t => ~(pc[s] # "idle" /\ req[s].id = first)
               /\ \A s \in Tasks : s # t => pc[s] \notin Writing
    <3>1. ~disturbed /\ Promotion
      BY <1>4, <2>4, PutFact
         DEF InsertUser, CheckUnset, SetAdmin, PutKey, PutId, PutNewLine, Put, PersistFails
    <3>2. req[t].id = first
      BY <2>4, <3>1 DEF Promotion
    <3> QED BY <2>4, <3>1, <3>2 DEF Promotion, IdsAreNew
  <2>5. CASE SetAdmin(t)
    <3>1. Promotion /\ first # NoUser /\ first' = first
      BY <2>2, <2>5 DEF SetAdmin, InsertUser
    <3>2. /\ pc[t] = "set" /\ pc' = [pc EXCEPT ![t] = "put_key"] /\ admin' = req[t].id
          /\ UNCHANGED <<env, req, phase>>
      BY <2>5 DEF SetAdmin
    <3>3. Unpromoted /\ ~Unpromoted' /\ Unpersisted(t)'
      BY <2>4, <3>1, <3>2
    <3> QED BY <2>4, <3>1, <3>2, <3>3 DEF Promotion
  <2>6. CASE PutKey(t)
    <3>1. Promotion /\ first # NoUser /\ first' = first
      BY <2>2, <2>6 DEF PutKey, Put, InsertUser
    <3>2. /\ pc[t] = "put_key" /\ pc' = [pc EXCEPT ![t] = "put_id"] /\ env' = Append(env, Key)
          /\ UNCHANGED <<admin, req, phase>>
      BY <2>6 DEF PutKey, Put
    <3>3. env = <<>>
      BY <3>1, <3>2 DEF Promotion
    <3>4. env' = <<Key>>
      BY <3>2, <3>3
    <3>5. ~Unpromoted /\ ~Unpromoted' /\ Unpersisted(t)'
      BY <2>4, <3>1, <3>2
    <3> QED BY <2>4, <3>1, <3>2, <3>4, <3>5 DEF Promotion
  <2>7. CASE PutId(t)
    <3>1. Promotion /\ first # NoUser /\ first' = first
      BY <2>2, <2>7 DEF PutId, Put, InsertUser
    <3>2. /\ pc[t] = "put_id" /\ pc' = [pc EXCEPT ![t] = "put_newline"]
          /\ env' = Append(env, req[t].id) /\ UNCHANGED <<admin, req, phase>>
      BY <2>7 DEF PutId, Put
    <3>3. env = <<Key>> /\ req[t].id = first
      BY <2>4, <3>1, <3>2 DEF Promotion
    <3>4. env' = <<Key, first>>
      <4>1. Key \in Piece /\ first \in Piece
        BY <3>1 DEF Piece
      <4> QED BY <3>2, <3>3, <4>1, LineFact
    <3>5. ~Unpromoted /\ ~Unpromoted'
      BY <2>4, <3>1, <3>2
    <3> QED BY <2>4, <3>1, <3>2, <3>4, <3>5 DEF Promotion
  <2>8. CASE PutNewLine(t)
    <3>1. Promotion /\ first # NoUser /\ first' = first
      BY <2>2, <2>8 DEF PutNewLine, Put, InsertUser
    <3>2. /\ pc[t] = "put_newline" /\ Finish(t)
          /\ env' = Append(env, NewLine) /\ UNCHANGED <<admin, phase>>
      BY <2>8 DEF PutNewLine, Put
    <3>3. env = <<Key, first>>
      BY <3>1, <3>2 DEF Promotion
    <3>4. env' = <<Key, first, NewLine>>
      <4>1. Key \in Piece /\ first \in Piece /\ NewLine \in Piece
        BY <3>1 DEF Piece
      <4> QED BY <3>2, <3>3, <4>1, LineFact
    <3>5. ~Unpromoted /\ ~Unpromoted'
      BY <2>4, <3>1, <3>2
    <3> QED BY <2>4, <3>1, <3>2, <3>4, <3>5 DEF Promotion
  <2>9. CASE PersistFails(t)
    <3>1. Promotion /\ first # NoUser /\ first' = first
      BY <2>2, <2>9 DEF PersistFails, InsertUser
    <3>2. /\ pc[t] \in Persisting /\ ~Unpersisted(t) /\ Finish(t)
          /\ UNCHANGED <<env, admin, phase>>
      BY <2>9 DEF PersistFails
    <3>3. pc[t] = "put_newline"
      BY <2>4, <3>1, <3>2
    <3>4. env = <<Key, first>>
      BY <3>1, <3>3 DEF Promotion
    <3>5. ~Unpromoted /\ ~Unpromoted'
      BY <2>4, <3>1, <3>2, <3>3
    <3> QED BY <2>4, <3>1, <3>2, <3>3, <3>4, <3>5 DEF Promotion
  <2> QED BY <1>4, <2>1, <2>3, <2>5, <2>6, <2>7, <2>8, <2>9, PutFact
<1>5. CASE Stop
  <2>1. /\ UNCHANGED <<users, env, first, disturbed>> /\ phase' = "down" /\ admin' = NoUser
        /\ \A t \in Tasks : pc'[t] = "idle" /\ ~Unpersisted(t)
    BY <1>5 DEF Stop
  <2>2. CASE first = NoUser
    BY <2>1, <2>2 DEF Before
  <2>3. CASE first # NoUser
    BY <2>1, <2>3 DEF Promotion
  <2> QED BY <2>2, <2>3
<1>6. CASE RemoveTornKey
  BY <1>6 DEF RemoveTornKey, Before, Promotion
<1>7. CASE UNCHANGED vars
  BY <1>7 DEF vars, Before, Promotion
<1> QED BY <1>1, <1>2, <1>3, <1>4, <1>5, <1>6, <1>7, NextFact

\* The first .env holds no id, and nothing is registered or stored.
LEMMA InitFact ==
  ASSUME Init
  PROVE  IInv
<1>1. env \in Seq({Key, NewLine})
  BY BootstrapAssumption DEF Init
<1>2. env \in Seq(Piece) /\ \A i \in DOMAIN env : env[i] \notin Users
  BY <1>1, ConstantFact DEF Piece
<1>3. disturbed \in BOOLEAN /\ raced \in BOOLEAN
  BY ZenonT(20) DEF Init
<1>4. TypeOK
  BY <1>2, <1>3, BootstrapAssumption DEF Init, TypeOK
<1> QED BY <1>2, <1>4, ConstantFact
    DEF Init, IInv, AdminHasAccount, IdsHaveAccounts, MessagesReadable, KeyPhases, Persisting,
        Working
-----------------------------------------------------------------------------
(* The theorems *)

\* Types, accounts and keys hold in every reachable state.
THEOREM Invariance == Spec => []IInv
<1>1. Init => IInv
  BY InitFact
<1>2. IInv /\ [Next]_vars => IInv'
  BY TypeStep, KeyStep, AccountStep, WorkingStep DEF IInv
<1> QED BY <1>1, <1>2, PTL DEF Spec

\* Every variable keeps its type.
THEOREM TypeCorrect == Spec => []TypeOK
<1>1. IInv => TypeOK
  BY DEF IInv
<1> QED BY <1>1, Invariance, PTL

\* The admin of every run has an account, whatever happened to .env.
THEOREM AdminRegistered == Spec => []AdminHasAccount
<1>1. IInv => AdminHasAccount
  BY DEF IInv
<1> QED BY <1>1, Invariance, PTL

\* Only two tasks that found AdminId unset at once can leave a .env that no
\* start will parse.
THEOREM Loadable == Spec => []EnvStaysLoadable
<1>1. Init => LoadInv
  <2>1. ASSUME Init PROVE Parses(env)
    <3>1. env \in Seq({Key, NewLine})
      BY <2>1, BootstrapAssumption DEF Init
    <3> QED BY <3>1 DEF Parses
  <2>2. ASSUME Init PROVE OneWriter
    BY <2>2 DEF Init, OneWriter, Writing, Persisting
  <2> QED BY <2>1, <2>2 DEF LoadInv
<1>2. IInv /\ LoadInv /\ [Next]_vars => LoadInv'
  BY LoadableStep DEF IInv
<1>3. LoadInv => EnvStaysLoadable
  BY DEF LoadInv, EnvStaysLoadable
<1> QED BY <1>1, <1>2, <1>3, Invariance, PTL DEF Spec

\* The first user is the admin of every run, where nothing disturbs the
\* promotion: no .env write, restart or later registration undoes it.
THEOREM FirstIsAdmin == Spec => []FirstStaysAdmin
<1>1. Init => IdsAreNew /\ Undisturbed
  <2>1. ASSUME Init PROVE IdsAreNew
    BY <2>1 DEF Init, IdsAreNew
  <2>2. ASSUME Init PROVE Undisturbed
    BY <2>2 DEF Init, Undisturbed, Before
  <2> QED BY <2>1, <2>2
<1>2. IInv /\ IdsAreNew /\ Undisturbed /\ [Next]_vars => (IdsAreNew /\ Undisturbed)'
  BY NewStep, PromotionStep DEF IInv
<1>3. Undisturbed => FirstStaysAdmin
  BY DEF Undisturbed, FirstStaysAdmin, Settled, Promotion
<1> QED BY <1>1, <1>2, <1>3, Invariance, PTL DEF Spec

\* No start of the server replaces the key of a stored message.
THEOREM KeyKept == Spec => []MessagesReadable
<1>1. IInv => MessagesReadable
  BY DEF IInv
<1> QED BY <1>1, Invariance, PTL
=============================================================================
